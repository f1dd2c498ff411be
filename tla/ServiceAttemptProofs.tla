------------------------ MODULE ServiceAttemptProofs ------------------------
(***************************************************************************)
(* What the attempts of PluginService leave behind, whatever the bounds:   *)
(* a prompt belongs to the attempt in flight, an attempt gives up silently *)
(* only when it was cancelled, STOPPING does not outlive its Disconnect,   *)
(* and an engine is taken down by those that started it and by no others.  *)
(***************************************************************************)
EXTENDS ServiceSessionProofs

(* A setup key can only be delivered once the attempt has asked for it, so *)
(* its channel is empty when the prompt is registered.                     *)
NotYetAsked == {"idle", "reserved", "dial", "prepare", "authenticate", "askKey"}
KeyAfterPrompt ==
    /\ \A a \in ID : pc[a] \in NotYetAsked => delivered[a] = "none"
    /\ prompt.kind = "setup-key" => pc[prompt.id] \notin NotYetAsked

(* The failure is reported, or the context is done, from the moment the    *)
(* attempt gives up.                                                       *)
ReportedOrCancelled ==
    \A a \in ID : pc[a] \in {"setStopped", "unwind", "down", "release"}
                    => a \in failed \/ cancelled[a]

(* An attempt learns of its engine while it holds the slot, so no other    *)
(* attempt's Up comes in between.                                          *)
AfterUp == {"ready", "config", "complete", "announce", "wrapUp", "fail",
            "setStopped", "unwind", "down", "release", "close", "done"}
EngineOfHolder ==
    /\ \A a \in ID : daemonUp[a] => pc[a] \in AfterUp
    /\ \A a \in ID : HoldsSlot(a) /\ (daemonUp[a] \/ pc[a] = "upWait")
                        => engine \in {Nil, a}
    /\ \A a \in ID : pc[a] = "down" => daemonUp[a]
    /\ \A a \in ID : pc[a] \in {"announce", "wrapUp"} => msession[a] # 0

(* A Disconnect that took over a session found no attempt in flight, and   *)
(* none begins before the next identity is given out.                      *)
NoneBesideTaken ==
    \A d \in ID : taken[d] # Nil =>
        /\ pc[d] \in DisconnectPCs \cup {"done"}
        /\ d <= activationID
        /\ activationID = d => ~activating

Attempt ==
    /\ PromptOfLiveAttempt /\ KeyAfterPrompt
    /\ ReportedOrCancelled /\ StoppingIsTransient
    /\ EngineOfHolder /\ FailedAttemptLeavesNoEngine
    /\ NoneBesideTaken /\ ActiveDisconnectStopsEngine

AttemptInv == SessionInv /\ Attempt

-----------------------------------------------------------------------------
\* What the invariant of the sessions gives.
LEMMA Known ==
    ASSUME SessionInv
    PROVE  /\ ServiceTypeOK /\ SlotExclusive /\ Unused /\ SessionMonitored
           /\ pc \in [ID -> {"idle", "done"} \cup AttemptPCs \cup DisconnectPCs]
           /\ \A a \in ID : HoldsSlot(a) => activating /\ activationCancel = a
BY DEF SessionInv, Session, SlotInv, TypeInv, ServiceTypeOK, ThreadTypeOK,
   SlotExclusive

-----------------------------------------------------------------------------
(* The prompt.                                                             *)

Prompting == PromptOfLiveAttempt /\ KeyAfterPrompt

\* The prompt stays or is dismissed, and no attempt goes back before its
\* request for the key.
LEMMA MoveKeepsPrompt ==
    ASSUME SessionInv, Prompting, NEW t \in ID, NEW to,
           pc' = [pc EXCEPT ![t] = to], UNCHANGED delivered,
           to \in NotYetAsked => pc[t] \in NotYetAsked,
           \/ prompt' = NoPrompt
           \/ /\ prompt' = prompt
              /\ UNCHANGED <<activating, activationCancel, activationID>>
    PROVE  Prompting'
<1>1. \A n \in ID : pc'[n] \in NotYetAsked => pc[n] \in NotYetAsked
  BY Known
<1>2. PromptOfLiveAttempt'
  BY DEF Prompting, PromptOfLiveAttempt
<1>3. KeyAfterPrompt'
  <2>1. ASSUME prompt'.kind = "setup-key"
        PROVE  pc'[prompt'.id] \notin NotYetAsked
    <3>1. prompt' = prompt /\ prompt # NoPrompt
      BY <2>1 DEF NoPrompt
    <3>2. prompt.id \in ID
      BY <3>1, Known DEF ServiceTypeOK, LockTypeOK, Prompting, PromptOfLiveAttempt,
         SlotExclusive
    <3>3. QED
      BY <1>1, <2>1, <3>1, <3>2 DEF Prompting, KeyAfterPrompt
  <2>2. QED
    BY <1>1, <2>1 DEF Prompting, KeyAfterPrompt
<1>4. QED
  BY <1>2, <1>3 DEF Prompting

\* A step that moves no goroutine and leaves the prompt alone.
LEMMA PromptStays ==
    ASSUME Prompting, UNCHANGED <<pc, delivered, prompt, activating,
                                  activationCancel, activationID>>
    PROVE  Prompting'
BY DEF Prompting, PromptOfLiveAttempt, KeyAfterPrompt

\* A prompt is registered for the attempt that is in flight, which goes on to
\* wait for the answer.
LEMMA RegisterKeepsPrompt ==
    ASSUME SessionInv, Prompting, NEW a \in ID, AskKey(a) \/ AskSSO(a)
    PROVE  Prompting'
<1> USE DEF AskKey, AskSSO, Goto, threadVars
<1>1. activating /\ activationCancel = a
  BY Known DEF HoldsSlot, AttemptPCs
<1>2. PICK to \in {"awaitKey", "fail", "awaitSSO"} : pc' = [pc EXCEPT ![a] = to]
  OBVIOUS
<1>3. CASE PromptWanted(a)
  <2>1. \A n \in ID : pc'[n] \in NotYetAsked => pc[n] \in NotYetAsked
    BY <1>2, Known DEF NotYetAsked
  <2>2. PICK kind \in {"setup-key", "sso"} :
            /\ prompt' = [id |-> a, kind |-> kind]
            /\ kind = "setup-key" => pc[a] = "askKey"
    BY <1>3 DEF RegisterPrompt
  <2>3. PromptOfLiveAttempt'
    BY <1>1, <1>3, <2>2 DEF PromptWanted, PromptOfLiveAttempt, Prompting,
       KeyAfterPrompt, NotYetAsked
  <2>4. KeyAfterPrompt'
    BY <1>2, <2>1, <2>2, Known DEF Prompting, KeyAfterPrompt, NotYetAsked
  <2>5. QED
    BY <2>3, <2>4 DEF Prompting
<1>4. CASE ~PromptWanted(a)
  BY <1>2, <1>4, MoveKeepsPrompt DEF RegisterPrompt, NotYetAsked
<1>5. QED
  BY <1>3, <1>4

\* Every step of an activation goroutine.
LEMMA AttemptKeepsPrompt ==
    ASSUME SessionInv, Prompting, NEW a \in ID, AttemptStep(a)
    PROVE  Prompting'
<1>1. CASE AskKey(a) \/ AskSSO(a)
  BY <1>1, RegisterKeepsPrompt
<1>2. CASE ~AskKey(a) /\ ~AskSSO(a)
  <2>1. PICK to : /\ pc' = [pc EXCEPT ![a] = to]
                  /\ to \in NotYetAsked => pc[a] \in NotYetAsked
    BY <1>2 DEF NotYetAsked, AttemptStep, SetStarting, Dial, PrepareProfile,
       Authenticate, AskKey, AwaitKey, Login, AskSSO, AwaitSSO, Configure, Up,
       UpReturns, WaitForReady, EmitConfig, CompleteActivation, SetStarted,
       WrapUp, ReportFailure, SetStopped, Unwind, DownAfterFailure, Release,
       CloseAfterFailure, Call, FailFrom, Down, Goto
  <2>2. UNCHANGED delivered
    BY <1>2 DEF threadVars, AttemptStep, SetStarting, Dial, PrepareProfile,
       Authenticate, AskKey, AwaitKey, Login, AskSSO, AwaitSSO, Configure, Up,
       UpReturns, WaitForReady, EmitConfig, CompleteActivation, SetStarted,
       WrapUp, ReportFailure, SetStopped, Unwind, DownAfterFailure, Release,
       CloseAfterFailure, Call, FailFrom, Down, Goto
  <2>3. \/ prompt' = NoPrompt
        \/ /\ prompt' = prompt
           /\ UNCHANGED <<activating, activationCancel, activationID>>
    BY <1>2 DEF lockVars, ClearPrompt, AttemptStep, SetStarting, Dial,
       PrepareProfile, Authenticate, AskKey, AwaitKey, Login, AskSSO,
       AwaitSSO, Configure, Up, UpReturns, WaitForReady, EmitConfig,
       CompleteActivation, SetStarted, WrapUp, ReportFailure, SetStopped,
       Unwind, DownAfterFailure, Release, CloseAfterFailure, Call, FailFrom,
       Down, Goto
  <2>4. QED
    BY <2>1, <2>2, <2>3, MoveKeepsPrompt
<1>3. QED
  BY <1>1, <1>2

\* A new attempt, and a Disconnect, begin without a prompt.
LEMMA CallKeepsPrompt ==
    ASSUME SessionInv, Prompting, NEW t \in ID,
           (\E r \in Requests : Connect(t, r)) \/ Disconnect(t)
    PROVE  Prompting'
<1>1. pc[t] = "idle" /\ prompt' = NoPrompt /\ UNCHANGED delivered
  BY Known, MaxIDAssumption DEF Connect, Disconnect, NextID, Unused, ServiceTypeOK,
     LockTypeOK, ID
<1>2. PICK to : pc' = [pc EXCEPT ![t] = to]
  BY DEF Connect, Disconnect
<1>3. QED
  BY <1>1, <1>2, MoveKeepsPrompt DEF NotYetAsked

\* An answer dismisses the prompt, and a key goes to an attempt that has asked.
LEMMA AnswerKeepsPrompt ==
    ASSUME SessionInv, Prompting, NEW id, NEW reply, NewSecrets(id, reply)
    PROVE  Prompting'
<1>1. prompt' = NoPrompt /\ UNCHANGED pc
  BY DEF NewSecrets
<1>2. \A n \in ID : pc[n] \in NotYetAsked => delivered'[n] = "none"
  <2>1. CASE DeliverKey(reply)
    BY <2>1, Known DEF DeliverKey, Prompting, KeyAfterPrompt, ServiceTypeOK,
       ThreadTypeOK
  <2>2. CASE AnswerSSO(reply)
    BY <2>2 DEF AnswerSSO, Prompting, KeyAfterPrompt
  <2>3. QED
    BY <2>1, <2>2 DEF NewSecrets
<1>3. QED
  BY <1>1, <1>2 DEF Prompting, PromptOfLiveAttempt, KeyAfterPrompt, NoPrompt

\* The steps that do not belong to an attempt.
LEMMA OthersKeepPrompt ==
    ASSUME SessionInv, Prompting,
           \/ SetFailure \/ EngineDrops \/ UNCHANGED vars
           \/ \E t \in ID : DisconnectStep(t) \/ EmitStateChanged(t)
           \/ \E m \in ID : MonitorThreadStep(m)
    PROVE  Prompting'
<1> USE DEF lockVars, threadVars
<1>1. CASE SetFailure
  BY <1>1 DEF SetFailure, Prompting, PromptOfLiveAttempt, KeyAfterPrompt,
     NoPrompt
<1>2. CASE EngineDrops \/ UNCHANGED vars
  BY <1>2, PromptStays DEF EngineDrops, vars
<1>3. ASSUME NEW t \in ID, DisconnectStep(t) PROVE Prompting'
  <2>1. PICK to : /\ pc' = [pc EXCEPT ![t] = to] /\ to \notin NotYetAsked
    BY <1>3 DEF NotYetAsked, DownNeeded, DisconnectStep, SetStopping,
       DownAtDisconnect, CloseAtDisconnect, FinishDisconnect, Down, Goto
  <2>2. UNCHANGED <<delivered, prompt, activating, activationCancel,
                    activationID>>
    BY <1>3 DEF DisconnectStep, SetStopping, DownAtDisconnect,
       CloseAtDisconnect, FinishDisconnect, Down, Goto
  <2>3. QED
    BY <2>1, <2>2, MoveKeepsPrompt
<1>4. ASSUME NEW t \in ID, EmitStateChanged(t) PROVE Prompting'
  BY <1>4, PromptStays DEF EmitStateChanged
<1>5. ASSUME NEW m \in ID, MonitorThreadStep(m) PROVE Prompting'
  BY <1>5, PromptStays DEF MonitorThreadStep, MonitorEmitStateChanged,
     MonitorStep, Poll, ApplyError, ApplyAlive, ApplyFailed, ApplyStopped,
     ClearActiveSession, FailActiveSession, ReportSessionFailure,
     CloseAfterSession
<1>6. QED
  BY <1>1, <1>2, <1>3, <1>4, <1>5

-----------------------------------------------------------------------------
(* Giving up: reported, or cancelled.                                      *)

GivingUp == {"setStopped", "unwind", "down", "release"}

\* A goroutine moves, failures and cancellations are kept, and it gives up
\* only with one of them.
LEMMA MoveKeepsReported ==
    ASSUME SessionInv, ReportedOrCancelled, NEW t \in ID, NEW to,
           pc' = [pc EXCEPT ![t] = to], failed \subseteq failed',
           \A n \in ID : cancelled[n] => cancelled'[n],
           to \in GivingUp =>
                pc[t] \in GivingUp \/ t \in failed' \/ cancelled'[t]
    PROVE  ReportedOrCancelled'
BY Known DEF ReportedOrCancelled, GivingUp

\* A step that moves no goroutine and cancels at most.
LEMMA ReportedStays ==
    ASSUME ReportedOrCancelled, UNCHANGED <<pc, failed>>,
           \A n \in ID : cancelled[n] => cancelled'[n]
    PROVE  ReportedOrCancelled'
BY DEF ReportedOrCancelled

\* Calling a cancel function undoes no cancellation.
LEMMA CancelOnlyAdds ==
    ASSUME SessionInv, CancelActivation
    PROVE  \A n \in ID : cancelled[n] => cancelled'[n]
BY Known DEF CancelActivation, Cancelled, ServiceTypeOK, ThreadTypeOK

\* Every step of an activation goroutine.
LEMMA AttemptKeepsReported ==
    ASSUME SessionInv, ReportedOrCancelled, NEW a \in ID, AttemptStep(a)
    PROVE  ReportedOrCancelled'
<1>1. failed \subseteq failed'
  BY DEF signalVars, AttemptStep, SetStarting, Dial, PrepareProfile,
     Authenticate, AskKey, AwaitKey, Login, AskSSO, AwaitSSO, Configure, Up,
     UpReturns, WaitForReady, EmitConfig, CompleteActivation, SetStarted,
     WrapUp, ReportFailure, SetStopped, Unwind, DownAfterFailure, Release,
     CloseAfterFailure, Call, FailFrom, Down, Goto
<1>2. \A n \in ID : cancelled[n] => cancelled'[n]
  <2>1. cancelled \in [ID -> BOOLEAN]
    BY Known DEF ServiceTypeOK, ThreadTypeOK
  <2>2. QED
    BY <2>1 DEF threadVars, AttemptStep, SetStarting, Dial, PrepareProfile,
       Authenticate, AskKey, AwaitKey, Login, AskSSO, AwaitSSO, Configure, Up,
       UpReturns, WaitForReady, EmitConfig, CompleteActivation, SetStarted,
       WrapUp, ReportFailure, SetStopped, Unwind, DownAfterFailure, Release,
       CloseAfterFailure, Call, FailFrom, Down, Goto
<1>3. PICK to : /\ pc' = [pc EXCEPT ![a] = to]
                /\ to \in GivingUp => \/ pc[a] \in GivingUp
                                      \/ a \in failed' \/ cancelled[a]
  <2>1. pc[a] = "complete" => activating
    BY Known DEF HoldsSlot, AttemptPCs
  <2>2. QED
    BY <2>1 DEF GivingUp, MayComplete, AttemptStep, SetStarting, Dial,
       PrepareProfile, Authenticate, AskKey, AwaitKey, Login, AskSSO,
       AwaitSSO, Configure, Up, UpReturns, WaitForReady, EmitConfig,
       CompleteActivation, SetStarted, WrapUp, ReportFailure, SetStopped,
       Unwind, DownAfterFailure, Release, CloseAfterFailure, Call, FailFrom,
       Down, Goto
<1>4. QED
  BY <1>1, <1>2, <1>3, MoveKeepsReported

\* The steps that do not belong to an attempt.
LEMMA OthersKeepReported ==
    ASSUME SessionInv, ReportedOrCancelled, [Next]_vars,
           \A a \in ID : ~AttemptStep(a)
    PROVE  ReportedOrCancelled'
<1> USE DEF lockVars, threadVars, signalVars
<1>1. ASSUME NEW a \in ID, NEW r \in Requests, Connect(a, r)
      PROVE  ReportedOrCancelled'
  BY <1>1, MoveKeepsReported DEF Connect, GivingUp
<1>2. ASSUME NEW d \in ID, Disconnect(d) PROVE ReportedOrCancelled'
  BY <1>2, MoveKeepsReported, CancelOnlyAdds DEF Disconnect, GivingUp
<1>3. CASE SetFailure
  BY <1>3, ReportedStays, CancelOnlyAdds DEF SetFailure
<1>4. ASSUME NEW id, NEW reply, NewSecrets(id, reply)
      PROVE  ReportedOrCancelled'
  BY <1>4, ReportedStays, CancelOnlyAdds DEF NewSecrets, DeliverKey, AnswerSSO
<1>5. ASSUME NEW t \in ID, DisconnectStep(t) PROVE ReportedOrCancelled'
  <2>1. PICK to : pc' = [pc EXCEPT ![t] = to] /\ to \notin GivingUp
    BY <1>5 DEF GivingUp, DownNeeded, DisconnectStep, SetStopping,
       DownAtDisconnect, CloseAtDisconnect, FinishDisconnect, Down, Goto
  <2>2. failed \subseteq failed' /\ UNCHANGED cancelled
    BY <1>5 DEF DisconnectStep, SetStopping, DownAtDisconnect,
       CloseAtDisconnect, FinishDisconnect, Down, Goto
  <2>3. QED
    BY <2>1, <2>2, MoveKeepsReported
<1>6. ASSUME NEW t \in ID, EmitStateChanged(t) PROVE ReportedOrCancelled'
  BY <1>6, ReportedStays DEF EmitStateChanged
<1>7. ASSUME NEW m \in ID, MonitorThreadStep(m) PROVE ReportedOrCancelled'
  BY <1>7, ReportedStays DEF MonitorThreadStep, MonitorEmitStateChanged,
     MonitorStep, Poll, ApplyError, ApplyAlive, ApplyFailed, ApplyStopped,
     ClearActiveSession, FailActiveSession, ReportSessionFailure,
     CloseAfterSession
<1>8. CASE EngineDrops \/ UNCHANGED vars
  BY <1>8, ReportedStays DEF EngineDrops, vars
<1>9. QED
  BY <1>1, <1>2, <1>3, <1>4, <1>5, <1>6, <1>7, <1>8
     DEF Next, NetworkManagerCall, ThreadStep

-----------------------------------------------------------------------------
(* STOPPING.                                                               *)

Ending == {"disDown", "disClose", "disStopped"}

\* A goroutine that does not end its Disconnect, and sets no STOPPING.
LEMMA MoveKeepsStopping ==
    ASSUME SessionInv, StoppingIsTransient, NEW t \in ID, NEW to,
           pc' = [pc EXCEPT ![t] = to],
           state' = "stopping" => to \in Ending \/ state = "stopping",
           pc[t] \in Ending => to \in Ending \/ state' # "stopping"
    PROVE  StoppingIsTransient'
BY Known DEF StoppingIsTransient, Ending

\* Every step of the service.
LEMMA NextKeepsStopping ==
    ASSUME SessionInv, StoppingIsTransient, [Next]_vars
    PROVE  StoppingIsTransient'
<1> USE DEF lockVars, threadVars, signalVars, Ending
<1>1. ASSUME NEW t \in ID,
             (\E r \in Requests : Connect(t, r)) \/ Disconnect(t)
      PROVE  StoppingIsTransient'
  <2>1. pc[t] = "idle" /\ UNCHANGED state
    BY <1>1, Known, MaxIDAssumption DEF Connect, Disconnect, NextID, Unused,
       ServiceTypeOK, LockTypeOK, ID
  <2>2. PICK to : pc' = [pc EXCEPT ![t] = to]
    BY <1>1 DEF Connect, Disconnect
  <2>3. QED
    BY <2>1, <2>2, MoveKeepsStopping
<1>2. CASE SetFailure
  BY <1>2 DEF SetFailure, StoppingIsTransient
<1>3. ASSUME NEW id, NEW reply, NewSecrets(id, reply)
      PROVE  StoppingIsTransient'
  BY <1>3 DEF NewSecrets, StoppingIsTransient
<1>4. ASSUME NEW a \in ID, AttemptStep(a) PROVE StoppingIsTransient'
  <2>1. PICK to : pc' = [pc EXCEPT ![a] = to] /\ pc[a] \notin Ending
    BY <1>4 DEF AttemptStep, SetStarting, Dial, PrepareProfile, Authenticate,
     AskKey, AwaitKey, Login, AskSSO, AwaitSSO, Configure, Up, UpReturns,
     WaitForReady, EmitConfig, CompleteActivation, SetStarted, WrapUp,
     ReportFailure, SetStopped, Unwind, DownAfterFailure, Release,
     CloseAfterFailure, Call, FailFrom, Down, Goto
  <2>2. state' # "stopping" \/ UNCHANGED state
    BY <1>4 DEF SetState, AttemptStep, SetStarting, Dial, PrepareProfile,
       Authenticate, AskKey, AwaitKey, Login, AskSSO, AwaitSSO, Configure, Up,
       UpReturns, WaitForReady, EmitConfig, CompleteActivation, SetStarted,
       WrapUp, ReportFailure, SetStopped, Unwind, DownAfterFailure, Release,
       CloseAfterFailure, Call, FailFrom, Down, Goto
  <2>3. QED
    BY <2>1, <2>2, MoveKeepsStopping
<1>5. ASSUME NEW d \in ID, DisconnectStep(d) PROVE StoppingIsTransient'
  <2>1. PICK to : /\ pc' = [pc EXCEPT ![d] = to]
                  /\ state' = "stopping" => to \in Ending \/ state = "stopping"
                  /\ pc[d] \in Ending => to \in Ending \/ state' # "stopping"
    BY <1>5 DEF SetState, DownNeeded, DisconnectStep, SetStopping,
       DownAtDisconnect, CloseAtDisconnect, FinishDisconnect, Down, Goto
  <2>2. QED
    BY <2>1, MoveKeepsStopping
<1>6. ASSUME NEW t \in ID, EmitStateChanged(t) PROVE StoppingIsTransient'
  BY <1>6 DEF EmitStateChanged, StoppingIsTransient
<1>7. ASSUME NEW m \in ID, MonitorThreadStep(m) PROVE StoppingIsTransient'
  <2>1. UNCHANGED pc /\ (state' # "stopping" \/ UNCHANGED state)
    BY <1>7 DEF MonitorThreadStep, MonitorEmitStateChanged, MonitorSetState,
       MonitorStep, Poll, ApplyError, ApplyAlive, ApplyFailed, ApplyStopped,
     ClearActiveSession, FailActiveSession, ReportSessionFailure,
     CloseAfterSession
  <2>2. QED
    BY <2>1 DEF StoppingIsTransient
<1>8. CASE EngineDrops \/ UNCHANGED vars
  BY <1>8 DEF EngineDrops, vars, StoppingIsTransient
<1>9. QED
  BY <1>1, <1>2, <1>3, <1>4, <1>5, <1>6, <1>7, <1>8
     DEF Next, NetworkManagerCall, ThreadStep

-----------------------------------------------------------------------------
(* The engine of an attempt.                                               *)

Engine == EngineOfHolder /\ FailedAttemptLeavesNoEngine

Given(a) == pc[a] \in {"release", "close", "done"}

\* A goroutine moves, and the engine is only stopped, if anything.
LEMMA MoveKeepsEngine ==
    ASSUME SessionInv, Engine, NEW t \in ID, NEW to,
           pc' = [pc EXCEPT ![t] = to], UNCHANGED <<daemonUp, msession>>,
           downFailed \subseteq downFailed', engine' \in {engine, Nil},
           daemonUp[t] => to \in AfterUp,
           HoldsSlot(t)' => HoldsSlot(t) \/ ~daemonUp[t],
           to = "upWait" => pc[t] = "upWait", to = "down" => daemonUp[t],
           to \in {"announce", "wrapUp"} => msession[t] # 0,
           Given(t)' /\ daemonUp[t] /\ msession[t] = 0 /\ t \notin downFailed'
                => Given(t) \/ engine' = Nil
    PROVE  Engine'
<1>1. \A n \in ID : n # t => pc'[n] = pc[n]
  BY Known
<1>2. pc'[t] = to
  BY Known
<1>3. \A n \in ID : n # Nil
  BY DEF ID, Nil
<1>4. EngineOfHolder'
  <2>1. \A n \in ID : HoldsSlot(n)' /\ (daemonUp'[n] \/ pc'[n] = "upWait")
                        => engine' \in {Nil, n}
    BY <1>1, <1>2 DEF Engine, EngineOfHolder, HoldsSlot, AttemptPCs
  <2>2. QED
    BY <1>1, <1>2, <2>1 DEF Engine, EngineOfHolder
<1>5. FailedAttemptLeavesNoEngine'
  BY <1>1, <1>2, <1>3 DEF Engine, FailedAttemptLeavesNoEngine, Given
<1>6. QED
  BY <1>4, <1>5 DEF Engine

\* A step that moves no goroutine.
LEMMA EngineStays ==
    ASSUME Engine, UNCHANGED <<pc, daemonUp, msession, downFailed>>,
           engine' \in {engine, Nil}
    PROVE  Engine'
<1>1. \A n \in ID : n # Nil
  BY DEF ID, Nil
<1>2. QED
  BY <1>1 DEF Engine, EngineOfHolder, FailedAttemptLeavesNoEngine, HoldsSlot

\* Up: no other attempt holds the slot, and none that is through is this one.
LEMMA UpKeepsEngine ==
    ASSUME SessionInv, Engine, NEW a \in ID, Up(a) \/ UpReturns(a)
    PROVE  Engine'
<1> USE DEF Up, UpReturns, FailFrom, Goto
<1>1. \A n \in ID : HoldsSlot(n) => n = a
  BY Known DEF HoldsSlot, AttemptPCs
<1>2. daemonUp \in [ID -> BOOLEAN] /\ UNCHANGED <<msession, downFailed>>
  BY Known DEF ServiceTypeOK, ThreadTypeOK, monitorVars, daemonVars
<1>3. PICK to : /\ pc' = [pc EXCEPT ![a] = to]
                /\ to \in {"upWait", "ready", "fail"}
                /\ to = "upWait" => engine' = a /\ UNCHANGED daemonUp
                /\ to # "upWait" => engine' = engine
                /\ to = "ready" => pc[a] = "upWait"
                                   /\ daemonUp' = [daemonUp EXCEPT ![a] = TRUE]
                /\ to = "fail" => UNCHANGED daemonUp
                /\ pc[a] \in {"up", "upWait"}
  BY DEF threadVars, daemonVars
<1>4. \A n \in ID : n # a => pc'[n] = pc[n] /\ daemonUp'[n] = daemonUp[n]
  BY <1>2, <1>3, Known
<1>5. pc'[a] = to /\ ~daemonUp[a]
  BY <1>3, Known DEF Engine, EngineOfHolder, AfterUp
<1>6. \A n \in ID : HoldsSlot(n)' => n = a
  BY <1>1, <1>4 DEF HoldsSlot
<1>7. EngineOfHolder'
  BY <1>2, <1>3, <1>4, <1>5, <1>6 DEF Engine, EngineOfHolder, AfterUp,
     HoldsSlot, AttemptPCs
<1>8. FailedAttemptLeavesNoEngine'
  BY <1>2, <1>3, <1>4, <1>5 DEF Engine, FailedAttemptLeavesNoEngine
<1>9. QED
  BY <1>7, <1>8 DEF Engine

\* completeActivation gives the attempt a session, whose number is not 0.
LEMMA CompleteKeepsEngine ==
    ASSUME SessionInv, Engine, NEW a \in ID, CompleteActivation(a)
    PROVE  Engine'
<1> USE DEF CompleteActivation, Goto
<1>1. CASE MayComplete(a)
  <2>1. /\ msession \in [ID -> Nat] /\ sessionID \in Nat
        /\ msession' = [msession EXCEPT ![a] = sessionID + 1]
        /\ UNCHANGED <<daemonUp, engine, downFailed>>
        /\ pc' = [pc EXCEPT ![a] = "announce"]
    BY <1>1, Known DEF StartMonitor, ServiceTypeOK, MonitorTypeOK, LockTypeOK,
       threadVars, daemonVars
  <2>2. \A n \in ID : n # a => pc'[n] = pc[n] /\ msession'[n] = msession[n]
    BY <2>1, Known
  <2>3. pc'[a] = "announce" /\ msession'[a] # 0
    BY <2>1, Known
  <2>4. EngineOfHolder'
    BY <2>1, <2>2, <2>3 DEF Engine, EngineOfHolder, AfterUp, HoldsSlot
  <2>5. FailedAttemptLeavesNoEngine'
    BY <2>1, <2>2, <2>3 DEF Engine, FailedAttemptLeavesNoEngine
  <2>6. QED
    BY <2>4, <2>5 DEF Engine
<1>2. CASE ~MayComplete(a)
  BY <1>2, Known, MoveKeepsEngine
     DEF AfterUp, HoldsSlot, AttemptPCs, Given, threadVars, monitorVars,
     daemonVars
<1>3. QED
  BY <1>1, <1>2

\* The Down that follows a failure.
LEMMA DownKeepsEngine ==
    ASSUME SessionInv, Engine, NEW t \in ID,
           DownAfterFailure(t) \/ DownAtDisconnect(t)
    PROVE  Engine'
<1>1. PICK to : /\ pc' = [pc EXCEPT ![t] = to]
                /\ to \in {"release", "disClose"}
                /\ to = "disClose" => pc[t] = "disDown"
                /\ to = "release" => pc[t] = "down"
                /\ t \in downFailed' \/ engine' = Nil
                /\ downFailed \subseteq downFailed' /\ engine' \in {engine, Nil}
                /\ UNCHANGED <<daemonUp, msession>>
  BY DEF DownAfterFailure, DownAtDisconnect, Down, Goto, threadVars,
     monitorVars
<1>2. pc'[t] = to
  BY <1>1, Known
<1>3. daemonUp[t] => to \in AfterUp
  BY <1>1 DEF Engine, EngineOfHolder, AfterUp
<1>4. HoldsSlot(t)' => HoldsSlot(t)
  BY <1>1, <1>2 DEF HoldsSlot, AttemptPCs
<1>5. QED
  BY <1>1, <1>2, <1>3, <1>4, MoveKeepsEngine

\* Every step of an activation goroutine.
LEMMA AttemptKeepsEngine ==
    ASSUME SessionInv, Engine, NEW a \in ID, AttemptStep(a)
    PROVE  Engine'
<1>1. CASE \/ Up(a) \/ UpReturns(a) \/ CompleteActivation(a)
           \/ DownAfterFailure(a)
  BY <1>1, UpKeepsEngine, CompleteKeepsEngine, DownKeepsEngine
<1>2. CASE ~(\/ Up(a) \/ UpReturns(a) \/ CompleteActivation(a)
             \/ DownAfterFailure(a))
  <2>1. UNCHANGED <<daemonUp, msession, downFailed, engine>>
    BY <1>2 DEF threadVars, monitorVars, daemonVars, AttemptStep, SetStarting,
       Dial, PrepareProfile, Authenticate, AskKey, AwaitKey, Login, AskSSO,
       AwaitSSO, Configure, Up, UpReturns, WaitForReady, EmitConfig,
       CompleteActivation, SetStarted, WrapUp, ReportFailure, SetStopped,
       Unwind, DownAfterFailure, Release, CloseAfterFailure, Call, FailFrom,
       Down, Goto
  <2>2. PICK to : /\ pc' = [pc EXCEPT ![a] = to]
                  /\ pc[a] \in AfterUp => to \in AfterUp
                  /\ to \in AttemptPCs \ {"announce", "wrapUp", "close"}
                        => HoldsSlot(a)
                  /\ to # "upWait" /\ (to = "down" => daemonUp[a])
                  /\ to \in {"announce", "wrapUp"} => pc[a] = "announce"
                  /\ to \in {"release", "close", "done"} =>
                        \/ pc[a] \in {"release", "close", "wrapUp"}
                        \/ ~daemonUp[a]
    BY <1>2 DEF AfterUp, HoldsSlot, AttemptPCs, NeedsDown, AttemptStep,
       SetStarting, Dial, PrepareProfile, Authenticate, AskKey, AwaitKey,
       Login, AskSSO, AwaitSSO, Configure, Up, UpReturns, WaitForReady,
       EmitConfig, CompleteActivation, SetStarted, WrapUp, ReportFailure,
       SetStopped, Unwind, DownAfterFailure, Release, CloseAfterFailure, Call,
       FailFrom, Down, Goto
  <2>3. pc'[a] = to
    BY <2>2, Known
  <2>4. daemonUp[a] => to \in AfterUp
    BY <2>2 DEF Engine, EngineOfHolder
  <2>5. to \in {"announce", "wrapUp"} => msession[a] # 0
    BY <2>2 DEF Engine, EngineOfHolder
  <2>6. Given(a)' /\ daemonUp[a] /\ msession[a] = 0 => Given(a)
    BY <2>2, <2>3 DEF Given, Engine, EngineOfHolder
  <2>7. HoldsSlot(a)' => HoldsSlot(a)
    BY <2>2, <2>3 DEF HoldsSlot
  <2>8. QED
    BY <2>1, <2>2, <2>4, <2>5, <2>6, <2>7, MoveKeepsEngine
<1>3. QED
  BY <1>1, <1>2

\* The steps that do not belong to an attempt.
LEMMA OthersKeepEngine ==
    ASSUME SessionInv, Engine, [Next]_vars, \A a \in ID : ~AttemptStep(a)
    PROVE  Engine'
<1> USE DEF lockVars, threadVars, monitorVars, daemonVars
<1>1. ASSUME NEW t \in ID,
             (\E r \in Requests : Connect(t, r)) \/ Disconnect(t)
      PROVE  Engine'
  <2>1. /\ pc[t] = "idle"
        /\ UNCHANGED <<daemonUp, msession, downFailed, engine>>
    BY <1>1, Known, MaxIDAssumption DEF Connect, Disconnect, NextID, Unused,
       ServiceTypeOK, LockTypeOK, ID
  <2>2. PICK to \in {"reserved", "disStopping"} : pc' = [pc EXCEPT ![t] = to]
    BY <1>1 DEF Connect, Disconnect
  <2>3. ~daemonUp[t] /\ pc'[t] = to
    BY <2>1, <2>2, Known DEF Engine, EngineOfHolder, AfterUp
  <2>4. QED
    BY <2>1, <2>2, <2>3, MoveKeepsEngine DEF Given
<1>2. CASE SetFailure
  BY <1>2, EngineStays DEF SetFailure
<1>3. ASSUME NEW id, NEW reply, NewSecrets(id, reply) PROVE Engine'
  BY <1>3, EngineStays DEF NewSecrets
<1>4. ASSUME NEW d \in ID, DisconnectStep(d) PROVE Engine'
  <2>1. CASE DownAtDisconnect(d)
    BY <2>1, DownKeepsEngine
  <2>2. CASE ~DownAtDisconnect(d)
    <3>1. PICK to : /\ pc' = [pc EXCEPT ![d] = to] /\ pc[d] \in DisconnectPCs
                    /\ to \in DisconnectPCs \cup {"done"}
                    /\ UNCHANGED <<daemonUp, msession, downFailed, engine>>
      BY <1>4, <2>2 DEF DownNeeded, DisconnectPCs, DisconnectStep,
         SetStopping, DownAtDisconnect, CloseAtDisconnect, FinishDisconnect,
         Down, Goto
    <3>2. ~daemonUp[d] /\ pc'[d] = to
      BY <3>1, Known DEF Engine, EngineOfHolder, AfterUp, DisconnectPCs
    <3>3. ~HoldsSlot(d)'
      BY <3>1, <3>2 DEF HoldsSlot, AttemptPCs, DisconnectPCs
    <3>4. QED
      BY <3>1, <3>2, <3>3, MoveKeepsEngine DEF DisconnectPCs
  <2>3. QED
    BY <2>1, <2>2
<1>5. ASSUME NEW t \in ID, EmitStateChanged(t) PROVE Engine'
  BY <1>5, EngineStays DEF EmitStateChanged
<1>6. ASSUME NEW m \in ID, MonitorThreadStep(m) PROVE Engine'
  BY <1>6, EngineStays DEF MonitorThreadStep, MonitorEmitStateChanged,
     EndSession, MonitorStep, Poll, ApplyError, ApplyAlive, ApplyFailed,
     ApplyStopped, ClearActiveSession, FailActiveSession,
     ReportSessionFailure, CloseAfterSession
<1>7. CASE EngineDrops \/ UNCHANGED vars
  BY <1>7, EngineStays DEF EngineDrops, vars
<1>8. QED
  BY <1>1, <1>2, <1>3, <1>4, <1>5, <1>6, <1>7
     DEF Next, NetworkManagerCall, ThreadStep

-----------------------------------------------------------------------------
(* The engine of a session that was disconnected.                          *)

Disconnecting == NoneBesideTaken /\ ActiveDisconnectStopsEngine

DownDone(d) == pc[d] \in {"disClose", "disStopped", "done"}

\* A goroutine moves: the engine is only stopped, if anything, or there is an
\* attempt in flight.
LEMMA MoveKeepsDisconnecting ==
    ASSUME SessionInv, Disconnecting, NEW t \in ID, NEW to,
           pc' = [pc EXCEPT ![t] = to], UNCHANGED <<taken, activationID>>,
           activating' => activating, downFailed \subseteq downFailed',
           engine' \in {engine, Nil} \/ activating,
           taken[t] # Nil => to \in DisconnectPCs \cup {"done"},
           taken[t] # Nil /\ DownDone(t)' /\ t \notin downFailed'
                => DownDone(t) \/ engine' = Nil
    PROVE  Disconnecting'
<1>1. \A n \in ID : n # t => pc'[n] = pc[n]
  BY Known
<1>2. pc'[t] = to
  BY Known
<1>3. NoneBesideTaken'
  BY <1>1, <1>2 DEF Disconnecting, NoneBesideTaken
<1>4. ActiveDisconnectStopsEngine'
  BY <1>1, <1>2 DEF Disconnecting, NoneBesideTaken,
     ActiveDisconnectStopsEngine, DownDone
<1>5. QED
  BY <1>3, <1>4 DEF Disconnecting

\* A step that moves no goroutine.
LEMMA DisconnectingStays ==
    ASSUME Disconnecting, UNCHANGED <<pc, taken, activationID, activating,
                                      downFailed>>,
           engine' \in {engine, Nil}
    PROVE  Disconnecting'
BY DEF Disconnecting, NoneBesideTaken, ActiveDisconnectStopsEngine

\* A new identity is above all those that took a session over.
LEMMA CallKeepsDisconnecting ==
    ASSUME SessionInv, Disconnecting, NEW t \in ID,
           (\E r \in Requests : Connect(t, r)) \/ Disconnect(t)
    PROVE  Disconnecting'
<1> USE DEF Connect, Disconnect, NextID, GrabClient, daemonVars
<1>1. /\ activationID \in Nat /\ taken \in [ID -> ID \cup {Nil}]
      /\ client \in ID \cup {Nil}
  BY Known, MaxIDAssumption DEF ServiceTypeOK, LockTypeOK, ThreadTypeOK, ID
<1>2. /\ t = activationID + 1 /\ activationID' = t /\ t \in Nat
      /\ UNCHANGED <<downFailed, engine>>
  BY <1>1
<1>3. pc[t] = "idle"
  BY <1>1, <1>2, Known DEF Unused
<1>4. PICK to \in {"reserved", "disStopping"} : pc' = [pc EXCEPT ![t] = to]
  OBVIOUS
<1>5. \A n \in ID : n # t => pc'[n] = pc[n] /\ taken'[n] = taken[n]
  BY <1>1, <1>4, Known
<1>6. pc'[t] = to
  BY <1>4, Known
<1>7. \A n \in ID : n # t /\ taken[n] # Nil => n <= t /\ n # activationID'
  BY <1>1, <1>2 DEF Disconnecting, NoneBesideTaken, ID
<1>8. taken[t] = Nil
  BY <1>3 DEF Disconnecting, NoneBesideTaken, DisconnectPCs
<1>9. taken'[t] # Nil => to = "disStopping" /\ ~activating'
  BY <1>1, <1>4, <1>6, <1>8, Known DEF SlotExclusive
<1>10. NoneBesideTaken'
  BY <1>2, <1>5, <1>6, <1>7, <1>9 DEF Disconnecting, NoneBesideTaken,
     DisconnectPCs
<1>11. ActiveDisconnectStopsEngine'
  BY <1>2, <1>4, <1>5, <1>6, <1>7 DEF ActiveDisconnectStopsEngine
<1>12. QED
  BY <1>10, <1>11 DEF Disconnecting

\* Every step of an activation goroutine.
LEMMA AttemptKeepsDisconnecting ==
    ASSUME SessionInv, Disconnecting, NEW a \in ID, AttemptStep(a)
    PROVE  Disconnecting'
<1>1. /\ UNCHANGED <<taken, activationID>> /\ (activating' => activating)
      /\ downFailed \subseteq downFailed'
  BY DEF lockVars, threadVars, daemonVars, AttemptStep, SetStarting, Dial,
     PrepareProfile, Authenticate, AskKey, AwaitKey, Login, AskSSO, AwaitSSO,
     Configure, Up, UpReturns, WaitForReady, EmitConfig, CompleteActivation,
     SetStarted, WrapUp, ReportFailure, SetStopped, Unwind, DownAfterFailure,
     Release, CloseAfterFailure, Call, FailFrom, Down, Goto
<1>2. engine' \in {engine, Nil} \/ pc[a] = "up"
  BY DEF daemonVars, AttemptStep, SetStarting, Dial, PrepareProfile,
     Authenticate, AskKey, AwaitKey, Login, AskSSO, AwaitSSO, Configure, Up,
     UpReturns, WaitForReady, EmitConfig, CompleteActivation, SetStarted,
     WrapUp, ReportFailure, SetStopped, Unwind, DownAfterFailure, Release,
     CloseAfterFailure, Call, FailFrom, Down, Goto
<1>3. pc[a] = "up" => activating
  BY Known DEF HoldsSlot, AttemptPCs
<1>4. PICK to : pc' = [pc EXCEPT ![a] = to] /\ pc[a] \in AttemptPCs
  BY DEF AttemptPCs, AttemptStep, SetStarting, Dial, PrepareProfile,
     Authenticate, AskKey, AwaitKey, Login, AskSSO, AwaitSSO, Configure, Up,
     UpReturns, WaitForReady, EmitConfig, CompleteActivation, SetStarted,
     WrapUp, ReportFailure, SetStopped, Unwind, DownAfterFailure, Release,
     CloseAfterFailure, Call, FailFrom, Down, Goto
<1>5. taken[a] = Nil
  BY <1>4 DEF Disconnecting, NoneBesideTaken, DisconnectPCs, AttemptPCs
<1>6. QED
  BY <1>1, <1>2, <1>3, <1>4, <1>5, MoveKeepsDisconnecting

\* The steps that do not belong to an attempt.
LEMMA OthersKeepDisconnecting ==
    ASSUME SessionInv, Disconnecting, [Next]_vars,
           \A a \in ID : ~AttemptStep(a)
    PROVE  Disconnecting'
<1> USE DEF lockVars, threadVars, daemonVars
<1>1. CASE SetFailure
  BY <1>1, DisconnectingStays DEF SetFailure
<1>2. ASSUME NEW id, NEW reply, NewSecrets(id, reply) PROVE Disconnecting'
  BY <1>2, DisconnectingStays DEF NewSecrets
<1>3. ASSUME NEW d \in ID, DisconnectStep(d) PROVE Disconnecting'
  <2>1. /\ UNCHANGED <<taken, activationID, activating>>
        /\ downFailed \subseteq downFailed' /\ engine' \in {engine, Nil}
    BY <1>3 DEF DisconnectStep, SetStopping, DownAtDisconnect,
       CloseAtDisconnect, FinishDisconnect, Down, Goto
  <2>2. PICK to : /\ pc' = [pc EXCEPT ![d] = to]
                  /\ to \in DisconnectPCs \cup {"done"}
                  /\ \/ pc[d] \in {"disClose", "disStopped"} \/ to = "disDown"
                     \/ taken[d] = Nil
                     \/ d \in downFailed' \/ engine' = Nil
    BY <1>3 DEF DownNeeded, DisconnectPCs, DisconnectStep, SetStopping,
       DownAtDisconnect, CloseAtDisconnect, FinishDisconnect, Down, Goto
  <2>3. pc'[d] = to
    BY <2>2, Known
  <2>4. QED
    BY <2>1, <2>2, <2>3, MoveKeepsDisconnecting DEF DownDone
<1>4. ASSUME NEW t \in ID, EmitStateChanged(t) PROVE Disconnecting'
  BY <1>4, DisconnectingStays DEF EmitStateChanged
<1>5. ASSUME NEW m \in ID, MonitorThreadStep(m) PROVE Disconnecting'
  BY <1>5, DisconnectingStays DEF MonitorThreadStep, MonitorEmitStateChanged,
     EndSession, MonitorStep, Poll, ApplyError, ApplyAlive, ApplyFailed,
     ApplyStopped, ClearActiveSession, FailActiveSession,
     ReportSessionFailure, CloseAfterSession
<1>6. CASE EngineDrops \/ UNCHANGED vars
  BY <1>6, DisconnectingStays DEF EngineDrops, vars
<1>7. QED
  BY <1>1, <1>2, <1>3, <1>4, <1>5, <1>6, CallKeepsDisconnecting
     DEF Next, NetworkManagerCall, ThreadStep

-----------------------------------------------------------------------------
\* The first state.
LEMMA InitAttempt == Init => Attempt
<1>1. \A n \in ID : n # Nil
  BY DEF ID, Nil
<1>2. QED
  BY <1>1 DEF Init, Attempt, PromptOfLiveAttempt, KeyAfterPrompt, NoPrompt,
     ReportedOrCancelled, StoppingIsTransient, EngineOfHolder, HoldsSlot,
     AttemptPCs, FailedAttemptLeavesNoEngine, NoneBesideTaken,
     ActiveDisconnectStopsEngine

\* Every step of the service keeps the invariant.
LEMMA NextKeepsAttempt == AttemptInv /\ [Next]_vars => AttemptInv'
<1> SUFFICES ASSUME AttemptInv, [Next]_vars PROVE Attempt'
  BY NextKeepsSession DEF AttemptInv
<1>1. SessionInv /\ Prompting /\ Engine /\ Disconnecting
  BY DEF AttemptInv, Attempt, Prompting, Engine, Disconnecting
<1>2. ReportedOrCancelled /\ StoppingIsTransient
  BY DEF AttemptInv, Attempt
<1>3. Prompting'
  <2>1. CASE NetworkManagerCall
    BY <1>1, <2>1, CallKeepsPrompt, AnswerKeepsPrompt, OthersKeepPrompt
       DEF NetworkManagerCall
  <2>2. CASE ~NetworkManagerCall
    BY <1>1, <2>2, AttemptKeepsPrompt, OthersKeepPrompt DEF Next, ThreadStep
  <2>3. QED
    BY <2>1, <2>2
<1>4. ReportedOrCancelled' /\ Engine' /\ Disconnecting'
  BY <1>1, <1>2, AttemptKeepsReported, OthersKeepReported, AttemptKeepsEngine,
     OthersKeepEngine, AttemptKeepsDisconnecting, OthersKeepDisconnecting
<1>5. StoppingIsTransient'
  BY <1>1, <1>2, NextKeepsStopping
<1>6. QED
  BY <1>3, <1>4, <1>5 DEF Attempt, Prompting, Engine, Disconnecting

\* The invariant holds in every reachable state.
LEMMA AttemptInvariant == Spec => []AttemptInv
<1>1. Init => AttemptInv
  BY InitType, InitSlot, InitSession, InitAttempt
     DEF AttemptInv, SessionInv, SlotInv
<1>2. QED
  BY <1>1, NextKeepsAttempt, PTL DEF Spec

(* A registered prompt is the one of the attempt in flight, and a setup    *)
(* key's channel is empty when its prompt is open, so no answer is dropped *)
(* or reaches another attempt (registerActivationPrompt, NewSecrets,       *)
(* handleNewSecretsLocked).                                                *)
THEOREM PromptCorrect == Spec => []PromptOfLiveAttempt
<1>1. AttemptInv => PromptOfLiveAttempt
  BY DEF AttemptInv, Attempt
<1>2. QED
  BY <1>1, AttemptInvariant, PTL

(* An attempt that gives up without a Failure was cancelled (runActivation,*)
(* completeActivation).                                                    *)
THEOREM SilenceCorrect == Spec => []SilentOnlyIfCancelled
<1>1. AttemptInv => SilentOnlyIfCancelled
  BY DEF AttemptInv, Attempt, ReportedOrCancelled, SilentOnlyIfCancelled
<1>2. QED
  BY <1>1, AttemptInvariant, PTL

(* STOPPING is the state only while a Disconnect has yet to set STOPPED,   *)
(* on its error path too (Disconnect).                                     *)
THEOREM StoppingCorrect == Spec => []StoppingIsTransient
<1>1. AttemptInv => StoppingIsTransient
  BY DEF AttemptInv, Attempt
<1>2. QED
  BY <1>1, AttemptInvariant, PTL

(* The Down that follows a failed activation can stop no engine but its    *)
(* own (finishActivationAttempt).                                          *)
THEOREM OwnEngineCorrect == Spec => []OwnEngineDown
<1>1. AttemptInv => OwnEngineDown
  BY DEF AttemptInv, Attempt, EngineOfHolder, OwnEngineDown, HoldsSlot,
     AttemptPCs
<1>2. QED
  BY <1>1, AttemptInvariant, PTL

(* A failed attempt leaves no engine behind that it knows of, unless its   *)
(* Down failed (finishActivationAttempt).                                  *)
THEOREM NoEngineLeft == Spec => []FailedAttemptLeavesNoEngine
<1>1. AttemptInv => FailedAttemptLeavesNoEngine
  BY DEF AttemptInv, Attempt
<1>2. QED
  BY <1>1, AttemptInvariant, PTL

(* Disconnecting an active session stops the engine, and none runs until   *)
(* the next activation (Disconnect).                                       *)
THEOREM DisconnectCorrect == Spec => []ActiveDisconnectStopsEngine
<1>1. AttemptInv => ActiveDisconnectStopsEngine
  BY DEF AttemptInv, Attempt
<1>2. QED
  BY <1>1, AttemptInvariant, PTL

=============================================================================
