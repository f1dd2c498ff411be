---------------------------- MODULE ServiceCore ----------------------------
(***************************************************************************)
(* The state of the D-Bus plugin service (type Service of                  *)
(* internal/nmplugin/service.go), of the goroutines that work on it, and   *)
(* of the two parties around it: the NetBird daemon and NetworkManager.    *)
(*                                                                         *)
(* activationID is incremented by every reserved activation and by every   *)
(* Disconnect, so its value names the goroutine that made the increment:   *)
(* the activation attempt a, or the Disconnect handler d.  The daemon      *)
(* client dialled by attempt a and the status monitor of the session that  *)
(* a establishes are named a as well, and a context's cancel function      *)
(* (activationCancel, monitorCancel) is represented by its owner's name.   *)
(***************************************************************************)
EXTENDS Naturals, FiniteSets

CONSTANTS
    MaxID,              \* bound on activationID: activations and Disconnects
    FailureThreshold,   \* statusPollFailureThreshold
    Requests,           \* the connections NetworkManager may ask to activate
    Overlapping         \* may a call arrive while a Disconnect is running?

ID == 1..MaxID
Nil == 0                \* a nil cancel function or client; no prompt

AuthModes == {"setup-key", "sso", "invalid"}
RequestType == [interactive: BOOLEAN, auth: AuthModes, key: BOOLEAN]
NoRequest == [interactive |-> FALSE, auth |-> "invalid", key |-> FALSE]

ASSUME MaxIDAssumption == MaxID \in Nat
ASSUME ThresholdAssumption == FailureThreshold \in Nat \ {0}
ASSUME RequestsAssumption == Requests \subseteq RequestType
ASSUME OverlappingAssumption == Overlapping \in BOOLEAN

VARIABLES
    (* Guarded by Service.mu *)
    state,              \* the value of the State property
    (* Guarded by Service.lifecycleMu *)
    activating, activationCancel, monitorCancel, client, sessionID,
    activationID, prompt,
    (* Local to the attempts and to the handlers, indexed by ID *)
    pc,                 \* the next step of the goroutine
    pend,               \* a StateChanged it has yet to emit, or "none"
    request,            \* what attempt a was asked to activate
    cancelled,          \* attempt a's context is cancelled
    delivered,          \* what is in the result channel of a's prompt
    daemonUp,           \* activationStatus.daemonUp
    conn,               \* the gRPC connection that attempt a dialled
    taken,              \* the client a Disconnect took over from the service
    (* Local to the status monitors, indexed by ID *)
    mpc, mpend,
    mcancelled,         \* the monitor's context is cancelled
    msession,           \* the session it was started for
    mfail,              \* consecutiveFailures
    mres,               \* the mapped result of its latest Status call
    mtaken,             \* the client it took over from the service
    (* The NetBird daemon and what NetworkManager has heard *)
    engine,             \* the attempt whose Up started the engine, or Nil
    downFailed,         \* the goroutines whose Down call failed
    nmState,            \* the latest StateChanged
    failed, mfailed     \* the goroutines and monitors that emitted Failure

lockVars == <<activating, activationCancel, monitorCancel, client, sessionID,
              activationID, prompt>>
threadVars == <<request, cancelled, delivered, daemonUp, conn, taken>>
monitorVars == <<mpc, mpend, mcancelled, msession, mfail, mres, mtaken>>
daemonVars == <<engine, downFailed>>
signalVars == <<nmState, failed, mfailed>>
vars == <<state, lockVars, pc, pend, threadVars, monitorVars, daemonVars,
          signalVars>>

States == {"init", "starting", "started", "stopping", "stopped"}
PromptType == [id: ID \cup {Nil}, kind: {"none", "setup-key", "sso"}]
NoPrompt == [id |-> Nil, kind |-> "none"]
StatusResults == {"connected", "connecting", "disconnected", "failed",
                  "unknown", "error"}

AttemptPCs == {"reserved", "dial", "prepare", "authenticate", "askKey",
               "awaitKey", "login", "askSSO", "awaitSSO", "configure", "up",
               "upWait", "ready", "config", "complete", "announce", "wrapUp",
               "fail", "setStopped", "unwind", "down", "release", "close"}
DisconnectPCs == {"disStopping", "disDown", "disClose", "disStopped"}
MonitorPCs == {"none", "poll", "apply", "clear", "threshold", "thrFailure",
               "mclose", "done"}

(***************************************************************************)
(* The type invariant of the service modules, by who owns the variables.   *)
(***************************************************************************)
LockTypeOK ==
    /\ activating \in BOOLEAN
    /\ activationCancel \in ID \cup {Nil}
    /\ monitorCancel \in ID \cup {Nil}
    /\ client \in ID \cup {Nil}
    /\ sessionID \in Nat
    /\ activationID \in 0..MaxID
    /\ prompt \in PromptType

ThreadTypeOK ==
    /\ pc \in [ID -> {"idle", "done"} \cup AttemptPCs \cup DisconnectPCs]
    /\ pend \in [ID -> States \cup {"none"}]
    /\ request \in [ID -> RequestType]
    /\ cancelled \in [ID -> BOOLEAN]
    /\ delivered \in [ID -> {"none", "blank", "key"}]
    /\ daemonUp \in [ID -> BOOLEAN]
    /\ conn \in [ID -> {"none", "open", "closed"}]
    /\ taken \in [ID -> ID \cup {Nil}]

MonitorTypeOK ==
    /\ mpc \in [ID -> MonitorPCs]
    /\ mpend \in [ID -> States \cup {"none"}]
    /\ mcancelled \in [ID -> BOOLEAN]
    /\ msession \in [ID -> Nat]
    /\ mfail \in [ID -> 0..FailureThreshold]
    /\ mres \in [ID -> StatusResults]
    /\ mtaken \in [ID -> ID \cup {Nil}]

OutsideTypeOK ==
    /\ state \in States /\ nmState \in States
    /\ engine \in ID \cup {Nil}
    /\ downFailed \subseteq ID /\ failed \subseteq ID /\ mfailed \subseteq ID

ServiceTypeOK == LockTypeOK /\ ThreadTypeOK /\ MonitorTypeOK /\ OutsideTypeOK

Init ==
    /\ state = "init" /\ nmState = "init"
    /\ activating = FALSE
    /\ activationCancel = Nil /\ monitorCancel = Nil /\ client = Nil
    /\ sessionID = 0 /\ activationID = 0
    /\ prompt = NoPrompt
    /\ pc = [t \in ID |-> "idle"] /\ pend = [t \in ID |-> "none"]
    /\ request = [t \in ID |-> NoRequest]
    /\ cancelled = [t \in ID |-> FALSE]
    /\ delivered = [t \in ID |-> "none"]
    /\ daemonUp = [t \in ID |-> FALSE]
    /\ conn = [t \in ID |-> "none"]
    /\ taken = [t \in ID |-> Nil]
    /\ mpc = [m \in ID |-> "none"] /\ mpend = [m \in ID |-> "none"]
    /\ mcancelled = [m \in ID |-> FALSE]
    /\ msession = [m \in ID |-> 0]
    /\ mfail = [m \in ID |-> 0]
    /\ mres = [m \in ID |-> "unknown"]
    /\ mtaken = [m \in ID |-> Nil]
    /\ engine = Nil
    /\ downFailed = {} /\ failed = {} /\ mfailed = {}

-----------------------------------------------------------------------------
(***************************************************************************)
(* Steps shared by the goroutines.  A goroutine that changed the state     *)
(* emits StateChanged, outside the lock, before it does anything else.     *)
(***************************************************************************)

\* Goroutine t moves from one point of its code to the next.
Goto(t, from, to) ==
    /\ pc[t] = from
    /\ pend[t] = "none"
    /\ pc' = [pc EXCEPT ![t] = to]

MonitorGoto(m, from, to) ==
    /\ mpc[m] = from
    /\ mpend[m] = "none"
    /\ mpc' = [mpc EXCEPT ![m] = to]

\* setStateValue: the signal is owed only when the value changes.
Owed(s) == IF state = s THEN "none" ELSE s

\* setState, up to the emission of the signal.
SetState(t, s) ==
    /\ state' = s
    /\ pend' = [pend EXCEPT ![t] = Owed(s)]

MonitorSetState(m, s) ==
    /\ state' = s
    /\ mpend' = [mpend EXCEPT ![m] = Owed(s)]

\* Calling a cancel function that may be nil: the contexts it cancels.
Cancelled(ctxs, owner) ==
    IF owner = Nil THEN ctxs ELSE [ctxs EXCEPT ![owner] = TRUE]

\* emitStateChanged, the second half of setState.
EmitStateChanged(t) ==
    /\ pend[t] # "none"
    /\ nmState' = pend[t]
    /\ pend' = [pend EXCEPT ![t] = "none"]
    /\ UNCHANGED <<state, lockVars, pc, threadVars, monitorVars, daemonVars,
                   failed, mfailed>>

\* The monitor reports a failed session before it announces STOPPED.
MonitorEmitStateChanged(m) ==
    /\ mpend[m] # "none"
    /\ mpc[m] # "thrFailure"
    /\ nmState' = mpend[m]
    /\ mpend' = [mpend EXCEPT ![m] = "none"]
    /\ UNCHANGED <<state, lockVars, pc, pend, threadVars, mpc, mcancelled,
                   msession, mfail, mres, mtaken, daemonVars, failed, mfailed>>

=============================================================================
