------------------------- MODULE ServiceProcessProofs -------------------------
(***************************************************************************)
(* What ServiceProcess promises for any number of calls and processes and  *)
(* however often the daemon stops.                                         *)
(***************************************************************************)
EXTENDS ServiceProcess, TLAPS

Dialled == {"look", "wait", "open"}
Named == {"named", "serving", "stopping"}

(* How many dials a call has begun, by where it is: the retry of NewClient *)
(* is not itself retried, which only the type of attempt tells otherwise.  *)
DialsBegun(c) ==
    /\ pc[c] = "none" => attempt[c] = 0
    /\ pc[c] = "create" => attempt[c] \in {0, 1}
    /\ pc[c] \in {"ask", "starting"} => attempt[c] = 1
    /\ pc[c] \in Dialled => attempt[c] \in {1, 2}

(* Nothing is left of a dial that has not led to a connection, and a ready *)
(* channel is the present dial's.                                          *)
OwnConnection(c) ==
    /\ unclosed[c] = IF pc[c] \in Dialled THEN {attempt[c]} ELSE {}
    /\ pc[c] \notin Dialled <=> channel[c] = "closed"
    /\ channel[c] = "Ready" => attempt[c] \in accepted[c]
    /\ pc[c] = "open" => attempt[c] \in accepted[c]

CallInv == \A c \in Call : DialsBegun(c) /\ OwnConnection(c)

(* A process owns the name from the reply until it releases it or exits.   *)
NameInv == \A p \in Process : stage[p] \in Named <=> owner = p

DialInv == DialTypeOK /\ CallInv

IInv == TypeOK /\ CallInv /\ NameInv

-----------------------------------------------------------------------------
\* No call has been made at first.
LEMMA InitCalls == Init => DialInv
BY DialAssumption
   DEF Init, DialInit, DialInv, DialTypeOK, CallInv, DialsBegun, OwnConnection,
       Dialled, Pending, Dialling, PCs, Reported, Channels, Units, OptionType

\* NewClient begins.
LEMMA NewClientKeeps ==
    ASSUME DialInv, NEW c \in Call, NewClient(c) PROVE DialInv'
BY DEF NewClient, Goto, DialInv, DialTypeOK, CallInv, DialsBegun, OwnConnection,
       Dialled, Pending, Dialling, PCs, channelVars, unitVars

\* A dial begins, or its address is refused.
LEMMA CreateKeeps ==
    ASSUME DialInv, NEW c \in Call, Create(c) PROVE DialInv'
<1>1. /\ attempt[c] \in {0, 1} /\ unclosed[c] = {} /\ channel[c] = "closed"
      /\ pc[c] = "create"
  BY DEF Create, DialInv, CallInv, DialsBegun, OwnConnection, Dialled
<1>2. DialTypeOK'
  BY <1>1 DEF Create, Goto, DialInv, DialTypeOK, AfterFailedDial, Pending, Dialling,
     PCs, Channels, unitVars
<1>3. \A d \in Call \ {c} : (DialsBegun(d) /\ OwnConnection(d))'
  BY DEF Create, Goto, DialInv, DialTypeOK, CallInv, DialsBegun, OwnConnection
<1>4. (DialsBegun(c) /\ OwnConnection(c))'
  <2>1. CASE options.address
    BY <1>1, <2>1 DEF Create, Goto, DialInv, DialTypeOK, DialsBegun, OwnConnection,
       Dialled
  <2>2. CASE ~options.address
    BY <1>1, <2>2 DEF Create, Goto, DialInv, DialTypeOK, AfterFailedDial, DialsBegun,
       OwnConnection, Dialled
  <2>3. QED
    BY <2>1, <2>2
<1>5. QED
  BY <1>2, <1>3, <1>4 DEF DialInv, CallInv

\* waitForReady looks at the state, and waits for its change.
LEMMA LookKeeps ==
    ASSUME DialInv, NEW c \in Call, Look(c) \/ Woken(c) PROVE DialInv'
<1>1. CASE Look(c)
  <2>1. /\ pc[c] = "look" /\ channel[c] \in Channels
        /\ StateOf(channel[c]) \in Reported
    BY <1>1 DEF Look, DialInv, DialTypeOK, CallInv, OwnConnection, Dialled, StateOf,
       Channels, Reported
  <2>2. NextWait(c) \in {"open", "wait"} /\ (NextWait(c) = "open" <=> channel[c] = "Ready")
    BY DEF NextWait, IsReady
  <2>3. PICK next, state :
            /\ pc' = [pc EXCEPT ![c] = next] /\ next = NextWait(c)
            /\ seen' = [seen EXCEPT ![c] = state] /\ state = StateOf(channel[c])
            /\ UNCHANGED <<options, attempt, expired, cancelled, unclosed, channel,
                           accepted, unit, stops>>
    BY <1>1 DEF Look, Goto, channelVars, unitVars
  <2>4. QED
    BY <2>1, <2>2, <2>3 DEF DialInv, DialTypeOK, CallInv, DialsBegun, OwnConnection,
       Dialled, Pending, Dialling, PCs
<1>2. CASE Woken(c)
  BY <1>2 DEF Woken, Goto, DialInv, DialTypeOK, CallInv, DialsBegun, OwnConnection,
     Dialled, Pending, Dialling, PCs, channelVars, unitVars
<1>3. QED
  BY <1>1, <1>2

\* A dial ends without a connection.
LEMMA GiveUpKeeps ==
    ASSUME DialInv, NEW c \in Call, GiveUp(c) PROVE DialInv'
<1>1. pc[c] = "wait" /\ attempt[c] \in {1, 2} /\ unclosed[c] = {attempt[c]}
  BY DEF GiveUp, DialInv, CallInv, DialsBegun, OwnConnection, Dialled
<1>2. /\ pc' = [pc EXCEPT ![c] = AfterFailedDial(attempt[c])]
      /\ unclosed' = [unclosed EXCEPT ![c] = {}]
      /\ channel' = [channel EXCEPT ![c] = "closed"]
      /\ UNCHANGED <<options, attempt, seen, expired, cancelled, accepted, unit, stops>>
  BY <1>1 DEF GiveUp, Goto, CloseConn, unitVars, DialInv, DialTypeOK
<1>3. AfterFailedDial(attempt[c]) \in {"ask", "failed"}
      /\ (AfterFailedDial(attempt[c]) = "ask" => attempt[c] = 1)
  BY DEF AfterFailedDial
<1>4. QED
  BY <1>1, <1>2, <1>3 DEF DialInv, DialTypeOK, CallInv, DialsBegun, OwnConnection,
     Dialled, Pending, Dialling, PCs, Channels

\* The daemon is started.
LEMMA StarterKeeps ==
    ASSUME DialInv, NEW c \in Call, Start(c) \/ Started(c) \/ StartFails(c)
    PROVE  DialInv'
<1>1. CASE Start(c)
  BY <1>1 DEF Start, Goto, DialInv, DialTypeOK, CallInv, DialsBegun, OwnConnection,
     Dialled, Pending, Dialling, PCs, Units, channelVars
<1>2. CASE Started(c) \/ StartFails(c)
  BY <1>2 DEF Started, StartFails, Goto, DialInv, DialTypeOK, CallInv, DialsBegun,
     OwnConnection, Dialled, Pending, Dialling, PCs, channelVars, unitVars
<1>3. QED
  BY <1>1, <1>2

\* Timers, gRPC and the unit.
LEMMA SurroundingsKeep ==
    ASSUME DialInv,
           (\E c \in Call : TimerStep(c) \/ GrpcStep(c)) \/ UnitStep
    PROVE  DialInv'
<1>1. ASSUME NEW c \in Call, TimerStep(c) PROVE DialInv'
  BY <1>1 DEF TimerStep, Expire, Cancel, DialInv, DialTypeOK, CallInv, DialsBegun,
     OwnConnection, channelVars, unitVars
<1>2. ASSUME NEW c \in Call, GrpcStep(c) PROVE DialInv'
  <2>1. /\ channel[c] \in {"Requested", "Connecting", "TransientFailure"}
        /\ attempt[c] \in {1, 2} /\ pc[c] \in Dialled
    BY <1>2 DEF GrpcStep, BeginConnecting, Connected, Refused, Channel, DialInv,
       CallInv, DialsBegun, OwnConnection, Dialled
  <2>2. CASE Connected(c)
    BY <2>1, <2>2 DEF Connected, Channel, DialInv, DialTypeOK, CallInv, DialsBegun,
       OwnConnection, Channels, Reported, callVars, unitVars
  <2>3. CASE BeginConnecting(c) \/ Refused(c)
    BY <2>1, <2>3 DEF BeginConnecting, Refused, Channel, DialInv, DialTypeOK, CallInv,
       DialsBegun, OwnConnection, Channels, Reported, callVars, unitVars
  <2>4. QED
    BY <1>2, <2>2, <2>3 DEF GrpcStep
<1>3. CASE UnitStep
  <2>1. CASE UnitStops
    <3>1. \A c \in Call : /\ channel'[c] \in Channels
                          /\ channel'[c] = "closed" <=> channel[c] = "closed"
                          /\ channel'[c] # "Ready"
      BY <2>1 DEF UnitStops, DialInv, DialTypeOK, Channels, Reported
    <3>2. /\ channel' \in [Call -> Channels] /\ unit' \in Units /\ stops' \in 0..MaxStops
          /\ UNCHANGED <<options, callVars, accepted>>
      BY <2>1, <3>1, DialAssumption DEF UnitStops, DialInv, DialTypeOK, Units
    <3>3. QED
      BY <3>1, <3>2 DEF DialInv, DialTypeOK, CallInv, DialsBegun, OwnConnection, callVars
  <2>2. CASE UnitListens \/ StartedByOthers
    BY <2>2 DEF UnitListens, StartedByOthers, DialInv, DialTypeOK, CallInv, DialsBegun,
       OwnConnection, Units, callVars, channelVars
  <2>3. QED
    BY <1>3, <2>1, <2>2 DEF UnitStep
<1>4. QED
  BY <1>1, <1>2, <1>3

\* Every step of the dials.
LEMMA DialStepKeeps == DialInv /\ DialStep => DialInv'
<1> SUFFICES ASSUME DialInv, DialStep PROVE DialInv'
  OBVIOUS
<1>1. ASSUME NEW c \in Call, CallStep(c) PROVE DialInv'
  BY <1>1, CreateKeeps, LookKeeps, GiveUpKeeps, StarterKeeps DEF CallStep
<1>2. QED
  BY <1>1, SurroundingsKeep DEF DialStep

\* A process exits, and with it its calls.
LEMMA ExitKeeps ==
    ASSUME DialInv, NEW p \in Process, Exit(p) PROVE DialInv'
BY DEF Exit, CallsOf, DialInv, DialTypeOK, CallInv, DialsBegun, OwnConnection,
   Dialled, Pending, Dialling, PCs, Channels, unitVars

-----------------------------------------------------------------------------
(* The processes.                                                          *)

\* At first nothing runs.
LEMMA InitIInv == Init => IInv
<1> SUFFICES ASSUME Init PROVE IInv
  OBVIOUS
<1>1. DialInv
  BY InitCalls
<1>2. QED
  BY <1>1, ProcessAssumption
     DEF DialInv, IInv, TypeOK, Init, NameInv, Named, Stages, Living, Exported

\* What main's steps leave alone, or do to the name.
LEMMA ProcessStepNames ==
    ASSUME IInv, ProcessStep
    PROVE  /\ stage' \in [Process -> Stages]
           /\ owner' \in Process \cup {Nobody}
           /\ by' \in [Call -> Process \cup {Nobody}]
           /\ NameInv'
<1> USE ProcessAssumption DEF IInv, TypeOK, NameInv, Named, Stages, Living, Exported
<1>1. PICK p \in Process :
         \/ Launch(p) \/ ConnectBus(p) \/ Export(p) \/ RequestName(p)
         \/ NotifySignals(p) \/ Signal(p) \/ ReleaseName(p) \/ Exit(p)
         \/ \E c \in Call : Serve(p, c)
  BY DEF ProcessStep
<1>2. CASE Launch(p) \/ ConnectBus(p) \/ Export(p)
  BY <1>2 DEF Launch, ConnectBus, Export, Advance
<1>3. CASE NotifySignals(p) \/ Signal(p)
  BY <1>3 DEF NotifySignals, Signal, Advance
<1>4. CASE RequestName(p)
  BY <1>4 DEF RequestName, Advance
<1>5. CASE ReleaseName(p)
  BY <1>5 DEF ReleaseName, Advance
<1>6. CASE Exit(p)
  BY <1>6 DEF Exit
<1>7. ASSUME NEW c \in Call, Serve(p, c)
      PROVE  /\ UNCHANGED <<stage, owner>> /\ by' \in [Call -> Process \cup {Nobody}]
  BY <1>7 DEF Serve
<1>8. QED
  BY <1>1, <1>2, <1>3, <1>4, <1>5, <1>6, <1>7

\* main's steps and the calls.
LEMMA ProcessStepCalls ==
    ASSUME DialInv, ProcessStep PROVE DialInv'
<1>1. PICK p \in Process :
         \/ Launch(p) \/ ConnectBus(p) \/ Export(p) \/ RequestName(p)
         \/ NotifySignals(p) \/ Signal(p) \/ ReleaseName(p) \/ Exit(p)
         \/ \E c \in Call : Serve(p, c)
  BY DEF ProcessStep
<1>2. CASE Exit(p)
  BY <1>2, ExitKeeps
<1>3. ASSUME NEW c \in Call, Serve(p, c) PROVE DialInv'
  BY <1>3, NewClientKeeps DEF Serve
<1>4. CASE UNCHANGED dialVars
  BY <1>4 DEF dialVars, callVars, channelVars, unitVars, DialInv, DialTypeOK, CallInv,
     DialsBegun, OwnConnection
<1>5. QED
  BY <1>1, <1>2, <1>3, <1>4 DEF Launch, ConnectBus, Export, RequestName, NotifySignals,
     Signal, ReleaseName

\* The invariant is inductive.
LEMMA StepIInv == IInv /\ [Next]_vars => IInv'
<1> SUFFICES ASSUME IInv, [Next]_vars PROVE IInv'
  OBVIOUS
<1>1. DialInv
  BY DEF IInv, TypeOK, DialInv
<1>2. CASE DialStep /\ UNCHANGED processVars
  BY <1>1, <1>2, DialStepKeeps DEF IInv, TypeOK, DialInv, NameInv, processVars
<1>3. CASE ProcessStep
  BY <1>1, <1>3, ProcessStepNames, ProcessStepCalls DEF IInv, TypeOK, DialInv
<1>4. CASE UNCHANGED vars
  BY <1>4 DEF vars, dialVars, callVars, channelVars, unitVars, processVars, IInv, TypeOK,
     DialTypeOK, CallInv, DialsBegun, OwnConnection, NameInv
<1>5. QED
  BY <1>2, <1>3, <1>4 DEF Next

\* Every reachable state satisfies it.
LEMMA Invariant == Spec => []IInv
BY InitIInv, StepIInv, PTL DEF Spec

(* Every variable keeps its type; NewClient never dials a third time.      *)
THEOREM ProcessTypeCorrect == Spec => []TypeOK
<1>1. IInv => TypeOK
  BY DEF IInv
<1>2. QED
  BY <1>1, Invariant, PTL

(* NewClient returns only a connection that its last dial established.     *)
THEOREM DialCorrect == Spec => []OpenWasReady
<1>1. IInv => OpenWasReady
  BY DEF IInv, CallInv, OwnConnection, OpenWasReady
<1>2. QED
  BY <1>1, Invariant, PTL

(* The owner of the bus name has exported its objects.                     *)
THEOREM OwnerCorrect == Spec => []OwnerAnswers
<1>1. IInv => OwnerAnswers
  BY DEF IInv, TypeOK, NameInv, OwnerAnswers, Named, Exported
<1>2. QED
  BY <1>1, Invariant, PTL

(* At most one process serves: whoever does is the owner of the name.      *)
THEOREM OneServerCorrect == Spec => []OneServer
<1>1. IInv => OneServer
  BY DEF IInv, NameInv, OneServer, Named
<1>2. QED
  BY <1>1, Invariant, PTL

-----------------------------------------------------------------------------
(* NewClient implements its promise.                                       *)

\* No call has begun.
LEMMA InitRefines == Init => Promise!Init
BY DEF Init, DialInit, Promise!Init, Outcome, Held, Pending, Dialling

\* A step of one call that stays pending is none of the promise.
LEMMA PendingStutters ==
    ASSUME DialInv, NEW c \in Call, pc[c] \in Pending,
           NEW to \in Pending, NEW left,
           pc' = [pc EXCEPT ![c] = to],
           unclosed' = [unclosed EXCEPT ![c] = left]
    PROVE  UNCHANGED <<Outcome, Held>>
BY DEF DialInv, DialTypeOK, Outcome, Held

\* A pending call that fails holds nothing.
LEMMA FailRefines ==
    ASSUME DialInv, NEW c \in Call, pc[c] \in Pending,
           pc' = [pc EXCEPT ![c] = "failed"],
           unclosed' = [unclosed EXCEPT ![c] = {}]
    PROVE  Promise!Fail(c)
BY DEF DialInv, DialTypeOK, Outcome, Held, Promise!Fail, Promise!Become, Pending, Dialling

\* A pending call that opens holds the connection of its last dial.
LEMMA OpenRefines ==
    ASSUME DialInv, NEW c \in Call, pc[c] \in Pending,
           pc' = [pc EXCEPT ![c] = "open"],
           unclosed[c] = {attempt[c]}, attempt[c] \in 1..2,
           unclosed' = unclosed
    PROVE  Promise!Open(c)
<1>1. Outcome[c] = "pending" /\ Promise!Become(c, "open")
  BY DEF DialInv, DialTypeOK, Outcome, Promise!Become, Pending, Dialling
<1>2. Held' = [Held EXCEPT ![c] = {attempt[c]}]
  BY DEF DialInv, DialTypeOK, Held, Pending, Dialling
<1>3. QED
  BY <1>1, <1>2 DEF Promise!Open

\* Every step of one call.
LEMMA CallStepRefines ==
    ASSUME DialInv, NEW c \in Call, CallStep(c)
    PROVE  Promise!Next \/ UNCHANGED <<Outcome, Held>>
<1>1. pc \in [Call -> PCs] /\ unclosed \in [Call -> SUBSET (1..2)]
  BY DEF DialInv, DialTypeOK
<1>2. unclosed = [unclosed EXCEPT ![c] = unclosed[c]]
  BY <1>1
<1>3. pc[c] \in {"create", "ask", "starting"} => unclosed[c] = {}
  BY DEF DialInv, CallInv, OwnConnection, Dialled
<1>4. pc[c] = "wait" => unclosed[c] = {attempt[c]}
  BY DEF DialInv, CallInv, OwnConnection, Dialled
<1> USE DEF Pending, Dialling, Goto
<1>5. CASE Create(c)
  <2>1. CASE options.address
    BY <1>1, <1>5, <2>1, PendingStutters DEF Create
  <2>2. CASE ~options.address
    BY <1>2, <1>3, <1>5, <2>2, PendingStutters, FailRefines
       DEF Create, AfterFailedDial, Promise!Next
  <2>3. QED
    BY <2>1, <2>2
<1>6. CASE Look(c)
  <2>1. attempt[c] \in 1..2 /\ unclosed[c] = {attempt[c]}
    <3>1. pc[c] = "look"
      BY <1>6 DEF Look
    <3>2. attempt[c] \in {1, 2} /\ unclosed[c] = {attempt[c]}
      BY <3>1 DEF DialInv, CallInv, DialsBegun, OwnConnection, Dialled
    <3>3. QED
      BY <3>2
  <2>2. CASE IsReady(channel[c])
    BY <1>6, <2>1, <2>2, OpenRefines DEF Look, NextWait, Promise!Next
  <2>3. CASE ~IsReady(channel[c])
    BY <1>2, <1>6, <2>3, PendingStutters DEF Look, NextWait
  <2>4. QED
    BY <2>2, <2>3
<1>7. CASE Woken(c) \/ Started(c)
  BY <1>2, <1>7, PendingStutters DEF Woken, Started
<1>8. CASE GiveUp(c)
  <2>1. /\ pc[c] \in Pending
        /\ unclosed' = [unclosed EXCEPT ![c] = {}]
        /\ pc' = [pc EXCEPT ![c] = AfterFailedDial(attempt[c])]
    BY <1>1, <1>4, <1>8 DEF GiveUp, CloseConn
  <2>2. QED
    BY <2>1, PendingStutters, FailRefines DEF AfterFailedDial, Promise!Next
<1>9. CASE Start(c) \/ StartFails(c)
  BY <1>2, <1>3, <1>9, PendingStutters, FailRefines DEF Start, StartFails, Promise!Next
<1>10. QED
  BY <1>5, <1>6, <1>7, <1>8, <1>9 DEF CallStep

\* A call begins.
LEMMA BeginRefines ==
    ASSUME DialInv, NEW c \in Call, NewClient(c) PROVE Promise!Next
<1>1. unclosed[c] = {} /\ pc[c] = "none"
  BY DEF NewClient, DialInv, CallInv, OwnConnection, Dialled
<1>2. Promise!Begin(c)
  BY <1>1 DEF NewClient, Goto, DialInv, DialTypeOK, Promise!Begin, Promise!Become,
     Outcome, Held, Pending, Dialling
<1>3. QED
  BY <1>2 DEF Promise!Next

\* The calls of a process vanish with it.
LEMMA ExitRefines ==
    ASSUME DialInv, NEW p \in Process, Exit(p) PROVE Promise!Next
<1> DEFINE dead == CallsOf(p)
<1>1. Promise!Vanish(dead)
  BY DEF Exit, DialInv, DialTypeOK, Promise!Vanish, Outcome, Held, Pending, Dialling
<1>2. dead \in SUBSET Call
  BY DEF CallsOf
<1>3. QED
  BY <1>1, <1>2 DEF Promise!Next

\* Every step of the processes keeps the promise or does not concern it.
LEMMA StepRefines ==
    IInv /\ [Next]_vars => [Promise!Next]_(Promise!promiseVars)
<1> SUFFICES ASSUME IInv, [Next]_vars
             PROVE  Promise!Next \/ UNCHANGED <<Outcome, Held>>
  BY DEF Promise!promiseVars
<1>1. DialInv
  BY DEF IInv, TypeOK, DialInv
<1>2. CASE UNCHANGED <<pc, unclosed>>
  BY <1>2 DEF Outcome, Held
<1>3. CASE DialStep
  <2>1. ASSUME NEW c \in Call, CallStep(c)
        PROVE  Promise!Next \/ UNCHANGED <<Outcome, Held>>
    BY <1>1, <2>1, CallStepRefines
  <2>2. ASSUME NEW c \in Call, TimerStep(c) \/ GrpcStep(c)
        PROVE  UNCHANGED <<pc, unclosed>>
    <3>1. CASE TimerStep(c)
      BY <3>1 DEF TimerStep, Expire, Cancel
    <3>2. CASE GrpcStep(c)
      BY <3>2 DEF GrpcStep, BeginConnecting, Connected, Refused, Channel, callVars
    <3>3. QED
      BY <2>2, <3>1, <3>2
  <2>3. ASSUME UnitStep PROVE UNCHANGED <<pc, unclosed>>
    BY <2>3 DEF UnitStep, UnitListens, UnitStops, StartedByOthers, callVars
  <2>4. QED
    BY <1>2, <1>3, <2>1, <2>2, <2>3 DEF DialStep
<1>4. CASE ProcessStep
  <2>1. PICK p \in Process :
           \/ Launch(p) \/ ConnectBus(p) \/ Export(p) \/ RequestName(p)
           \/ NotifySignals(p) \/ Signal(p) \/ ReleaseName(p) \/ Exit(p)
           \/ \E c \in Call : Serve(p, c)
    BY <1>4 DEF ProcessStep
  <2>2. CASE Exit(p)
    BY <1>1, <2>2, ExitRefines
  <2>3. ASSUME NEW c \in Call, Serve(p, c) PROVE Promise!Next
    BY <1>1, <2>3, BeginRefines DEF Serve
  <2>4. CASE UNCHANGED dialVars
    BY <1>2, <2>4 DEF dialVars, callVars
  <2>5. QED
    BY <2>1, <2>2, <2>3, <2>4 DEF Launch, ConnectBus, Export, RequestName,
       NotifySignals, Signal, ReleaseName
<1>5. QED
  BY <1>2, <1>3, <1>4 DEF Next, vars, dialVars, callVars

(* Every call of NewClient ends with one open connection or with an error  *)
(* and none, through both dials, the start of the daemon and the exit of   *)
(* the process.                                                            *)
THEOREM PromiseKept == Spec => KeepsPromise
<1>1. Init => Promise!Init
  BY InitRefines
<1>2. IInv /\ [Next]_vars => [Promise!Next]_(Promise!promiseVars)
  BY StepRefines
<1>3. QED
  BY <1>1, <1>2, Invariant, PTL DEF Spec, KeepsPromise, Promise!Spec

=============================================================================
