----------------------------- MODULE DaemonDial -----------------------------
(***************************************************************************)
(* How an activation gets its connection to the NetBird daemon             *)
(* (internal/netbird/daemonclient/grpc.go): NewClient dials, and if that   *)
(* fails and autostart is on it asks the init system to start the daemon   *)
(* (internal/initsystem/initsystem.go) and dials once more.  A dial waits  *)
(* until gRPC reports the channel ready, or its context is done.           *)
(*                                                                         *)
(* The channel (gRPC) and the daemon's unit (the init system) are          *)
(* external.  Several calls may be in progress: the activation of a        *)
(* connection and the one it replaced.                                     *)
(***************************************************************************)
EXTENDS Naturals

CONSTANTS
    Call,               \* the calls of NewClient
    OptionSets,         \* the options the factory may be given
    MaxStops            \* bound on how often the daemon stops

Starters == {"nil", "no systemctl", "systemctl"}
OptionType == [address : BOOLEAN,       \* gRPC accepts the address
               timed : BOOLEAN,         \* DialTimeout is positive
               start : BOOLEAN, starter : Starters]

ASSUME DialAssumption ==
    /\ OptionSets \subseteq OptionType
    /\ MaxStops \in Nat

VARIABLES
    options,            \* the factory's Options
    pc,                 \* where each call is
    attempt,            \* how many dials it has begun
    seen,               \* waitForReady's state
    expired,            \* the dial's own deadline has passed
    cancelled,          \* the activation's context is done
    unclosed,           \* the dials whose connection is not closed
    channel,            \* the state of the call's gRPC channel
    accepted,           \* history: the dials whose connection was established
    unit,               \* the daemon's unit
    stops               \* how often the daemon has stopped

callVars == <<pc, attempt, seen, expired, cancelled, unclosed>>
channelVars == <<channel, accepted>>
unitVars == <<unit, stops>>
dialVars == <<options, callVars, channelVars, unitVars>>

Dialling == {"create", "look", "wait"}
Pending == Dialling \cup {"ask", "starting"}
PCs == Pending \cup {"none", "open", "failed", "gone"}

\* What GetState can report; "Requested" is an idle channel on which Connect
\* was called and that has not begun to connect.
Reported == {"Idle", "Connecting", "Ready", "TransientFailure"}
Channels == Reported \cup {"Requested", "closed"}
StateOf(ch) == IF ch = "Requested" THEN "Idle" ELSE ch

Units == {"stopped", "starting", "listening"}

DialTypeOK ==
    /\ options \in OptionSets
    /\ pc \in [Call -> PCs]
    /\ attempt \in [Call -> 0..2]
    /\ seen \in [Call -> Reported]
    /\ expired \in [Call -> BOOLEAN]
    /\ cancelled \in [Call -> BOOLEAN]
    /\ unclosed \in [Call -> SUBSET (1..2)]
    /\ channel \in [Call -> Channels]
    /\ accepted \in [Call -> SUBSET (1..2)]
    /\ unit \in Units
    /\ stops \in 0..MaxStops

DialInit ==
    /\ options \in OptionSets
    /\ pc = [c \in Call |-> "none"]
    /\ attempt = [c \in Call |-> 0]
    /\ seen = [c \in Call |-> "Idle"]
    /\ expired = [c \in Call |-> FALSE]
    /\ cancelled = [c \in Call |-> FALSE]
    /\ unclosed = [c \in Call |-> {}]
    /\ channel = [c \in Call |-> "closed"]
    /\ accepted = [c \in Call |-> {}]
    /\ unit \in Units /\ stops = 0

-----------------------------------------------------------------------------
(* NewClient and dial.                                                     *)

Goto(c, place) == pc' = [pc EXCEPT ![c] = place]

NewClient(c) ==
    /\ pc[c] = "none" /\ Goto(c, "create")
    /\ UNCHANGED <<options, attempt, seen, expired, cancelled, unclosed,
                   channelVars, unitVars>>

\* Mutant: it dials again as long as starting the daemon succeeds.
AskAgain(n) ==
    IF options.start /\ options.starter # "nil" THEN "ask" ELSE "failed"

\* Where NewClient goes on when its n-th dial has failed.
AfterFailedDial(n) ==
    IF n = 1 /\ options.start /\ options.starter # "nil" THEN "ask" ELSE "failed"

\* grpc.NewClient refuses the address, or makes a channel, and Connect is
\* called.  The dial's own deadline starts here.
Create(c) ==
    LET n == attempt[c] + 1 IN
    /\ pc[c] = "create"
    /\ attempt' = [attempt EXCEPT ![c] = n]
    /\ expired' = [expired EXCEPT ![c] = FALSE]
    /\ IF options.address
       THEN /\ unclosed' = [unclosed EXCEPT ![c] = @ \cup {n}]
            /\ channel' = [channel EXCEPT ![c] = "Requested"]
            /\ Goto(c, "look")
       ELSE /\ Goto(c, AfterFailedDial(n))
            /\ UNCHANGED <<unclosed, channel>>
    /\ UNCHANGED <<options, seen, cancelled, accepted, unitVars>>

\* Mutant: a channel that connects counts as one that is ready.
GoodEnough(ch) == StateOf(ch) \in {"Ready", "Connecting"}

\* waitForReady's tests of the state; Shutdown follows only after Close.
IsReady(ch) == ch = "Ready"

NextWait(c) == IF IsReady(channel[c]) THEN "open" ELSE "wait"

Look(c) ==
    /\ pc[c] = "look"
    /\ seen' = [seen EXCEPT ![c] = StateOf(channel[c])]
    /\ Goto(c, NextWait(c))
    /\ UNCHANGED <<options, attempt, expired, cancelled, unclosed, channelVars,
                   unitVars>>

\* WaitForStateChange returns true.
Woken(c) ==
    /\ pc[c] = "wait"
    /\ StateOf(channel[c]) # seen[c]
    /\ Goto(c, "look")
    /\ UNCHANGED <<options, attempt, seen, expired, cancelled, unclosed,
                   channelVars, unitVars>>

\* Mutant: the connection that was not ready in time stays open.
LeaveOpen(c) == UNCHANGED <<unclosed, channel>>

CloseConn(c) ==
    /\ unclosed' = [unclosed EXCEPT ![c] = @ \ {attempt[c]}]
    /\ channel' = [channel EXCEPT ![c] = "closed"]

\* Mutant: only the dial's own deadline is looked at.
OwnDeadline(c) == expired[c]


ContextDone(c) == cancelled[c] \/ expired[c]

\* WaitForStateChange returns false.
GiveUp(c) ==
    /\ pc[c] = "wait"
    /\ ContextDone(c)
    /\ CloseConn(c)
    /\ Goto(c, AfterFailedDial(attempt[c]))
    /\ UNCHANGED <<options, attempt, seen, expired, cancelled, accepted,
                   unitVars>>

-----------------------------------------------------------------------------
(* The starter.  A command whose context is done is not launched, and is   *)
(* killed when its context ends.                                           *)

MayLaunch(c) == options.starter = "systemctl" /\ ~cancelled[c]

Start(c) ==
    /\ pc[c] = "ask"
    /\ \/ /\ MayLaunch(c)
          /\ unit' = IF unit = "stopped" THEN "starting" ELSE unit
          /\ Goto(c, "starting")
       \/ Goto(c, "failed") /\ unit' = unit
    /\ UNCHANGED <<options, attempt, seen, expired, cancelled, unclosed,
                   channelVars, stops>>

\* systemctl is done before the daemon listens, or after.
Started(c) ==
    /\ pc[c] = "starting"
    /\ Goto(c, "create")
    /\ UNCHANGED <<options, attempt, seen, expired, cancelled, unclosed,
                   channelVars, unitVars>>

StartFails(c) ==
    /\ pc[c] = "starting"
    /\ Goto(c, "failed")
    /\ UNCHANGED <<options, attempt, seen, expired, cancelled, unclosed,
                   channelVars, unitVars>>

Killed(c) == cancelled[c] /\ StartFails(c)

-----------------------------------------------------------------------------
(* Timers, and the caller's cancellation.                                  *)

Expire(c) ==
    /\ options.timed
    /\ pc[c] \in {"look", "wait"} /\ ~expired[c]
    /\ expired' = [expired EXCEPT ![c] = TRUE]
    /\ UNCHANGED <<options, pc, attempt, seen, cancelled, unclosed,
                   channelVars, unitVars>>

Cancel(c) ==
    /\ pc[c] \in Pending /\ ~cancelled[c]
    /\ cancelled' = [cancelled EXCEPT ![c] = TRUE]
    /\ UNCHANGED <<options, pc, attempt, seen, expired, unclosed, channelVars,
                   unitVars>>

-----------------------------------------------------------------------------
(* gRPC.  A channel that lost its connection is idle until Connect is      *)
(* called again, which no code does.                                       *)

Channel(c, from, to) ==
    /\ channel[c] \in from
    /\ channel' = [channel EXCEPT ![c] = to]
    /\ UNCHANGED <<options, callVars, unitVars>>

BeginConnecting(c) ==
    /\ Channel(c, {"Requested"}, "Connecting")
    /\ UNCHANGED accepted

Connected(c) ==
    /\ unit = "listening"
    /\ Channel(c, {"Connecting", "TransientFailure"}, "Ready")
    /\ accepted' = [accepted EXCEPT ![c] = @ \cup {attempt[c]}]

Refused(c) ==
    /\ Channel(c, {"Connecting"}, "TransientFailure")
    /\ UNCHANGED accepted

-----------------------------------------------------------------------------
(* The daemon's unit: it begins to listen some time after its start, may   *)
(* stop or be restarted, and may be started by others.                     *)

UnitListens ==
    /\ unit = "starting" /\ unit' = "listening"
    /\ UNCHANGED <<options, callVars, channelVars, stops>>

UnitStops ==
    /\ unit # "stopped" /\ unit' = "stopped"
    /\ stops < MaxStops /\ stops' = stops + 1
    /\ channel' = [c \in Call |-> IF channel[c] = "Ready" THEN "Idle" ELSE channel[c]]
    /\ UNCHANGED <<options, callVars, accepted>>

StartedByOthers ==
    /\ unit = "stopped" /\ unit' = "starting"
    /\ UNCHANGED <<options, callVars, channelVars, stops>>

-----------------------------------------------------------------------------
CallStep(c) ==
    \/ Create(c) \/ Look(c) \/ Woken(c) \/ GiveUp(c)
    \/ Start(c) \/ Started(c) \/ StartFails(c)

TimerStep(c) == Expire(c) \/ Cancel(c)

GrpcStep(c) == BeginConnecting(c) \/ Connected(c) \/ Refused(c)

UnitStep == UnitListens \/ UnitStops \/ StartedByOthers

DialStep ==
    \/ \E c \in Call : CallStep(c) \/ TimerStep(c) \/ GrpcStep(c)
    \/ UnitStep

=============================================================================
