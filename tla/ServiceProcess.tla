--------------------------- MODULE ServiceProcess ---------------------------
(***************************************************************************)
(* The plugin's process (cmd/nm-netbird-service/main.go) around its calls  *)
(* of NewClient.  NetworkManager launches a process when nobody owns the   *)
(* bus name, an administrator may launch another, and each may crash or be *)
(* told to stop at any time; nothing is stored, so a process that exits    *)
(* takes its calls and connections with it, and the daemon stays as it is. *)
(***************************************************************************)
EXTENDS DaemonDial

CONSTANTS Process, Nobody

ASSUME ProcessAssumption == Nobody \notin Process

VARIABLES
    stage,              \* how far main is in each process
    owner,              \* who owns the bus name
    by                  \* the process that runs a call

processVars == <<stage, owner, by>>
vars == <<dialVars, processVars>>

\* In main's order.
Exported == {"exported", "named", "serving", "stopping", "released"}
Living == {"launched", "connected"} \cup Exported
Stages == Living \cup {"off", "gone"}

TypeOK ==
    /\ DialTypeOK
    /\ stage \in [Process -> Stages]
    /\ owner \in Process \cup {Nobody}
    /\ by \in [Call -> Process \cup {Nobody}]

Init ==
    /\ DialInit
    /\ stage = [p \in Process |-> "off"]
    /\ owner = Nobody
    /\ by = [c \in Call |-> Nobody]

-----------------------------------------------------------------------------
(* main.                                                                   *)

Advance(p, from, to) ==
    /\ stage[p] = from
    /\ stage' = [stage EXCEPT ![p] = to]

Launch(p) ==
    /\ Advance(p, "off", "launched")
    /\ UNCHANGED <<dialVars, owner, by>>

\* The bus is connected, and a starter is there if autostart is on.
ConnectBus(p) ==
    /\ Advance(p, "launched", "connected")
    /\ options.start => options.starter # "nil"
    /\ UNCHANGED <<dialVars, owner, by>>

Export(p) ==
    /\ Advance(p, "connected", "exported")
    /\ UNCHANGED <<dialVars, owner, by>>

\* Mutant: the name is requested before the objects are there.
RequestNameEarly(p) ==
    /\ stage[p] \in {"connected", "exported"} /\ owner = Nobody
    /\ owner' = p
    /\ stage' = [stage EXCEPT ![p] = IF @ = "exported" THEN "named" ELSE @]
    /\ UNCHANGED <<dialVars, by>>

\* Mutant: the reply is not looked at.
RequestNameAnyReply(p) ==
    /\ Advance(p, "exported", "named")
    /\ owner' = IF owner = Nobody THEN p ELSE owner
    /\ UNCHANGED <<dialVars, by>>

\* With DoNotQueue the reply is that p is the owner, or that another is;
\* then main exits (see Exit).
RequestName(p) ==
    /\ Advance(p, "exported", "named")
    /\ owner = Nobody /\ owner' = p
    /\ UNCHANGED <<dialVars, by>>

NotifySignals(p) ==
    /\ Advance(p, "named", "serving")
    /\ UNCHANGED <<dialVars, owner, by>>

Signal(p) ==
    /\ Advance(p, "serving", "stopping")
    /\ UNCHANGED <<dialVars, owner, by>>

ReleaseName(p) ==
    /\ Advance(p, "stopping", "released")
    /\ owner' = IF owner = p THEN Nobody ELSE owner
    /\ UNCHANGED <<dialVars, by>>

\* main returns or fails, a signal arrives that is not yet handled, or the
\* process is killed: the operating system closes its connections, and the
\* bus takes its name.
CallsOf(p) == {c \in Call : by[c] = p /\ pc[c] # "none"}

Exit(p) ==
    LET dead == CallsOf(p) IN
    /\ stage[p] \in Living
    /\ stage' = [stage EXCEPT ![p] = "gone"]
    /\ owner' = IF owner = p THEN Nobody ELSE owner
    /\ pc' = [c \in Call |-> IF c \in dead THEN "gone" ELSE pc[c]]
    /\ unclosed' = [c \in Call |-> IF c \in dead THEN {} ELSE unclosed[c]]
    /\ channel' = [c \in Call |-> IF c \in dead THEN "closed" ELSE channel[c]]
    /\ UNCHANGED <<options, attempt, seen, expired, cancelled, accepted,
                   unitVars, by>>

\* NetworkManager's Connect reaches whoever owns the name.
Serve(p, c) ==
    /\ owner = p /\ stage[p] \in Exported
    /\ by[c] = Nobody
    /\ by' = [by EXCEPT ![c] = p]
    /\ NewClient(c)
    /\ UNCHANGED <<stage, owner>>

-----------------------------------------------------------------------------
ProcessStep ==
    \E p \in Process :
        \/ Launch(p) \/ ConnectBus(p) \/ Export(p) \/ RequestName(p)
        \/ NotifySignals(p) \/ Signal(p) \/ ReleaseName(p) \/ Exit(p)
        \/ \E c \in Call : Serve(p, c)

Next ==
    \/ DialStep /\ UNCHANGED processVars
    \/ ProcessStep

\* A goroutine that can run is scheduled, a killed command returns, gRPC
\* connects to a daemon that goes on listening, and a started unit listens.
\* Nothing else is fair: neither the timers nor systemctl nor the daemon.
Stays(A) == A /\ UNCHANGED processVars

Fairness ==
    /\ \A c \in Call :
         /\ WF_vars(Stays(Create(c) \/ Look(c) \/ Woken(c) \/ GiveUp(c)))
         /\ WF_vars(Stays(Start(c))) /\ WF_vars(Stays(Killed(c)))
         /\ WF_vars(Stays(BeginConnecting(c))) /\ WF_vars(Stays(Connected(c)))
    /\ WF_vars(Stays(UnitListens))

Spec == Init /\ [][Next]_vars
FairSpec == Spec /\ Fairness

-----------------------------------------------------------------------------
(* Properties.                                                             *)

\* The connection that NewClient returns was established by that very dial:
\* neither a channel that was only asked to connect, nor the first dial's,
\* is taken for a connection to the daemon (waitForReady, dial).
OpenWasReady ==
    \A c \in Call : pc[c] = "open" => attempt[c] \in accepted[c]

\* Whatever owns the bus name can serve NetworkManager's calls: the objects
\* are exported before the name is requested, and a process that stops gives
\* the name back (main).
OwnerAnswers == owner # Nobody => stage[owner] \in Exported

\* A process that did not get the name never goes on to serve, however the
\* launches, crashes and releases of several processes overlap (main's test
\* of the reply).
OneServer ==
    \A p \in Process : stage[p] \in {"named", "serving", "stopping"} => owner = p

\* Every call of NewClient ends with one connection held by its caller or
\* with an error and none, on both dials and when its process exits.
Outcome == [c \in Call |-> IF pc[c] \in Pending THEN "pending" ELSE pc[c]]
Held == [c \in Call |-> IF pc[c] \in Pending THEN {} ELSE unclosed[c]]
Promise == INSTANCE DialPromise WITH
    Connection <- 1..2, outcome <- Outcome, held <- Held
KeepsPromise == Promise!Spec

\* A call whose context is done ends, wherever it waits: for a channel that
\* does not connect, or for an init system that does not answer.
NewClientEnds ==
    \A c \in Call : cancelled[c] ~> pc[c] \in {"open", "failed", "gone"}


=============================================================================
