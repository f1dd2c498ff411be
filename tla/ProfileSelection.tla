-------------------------- MODULE ProfileSelection --------------------------
(***************************************************************************)
(* How an activation chooses the daemon profile it configures, logs in and *)
(* brings up: prepareDaemonProfile, updateDaemonProfile and profile.Resolve*)
(* as runActivation (internal/nmplugin/service.go) calls them.  One action *)
(* per call of the daemon, because other clients of the daemon run between *)
(* two calls.  The daemon's features do not change, so reading them is no  *)
(* step.  Activations follow one another, which PluginService shows.       *)
(***************************************************************************)
EXTENDS NetBirdDaemon

CONSTANTS
    Desires,            \* what connections ask for: a name and a user, or not
    ProcessUser,        \* the user the service runs as
    MaxAttempts,        \* bound on activations
    LateCalls           \* the calls that may be executed after they failed

\* NetworkManager's connections have a UUID, and so a name; NoRef stands for
\* settings without one.
ASSUME DesiresAssumption ==
    \A d \in Desires :
        /\ d \in [id : {NoID}, name : Name, user : User]
        /\ d = NoRef \/ d.name \notin {NoName, DefaultName}
ASSUME MaxAttemptsAssumption == MaxAttempts \in Nat
ASSUME ProcessUserAssumption == ProcessUser \in User \ {NoUser}

VARIABLES
    pc,                 \* the next call of the activation
    desired,            \* what it was asked for, its user filled in
    ref,                \* settings.Profile; in "up" the resolved profile
    seen,               \* the active profile it read last
    attempts,
    loggedIn, configured, brought,      \* the profiles its calls reached
    late                \* failed calls that the daemon may still execute

plugin == <<pc, desired, ref, seen, attempts, loggedIn, configured, brought>>
vars == <<daemon, plugin, late>>

NoProfile == [key |-> 0, name |-> NoName, user |-> NoUser]

RefType == [id : Key \cup {NoID}, name : Name, user : User]

TypeOK ==
    /\ DaemonTypeOK
    /\ pc \in {"idle", "prepare", "prepareStatus", "ensure", "add", "switch",
               "login", "update", "resolve", "resolveStatus", "resolveList",
               "up", "ready", "session", "down"}
    /\ desired \in RefType /\ ref \in RefType /\ seen \in RefType
    /\ attempts \in 0..MaxAttempts
    /\ \A p \in {loggedIn, configured, brought} : p.key \in 0..created
    /\ \A c \in late : c.op \in LateCalls

Init ==
    /\ DaemonInit
    /\ pc = "idle" /\ attempts = 0 /\ late = {}
    /\ desired = NoRef /\ ref = NoRef /\ seen = NoRef
    /\ loggedIn = NoProfile /\ configured = NoProfile /\ brought = NoProfile

-----------------------------------------------------------------------------
(* Profile references (daemonclient/types.go and profile.go)               *)

\* Every field that is asked for agrees.
MatchesDesired(r, d) ==
    /\ d.id = NoID \/ r.id = d.id
    /\ d.name = NoName \/ r.name = d.name
    /\ d.user = NoUser \/ r.user = d.user

FillMissing(a, d) ==
    IF ~MatchesDesired(a, d) THEN d
    ELSE [id |-> IF d.id = NoID THEN a.id ELSE d.id,
          name |-> IF d.name = NoName THEN a.name ELSE d.name,
          user |-> IF d.user = NoUser THEN a.user ELSE d.user]

HasHandle(r) == r.id # NoID \/ r.name # NoName

\* The profiles that resolveExistingProfile finds for a reference.
Existing(r) ==
    {p \in Listed(r.user) :
        IF r.name # NoName THEN p.name = r.name ELSE RefOf(p).id = r.id}

\* Mutant: the fields are swapped.
RefFromMatchSwapped(p, user) == [RefOf(p) EXCEPT !.user = p.name]

\* profileRefFromMatch
RefFromMatch(p, user) == [RefOf(p) EXCEPT !.user = user]

\* Mutant: only a connected engine is running.
ConnectedEngine(resp) == Map(resp) = "connected"

\* runningEngine
RunningEngine(resp) == Map(resp) \notin {"disconnected", "failed"}

-----------------------------------------------------------------------------
(* Steps                                                                   *)

Goto(from, to) == pc = from /\ pc' = to

\* The activation fails; locals that are no longer read are reset.
GiveUp ==
    /\ pc' = IF pc \in {"ready", "session"} THEN "down" ELSE "idle"
    /\ desired' = NoRef /\ ref' = NoRef /\ seen' = NoRef
    /\ loggedIn' = NoProfile /\ configured' = NoProfile /\ brought' = NoProfile
    /\ UNCHANGED attempts

\* Any call may fail without having been executed.
Fail ==
    /\ pc \notin {"idle", "session", "down"}
    /\ GiveUp
    /\ UNCHANGED <<daemon, late>>

\* A call that changes the daemon: it is executed and answered, it is
\* executed and the answer is lost, or it fails and is executed later.
Call(op, Exec, Answered) ==
    \/ Exec /\ Answered /\ UNCHANGED late
    \/ Exec /\ GiveUp /\ UNCHANGED late
    \/ /\ op \in LateCalls
       /\ late' = late \cup {[op |-> op, ref |-> ref]}
       /\ GiveUp /\ UNCHANGED daemon

\* A connection is activated.
Start(d) ==
    /\ Goto("idle", 
            IF features.noProfiles \/ d = NoRef THEN "login" ELSE "prepare")
    /\ attempts < MaxAttempts /\ attempts' = attempts + 1
    /\ LET asked == IF d.name # NoName /\ d.user = NoUser
                    THEN [d EXCEPT !.user = ProcessUser] ELSE d
       IN  /\ desired' = IF features.noProfiles THEN NoRef ELSE asked
           /\ ref' = IF features.noProfiles THEN NoRef ELSE asked
    /\ UNCHANGED <<daemon, seen, loggedIn, configured, brought, late>>

\* PrepareActivation: the active profile, and the status if it is another.
PrepareActivation ==
    /\ Goto("prepare", IF MatchesDesired(RefOf(active), ref) THEN "ensure"
                       ELSE "prepareStatus")
    /\ ref' = FillMissing(RefOf(active), ref)
    /\ seen' = RefOf(active)
    /\ UNCHANGED <<daemon, desired, attempts, loggedIn, configured, brought,
                   late>>

\* checkRunningConflict, for an active profile other than the desired one.
CheckConflict(from, to) ==
    \E resp \in Answers :
        /\ pc = from
        /\ IF RunningEngine(resp) THEN GiveUp
           ELSE /\ pc' = to
                /\ UNCHANGED <<desired, ref, seen, attempts, loggedIn,
                               configured, brought>>
        /\ UNCHANGED <<daemon, late>>

\* Mutant: the profile is created without asking for it.
EnsureExistsBlindly ==
    /\ Goto("ensure", "add")
    /\ UNCHANGED <<daemon, desired, ref, seen, attempts, loggedIn, configured,
                   brought, late>>

\* EnsureExists, up to the creation of a missing profile.
EnsureExists ==
    /\ pc = "ensure"
    /\ IF Cardinality(Existing(ref)) > 1 THEN GiveUp
       ELSE /\ \/ Existing(ref) = {} /\ pc' = "add" /\ UNCHANGED ref
               \/ \E p \in Existing(ref) :
                    /\ pc' = "switch" /\ ref' = RefFromMatch(p, ref.user)
            /\ UNCHANGED <<desired, seen, attempts, loggedIn, configured,
                           brought>>
    /\ UNCHANGED <<daemon, late>>

\* Mutant: the ID of the new profile is not kept.
AddProfileByName ==
    /\ pc = "add"
    /\ Call("add", Add(ref.name, ref.user),
            /\ pc' = "switch"
            /\ UNCHANGED <<desired, ref, seen, attempts, loggedIn, configured,
                           brought>>)

\* AddProfile answers with the ID of the new profile, if there are IDs.
AddProfile ==
    /\ pc = "add"
    /\ Call("add", Add(ref.name, ref.user),
            /\ pc' = "switch"
            /\ ref' = [ref EXCEPT !.id = IF features.ids THEN created + 1 ELSE @]
            /\ UNCHANGED <<desired, seen, attempts, loggedIn, configured,
                           brought>>)

\* switchDaemonProfile
SwitchProfile ==
    /\ pc = "switch"
    /\ \E p \in Addressed(ref) :
        Call("switch", Activate(p),
             /\ pc' = "login"
             /\ ref' = [ref EXCEPT !.id = RefOf(p).id]
             /\ UNCHANGED <<desired, seen, attempts, loggedIn, configured,
                            brought>>)

\* authenticate, the wait for SSO included.
Login ==
    /\ Goto("login", IF features.noUpdates THEN "resolve" ELSE "update")
    /\ loggedIn' \in Addressed(ref)
    /\ UNCHANGED <<daemon, desired, ref, seen, attempts, configured, brought,
                   late>>

\* Mutant: settings always go to the default profile.
ConfigDefault(r) == [NoRef EXCEPT !.name = DefaultName]

\* UpdateProfile addresses the default profile when it has no handle.
ConfigRef(r) == IF HasHandle(r) THEN r ELSE [r EXCEPT !.name = DefaultName]

UpdateProfile ==
    /\ Goto("update", "resolve")
    /\ configured' \in Addressed(ConfigRef(ref))
    /\ UNCHANGED <<daemon, desired, ref, seen, attempts, loggedIn, brought,
                   late>>

\* Mutant: whatever profile is active is taken.
ResolveActive ==
    /\ Goto("resolve", "up")
    /\ ref' = IF features.noProfiles THEN NoRef ELSE RefOf(active)
    /\ seen' = RefOf(active)
    /\ UNCHANGED <<daemon, desired, attempts, loggedIn, configured, brought,
                   late>>

\* Resolve: the active profile if it is the desired one.
Resolve ==
    /\ LET a == RefOf(active) IN
       \/ /\ features.noProfiles
          /\ Goto("resolve", "up") /\ UNCHANGED <<ref, seen>>
       \/ /\ ~features.noProfiles /\ ref = NoRef
          /\ Goto("resolve", "up") /\ ref' = a /\ seen' = a
       \/ /\ ~features.noProfiles /\ ref # NoRef
          /\ Goto("resolve",
                  IF MatchesDesired(a, ref) THEN "up" ELSE "resolveStatus")
          /\ ref' = FillMissing(a, ref) /\ seen' = a
    /\ UNCHANGED <<daemon, desired, attempts, loggedIn, configured, brought,
                   late>>

\* Otherwise the existing profile of that name.
ResolveExisting ==
    /\ pc = "resolveList"
    /\ \E p \in Existing(ref) :
        /\ Cardinality(Existing(ref)) = 1
        /\ pc' = "up"
        /\ ref' = FillMissing(seen, RefFromMatch(p, ref.user))
    /\ UNCHANGED <<daemon, desired, seen, attempts, loggedIn, configured,
                   brought, late>>

Up ==
    /\ pc = "up"
    /\ \E p \in Addressed(ref) :
        Call("up", BringUp(p, "plugin"),
             /\ pc' = "ready" /\ brought' = p
             /\ UNCHANGED <<desired, ref, seen, attempts, loggedIn,
                            configured>>)

\* waitForReady looks at the state alone, not at the profile.
WaitForReady ==
    /\ \E resp \in Answers : Map(resp) = "connected"
    /\ Goto("ready", "session")
    /\ UNCHANGED <<daemon, desired, ref, seen, attempts, loggedIn, configured,
                   brought, late>>

\* The session is ended, by Disconnect.
EndSession == pc = "session" /\ GiveUp /\ UNCHANGED <<daemon, late>>

\* Down, which may fail.
Down ==
    /\ Goto("down", "idle")
    /\ TakeDown \/ UNCHANGED daemon
    /\ UNCHANGED <<desired, ref, seen, attempts, loggedIn, configured, brought,
                   late>>

\* The daemon executes a call that has failed before.
ExecuteLate(c) ==
    /\ \/ c.op = "add" /\ Add(c.ref.name, c.ref.user)
       \/ c.op = "switch" /\ \E p \in Addressed(c.ref) : Activate(p)
       \/ c.op = "up" /\ \E p \in Addressed(c.ref) : BringUp(p, "plugin")
    /\ late' = late \ {c}
    /\ UNCHANGED plugin

Activation ==
    \/ \E d \in Desires : Start(d)
    \/ PrepareActivation \/ CheckConflict("prepareStatus", "ensure")
    \/ EnsureExists \/ AddProfile \/ SwitchProfile
    \/ Login \/ UpdateProfile
    \/ Resolve \/ CheckConflict("resolveStatus", "resolveList")
    \/ ResolveExisting \/ Up \/ WaitForReady \/ EndSession \/ Down \/ Fail

Environment ==
    /\ OtherClient(pc \in {"idle", "session"}) \/ EngineStep
    /\ UNCHANGED <<plugin, late>>

Next == Activation \/ Environment \/ \E c \in late : ExecuteLate(c)

Spec == Init /\ [][Next]_vars

-----------------------------------------------------------------------------
(* Properties *)

Succeeding == pc \in {"ready", "session"}

(* The engine is brought up for the profile of the connection and of its   *)
(* user, however other clients switch, add and remove profiles and however *)
(* late earlier calls are executed (Resolve, resolveExistingProfile).      *)
UpIsDesired ==
    (Succeeding /\ desired # NoRef)
        => brought.name = desired.name /\ brought.user = desired.user

(* A daemon that knows IDs is asked by ID from the switch on, so that a    *)
(* display name never has to be unique (EnsureExists, ProfileRef.Handle).  *)
AskedByID ==
    (/\ features.ids /\ desired # NoRef
     /\ pc \in {"switch", "login", "update", "resolve", "up"})
        => ref.id # NoID

(* The profile that is brought up is the one that was logged in and        *)
(* configured before (runActivation).                                      *)
UpAsLoggedIn ==
    (Succeeding /\ (desired # NoRef \/ features.noProfiles))
        => brought = loggedIn /\ (configured = brought \/ features.noUpdates)

(* An activation that is retried, after failures and lost answers, reuses  *)
(* the profile it created: a user has one profile of a name (EnsureExists).*)
NoDuplicates ==
    \A p, q \in profiles : p.name = q.name /\ p.user = q.user => p = q

(* The plugin never switches away from an engine that another client       *)
(* brought up for another profile (checkRunningConflict).                  *)
NeverSwitchesAway ==
    [][owner = "other" /\ active' # active => Environment]_vars

=============================================================================
