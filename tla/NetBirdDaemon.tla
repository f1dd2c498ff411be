--------------------------- MODULE NetBirdDaemon ---------------------------
(***************************************************************************)
(* The NetBird daemon as the plugin's profile calls see it, and the other  *)
(* clients of the daemon (the command line, the desktop client).  This is  *)
(* not the repository's code: it is what internal/netbird/profile and      *)
(* internal/netbird/daemonclient take for granted about the daemon.        *)
(***************************************************************************)
EXTENDS DaemonStatus, Naturals, FiniteSets

CONSTANTS
    Name, User,         \* display names and users, the empty ones included
    InitialProfiles,    \* the sets of profiles the daemon may start with
    MaxKey,             \* bound on the profiles ever created
    FeatureSets,        \* the daemons: IDs (0.73 and newer), DisableProfiles
                        \* and DisableUpdateSettings
    Others,             \* what other clients do
    Polite,             \* they bring no engine up during an activation
    Errors              \* may the full status of a running engine have errors?

\* An empty name, user and ID.
NoName == ""
NoUser == ""
NoID == 0
DefaultName == "default"                \* DefaultProfileName
Default == [key |-> 1, name |-> DefaultName, user |-> NoUser]

\* A reference to a profile (ProfileRef): an empty field means any.
NoRef == [id |-> NoID, name |-> NoName, user |-> NoUser]

Features == [ids : BOOLEAN, noProfiles : BOOLEAN, noUpdates : BOOLEAN]
Profile == [key : Nat \ {0}, name : Name, user : User]

\* Only the default profile belongs to no user.
OwnerKnown(p) == p.user = NoUser => p.name = DefaultName

ASSUME NamesAssumption == {NoName, DefaultName} \subseteq Name
ASSUME UsersAssumption == NoUser \in User
ASSUME FeaturesAssumption == FeatureSets \subseteq Features
ASSUME MaxKeyAssumption == MaxKey \in Nat
ASSUME ErrorsAssumption == Errors \in BOOLEAN
ASSUME InitialProfilesAssumption ==
    \A S \in InitialProfiles :
        /\ IsFiniteSet(S) /\ Cardinality(S) <= MaxKey
        /\ \A p \in S : p \in Profile /\ p.key <= Cardinality(S) /\ OwnerKnown(p)
        /\ \A p, q \in S : p.key = q.key => p = q

VARIABLES
    features,           \* the daemon's version and settings, which stay
    profiles,           \* the profiles: a key never changes hands
    created,            \* the largest key ever used
    active,             \* the active profile
    link,               \* its engine: "off", "connecting" or "connected"
    owner,              \* who brought the engine up: "none", "plugin", "other"
    errors              \* does its full status report an error?

daemon == <<features, profiles, created, active, link, owner, errors>>

Key == 1..MaxKey

DaemonTypeOK ==
    /\ features \in Features
    /\ \A p \in profiles : p \in Profile /\ p.key <= created /\ OwnerKnown(p)
    /\ \A p, q \in profiles : p.key = q.key => p = q
    /\ created \in Key
    /\ active \in profiles
    /\ link \in {"off", "connecting", "connected"}
    /\ owner \in {"none", "plugin", "other"}
    /\ owner = "none" <=> link = "off"
    /\ errors \in BOOLEAN

\* An engine that another client brought up, or none.  A daemon without
\* profiles serves its default profile.
DaemonInit ==
    /\ features \in FeatureSets
    /\ profiles \in InitialProfiles
    /\ created = Cardinality(profiles)
    /\ active \in profiles /\ (features.noProfiles => active = Default)
    /\ \/ link = "off" /\ owner = "none" /\ errors = FALSE
       \/ /\ link \in {"connecting", "connected"} /\ owner = "other"
          /\ errors \in BOOLEAN /\ (errors => Errors)

-----------------------------------------------------------------------------
(* What the daemon answers.                                                *)

RefOf(p) ==
    [id |-> IF features.ids THEN p.key ELSE NoID, name |-> p.name, user |-> p.user]

\* ListProfiles: the profiles of a user, and the default profile.
Listed(user) == {p \in profiles : p.user \in {user, NoUser}}

\* The profile a handle names, or nothing when there is none or no unique
\* one.  A call without a handle means the active profile.
Named(ref) ==
    IF ref.id # NoID THEN {p \in profiles : p.key = ref.id}
    ELSE IF ref.name # NoName THEN {p \in Listed(ref.user) : p.name = ref.name}
    ELSE {active}

Addressed(ref) == {p \in Named(ref) : Cardinality(Named(ref)) = 1}

\* Idle, NeedsLogin, LoginFailed, SessionExpired; Connecting; Connected.
Reports ==
    CASE link = "off" -> {{"stopped"}, {"failing"}}
      [] link = "connecting" -> {{"moving"}}
      [] link = "connected" -> {{"up"}}

Answers ==
    {[words |-> w, full |-> {"present"} \cup IF errors THEN {"error"} ELSE {}]
        : w \in Reports}

-----------------------------------------------------------------------------
(* What the daemon does.  There is one engine, it serves the active        *)
(* profile, and it is stopped when another profile becomes active.         *)

Stop == link' = "off" /\ owner' = "none" /\ errors' = FALSE

Activate(p) ==
    /\ active' = p
    /\ IF p = active THEN UNCHANGED <<link, owner, errors>> ELSE Stop
    /\ UNCHANGED <<features, profiles, created>>

BringUp(p, who) ==
    /\ active' = p
    /\ IF p = active /\ link # "off"
       THEN UNCHANGED <<link, owner, errors>>
       ELSE link' = "connecting" /\ owner' = who /\ errors' = FALSE
    /\ UNCHANGED <<features, profiles, created>>

TakeDown == Stop /\ UNCHANGED <<features, profiles, created, active>>

\* A daemon without IDs has no other handle than the name.
CanAdd(name, user) ==
    /\ created < MaxKey
    /\ features.ids \/ \A p \in Listed(user) : p.name # name

Add(name, user) ==
    /\ CanAdd(name, user)
    /\ created' = created + 1
    /\ profiles' = profiles \cup
            {[key |-> created + 1, name |-> name, user |-> user]}
    /\ UNCHANGED <<features, active, link, owner, errors>>

Remove(p) ==
    /\ p \notin {active, Default}
    /\ profiles' = profiles \ {p}
    /\ UNCHANGED <<features, created, active, link, owner, errors>>

\* The engine connects, loses its connection, has an error or recovers.
EngineStep ==
    /\ link # "off"
    /\ link' \in {"connecting", "connected"}
    /\ errors' \in {FALSE, Errors}
    /\ UNCHANGED <<features, profiles, created, active, owner>>

MayServe(p) == features.noProfiles => p = active

OtherClient(idle) ==
    \/ /\ "up" \in Others /\ (Polite => idle)
       /\ \E p \in profiles : MayServe(p) /\ BringUp(p, "other")
    \/ "down" \in Others /\ TakeDown
    \/ /\ ~features.noProfiles
       /\ \E p \in profiles :
            \/ "switch" \in Others /\ Activate(p)
            \/ "remove" \in Others /\ Remove(p)
            \/ "add" \in Others /\ Add(p.name, p.user)

=============================================================================
