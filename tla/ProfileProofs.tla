--------------------------- MODULE ProfileProofs ---------------------------
(***************************************************************************)
(* An activation brings up the profile of its own connection and user, for *)
(* every number of profiles, activations and late calls, and whatever      *)
(* other clients of the daemon do.  With other clients that create no      *)
(* profile it makes no duplicates and stays with the profile it logged in. *)
(* An engine of theirs it switches away from, or takes for its own, only   *)
(* if it was brought up after the activation last looked.                  *)
(***************************************************************************)
EXTENDS ProfileRace, FiniteSetTheorems, TLAPS

Ref == [id : Nat, name : Name, user : User]

(* What is known of the daemon: keys are unique and never given out twice. *)
ProfilesKnown ==
    /\ features \in Features
    /\ created \in Nat
    /\ active \in profiles
    /\ \A p \in profiles : p \in Profile /\ p.key <= created /\ OwnerKnown(p)
    /\ \A p, q \in profiles : p.key = q.key => p = q

(* The references the activation holds. *)
RefsKnown ==
    /\ desired \in Ref /\ ref \in Ref /\ seen \in Ref
    /\ ref.id <= created /\ seen.id <= created
    /\ ~features.ids => seen.id = NoID

(* A connection's reference keeps the name and the user it was asked for.  *)
RefFollows ==
    desired # NoRef =>
        /\ ref.name = desired.name /\ ref.user = desired.user
        /\ desired.name \notin {NoName, DefaultName} /\ desired.user # NoUser

(* Its ID, once known, is the ID of a profile of that name and user.       *)
RefIdentifies ==
    (desired # NoRef /\ ref.id # NoID) =>
        \A p \in profiles :
            p.key = ref.id => p.name = ref.name /\ p.user = ref.user

(* Profiles are looked for and created for a connection only. *)
Choosing ==
    pc \in {"prepare", "prepareStatus", "ensure", "add", "switch"}
        => desired # NoRef

LateKnown ==
    \A c \in late : c.op = "add" =>
        /\ c.ref.name \in Name /\ c.ref.user \in User \ {NoUser}

Inv ==
    /\ ProfilesKnown /\ RefsKnown /\ RefFollows /\ RefIdentifies
    /\ Choosing /\ LateKnown /\ UpIsDesired

-----------------------------------------------------------------------------
(* What the daemon's steps preserve (RefIdentifies for any reference).     *)

DaemonStep ==
    \/ UNCHANGED daemon
    \/ \E p \in profiles : Activate(p)
    \/ \E p \in profiles, who \in {"plugin", "other"} : BringUp(p, who)
    \/ TakeDown
    \/ \E p \in profiles : Remove(p)
    \/ \E name \in Name, user \in User :
            /\ user = NoUser => name = DefaultName
            /\ Add(name, user)
    \/ EngineStep

Identifies(r) ==
    \A p \in profiles : p.key = r.id => p.name = r.name /\ p.user = r.user

(* No step of the daemon breaks ProfilesKnown, and none changes what a key *)
(* that was given out stands for.                                          *)
LEMMA DaemonSteps ==
    ASSUME ProfilesKnown, NEW r \in Ref, r.id <= created,
           DaemonStep
    PROVE  /\ ProfilesKnown'
           /\ features' = features /\ created' >= created
           /\ Identifies(r) => Identifies(r)'
<1> USE DEF ProfilesKnown
<1>1. CASE UNCHANGED daemon
  BY <1>1 DEF daemon, Identifies
<1>2. CASE \E p \in profiles : Activate(p)
  BY <1>2 DEF Activate, Identifies
<1>3. CASE \E p \in profiles, who \in {"plugin", "other"} :
                BringUp(p, who)
  BY <1>3 DEF BringUp, Identifies
<1>4. CASE TakeDown
  BY <1>4 DEF TakeDown, Identifies
<1>5. CASE \E p \in profiles : Remove(p)
  BY <1>5 DEF Remove, Identifies
<1>6. CASE \E name \in Name, user \in User :
                /\ user = NoUser => name = DefaultName
                /\ Add(name, user)
  <2>1. PICK name \in Name, user \in User :
                /\ user = NoUser => name = DefaultName
                /\ Add(name, user)
    BY <1>6
  <2> DEFINE new == [key |-> created + 1, name |-> name, user |-> user]
  <2>2. /\ created' = created + 1 /\ profiles' = profiles \cup {new}
        /\ UNCHANGED <<features, active>>
    BY <2>1 DEF Add
  <2>3. new \in Profile /\ OwnerKnown(new)
    BY <2>1 DEF Profile, OwnerKnown
  <2>4. \A p \in profiles : p.key # new.key /\ new.key # r.id
    BY DEF Profile, Ref
  <2>5. created' \in Nat /\ created' >= created
    BY <2>2
  <2>6. \A p \in profiles' : p \in Profile /\ p.key <= created' /\ OwnerKnown(p)
    BY <2>2, <2>3 DEF Profile
  <2>7. \A p, q \in profiles' : p.key = q.key => p = q
    BY <2>2, <2>4
  <2>8. Identifies(r) => Identifies(r)'
    BY <2>2, <2>4 DEF Identifies, Ref
  <2> QED
    BY <2>2, <2>5, <2>6, <2>7, <2>8
<1>7. CASE EngineStep
  BY <1>7 DEF EngineStep, Identifies
<1> QED
  BY <1>1, <1>2, <1>3, <1>4, <1>5, <1>6, <1>7 DEF DaemonStep

(* A step of the daemon alone preserves the invariant. *)
LEMMA DaemonKeeps ==
    ASSUME Inv, DaemonStep, UNCHANGED <<desired, ref, seen>>,
           Choosing', UpIsDesired', LateKnown'
    PROVE  Inv'
<1>1. ref \in Ref /\ ref.id <= created
  BY DEF Inv, RefsKnown
<1>2. /\ ProfilesKnown'
      /\ features' = features /\ created' >= created
      /\ Identifies(ref) => Identifies(ref)'
  BY <1>1, DaemonSteps DEF Inv
<1>3. RefsKnown'
  BY <1>2 DEF Inv, RefsKnown, ProfilesKnown, Ref
<1>4. RefFollows'
  BY DEF Inv, RefFollows
<1>5. RefIdentifies'
  BY <1>2 DEF Inv, RefIdentifies, Identifies
<1> QED
  BY <1>2, <1>3, <1>4, <1>5 DEF Inv

(* An activation that gives up holds nothing. *)
LEMMA GivingUpKeeps ==
    ASSUME Inv, DaemonStep, GiveUp, LateKnown'
    PROVE  Inv'
<1>1. NoRef \in Ref /\ NoRef.id = 0
  <2>1. NoID \in Nat /\ NoName \in Name /\ NoUser \in User
    BY NamesAssumption, UsersAssumption DEF NoID
  <2> QED
    BY <2>1 DEF NoRef, Ref, NoID
<1>2. /\ desired' = NoRef /\ ref' = NoRef /\ seen' = NoRef
      /\ pc' \in {"down", "idle"}
  BY DEF GiveUp
<1>3. 0 <= created
  BY DEF Inv, ProfilesKnown
<1>4. ProfilesKnown' /\ features' = features /\ created' >= created
  BY <1>1, <1>3, DaemonSteps DEF Inv
<1>5. RefsKnown'
  BY <1>1, <1>2, <1>3, <1>4 DEF RefsKnown, ProfilesKnown, NoRef, NoID, Inv
<1>6. RefFollows' /\ RefIdentifies' /\ Choosing' /\ UpIsDesired'
  BY <1>2 DEF RefFollows, RefIdentifies, Choosing, UpIsDesired
<1> QED
  BY <1>4, <1>5, <1>6 DEF Inv

-----------------------------------------------------------------------------
(* References.                                                             *)

\* r names the profiles with its ID.
Sound(r) == r.id # NoID => Identifies(r)

(* What the daemon says of a profile is a reference, and identifies it.    *)
LEMMA RefOfProfile ==
    ASSUME ProfilesKnown, NEW p \in profiles
    PROVE  LET r == RefOf(p) IN
           /\ r \in Ref /\ r.id <= created
           /\ features.ids <=> r.id # NoID
           /\ r.name = p.name /\ r.user = p.user
           /\ Sound(r)
<1>1. /\ p \in Profile /\ p.key <= created
      /\ \A q \in profiles : p.key = q.key => p = q
  BY DEF ProfilesKnown
<1>2. CASE features.ids
  BY <1>1, <1>2
     DEF RefOf, Ref, Profile, Sound, Identifies, ProfilesKnown, NoID
<1>3. CASE ~features.ids
  BY <1>1, <1>3
     DEF RefOf, Ref, Profile, Sound, Identifies, ProfilesKnown, NoID
<1> QED
  BY <1>2, <1>3

(* A profile found for a connection's reference belongs to its user.       *)
LEMMA RefOfMatch ==
    ASSUME ProfilesKnown, NEW r \in Ref, NEW p \in Existing(r)
    PROVE  LET m == RefFromMatch(p, r.user) IN
           /\ m \in Ref /\ m.id <= created /\ m.user = r.user
           /\ features.ids <=> m.id # NoID
           /\ r.name \notin {NoName, DefaultName} => m.name = r.name /\ Sound(m)
<1> DEFINE m == RefFromMatch(p, r.user)
<1>1. p \in profiles /\ p.user \in {r.user, NoUser}
      /\ (r.name # NoName => p.name = r.name)
  BY DEF Existing, Listed
<1>2. LET o == RefOf(p) IN
      /\ o \in Ref /\ o.id <= created /\ (features.ids <=> o.id # NoID)
      /\ o.name = p.name /\ o.user = p.user /\ Sound(o)
  BY <1>1, RefOfProfile
<1>3. m = [id |-> RefOf(p).id, name |-> RefOf(p).name, user |-> r.user]
  BY <1>2 DEF RefFromMatch, Ref
<1>4. /\ m \in Ref /\ m.id <= created /\ m.user = r.user
      /\ features.ids <=> m.id # NoID
  BY <1>2, <1>3 DEF Ref
<1>5. ASSUME r.name \notin {NoName, DefaultName}
      PROVE  m.name = r.name /\ Sound(m)
  <2>1. p.user = r.user
    BY <1>1, <1>5 DEF ProfilesKnown, OwnerKnown
  <2> QED
    BY <2>1, <1>1, <1>2, <1>3, <1>5 DEF Sound, Identifies
<1> QED
  BY <1>4, <1>5

(* Completing a reference keeps the fields it has, and stays sound.        *)
LEMMA FillKeeps ==
    ASSUME NEW a \in Ref, NEW d \in Ref, NEW n \in Nat,
           a.id <= n, d.id <= n,
           d.name # NoName, d.user # NoUser
    PROVE  LET r == FillMissing(a, d) IN
           /\ r \in Ref /\ r.id <= n /\ r.name = d.name /\ r.user = d.user
           /\ Sound(a) /\ Sound(d) => Sound(r)
           /\ a.id = NoID \/ d.id # NoID => r = d
<1> DEFINE r == FillMissing(a, d)
<1>1. CASE ~MatchesDesired(a, d)
  BY <1>1 DEF FillMissing
<1>2. CASE MatchesDesired(a, d)
  <2>1. a.name = d.name /\ a.user = d.user
    BY <1>2 DEF MatchesDesired
  <2>2. r = [id |-> IF d.id = NoID THEN a.id ELSE d.id,
             name |-> d.name, user |-> d.user]
    BY <1>2 DEF FillMissing
  <2> QED
    BY <2>1, <2>2 DEF Ref, Sound, Identifies, NoID
<1> QED
  BY <1>1, <1>2

(* Completing a reference makes a reference. *)
LEMMA FillTyped ==
    ASSUME NEW a \in Ref, NEW d \in Ref, NEW n \in Nat, a.id <= n, d.id <= n
    PROVE  FillMissing(a, d) \in Ref /\ FillMissing(a, d).id <= n
BY DEF FillMissing, Ref

-----------------------------------------------------------------------------
(* The steps of an activation.                                             *)

(* The reference is completed and what identifies it is sound.             *)
LEMMA RefChanges ==
    ASSUME Inv, UNCHANGED <<daemon, late, desired>>,
           ref' \in Ref, ref'.id <= created,
           seen' \in Ref, seen'.id <= created, ~features.ids => seen'.id = NoID,
           desired # NoRef =>
                /\ ref'.name = ref.name /\ ref'.user = ref.user /\ Sound(ref'),
           Choosing', UpIsDesired'
    PROVE  Inv'
<1>1. ProfilesKnown' /\ LateKnown' /\ RefsKnown'
  BY DEF Inv, ProfilesKnown, LateKnown, RefsKnown, daemon
<1>2. RefFollows'
  BY DEF Inv, RefFollows
<1>3. RefIdentifies'
  BY DEF Inv, RefIdentifies, Sound, Identifies, daemon
<1> QED
  BY <1>1, <1>2, <1>3 DEF Inv

(* Nothing of the activation's choice changes.                             *)
LEMMA NothingChanges ==
    ASSUME Inv, UNCHANGED <<daemon, late, desired, ref, seen>>,
           Choosing', UpIsDesired'
    PROVE  Inv'
<1>1. LateKnown'
  BY DEF Inv, LateKnown
<1> QED
  BY <1>1, DaemonKeeps DEF DaemonStep

(* A connection's call reaches a profile of its name and of its user.      *)
LEMMA Reached ==
    ASSUME Inv, desired # NoRef, NEW p \in Addressed(ref)
    PROVE  p \in profiles /\ p.name = desired.name /\ p.user = desired.user
<1>1. /\ ref.name = desired.name /\ ref.user = desired.user
      /\ desired.name \notin {NoName, DefaultName}
  BY DEF Inv, RefFollows
<1>2. CASE ref.id # NoID
  <2>1. p \in profiles /\ p.key = ref.id
    BY <1>2 DEF Addressed, Named
  <2> QED
    BY <2>1, <1>1, <1>2 DEF Inv, RefIdentifies
<1>3. CASE ref.id = NoID
  <2>1. p \in profiles /\ p.name = ref.name /\ p.user \in {ref.user, NoUser}
    BY <1>1, <1>3 DEF Addressed, Named, Listed
  <2>2. p.user # NoUser
    BY <2>1, <1>1 DEF Inv, ProfilesKnown, OwnerKnown
  <2> QED
    BY <2>1, <2>2, <1>1
<1> QED
  BY <1>2, <1>3

(* The invariant holds initially. *)
LEMMA InitKnown == Init => Inv
<1> SUFFICES ASSUME Init PROVE Inv
  OBVIOUS
<1>1. ProfilesKnown
  <2>1. profiles \in InitialProfiles /\ created = Cardinality(profiles)
    BY DEF Init, DaemonInit
  <2>2. created \in Nat
    BY <2>1, InitialProfilesAssumption, FS_CardinalityType
  <2> QED
    BY <2>1, <2>2, InitialProfilesAssumption, FeaturesAssumption
       DEF Init, DaemonInit, ProfilesKnown
<1>2. NoRef \in Ref /\ NoRef.id = 0 /\ NoID = 0
  BY NamesAssumption, UsersAssumption DEF NoRef, Ref, NoID
<1>3. desired = NoRef /\ ref = NoRef /\ seen = NoRef /\ pc = "idle" /\ late = {}
  BY DEF Init
<1>4. RefsKnown
  BY <1>1, <1>2, <1>3 DEF RefsKnown, ProfilesKnown
<1> QED
  BY <1>1, <1>3, <1>4
     DEF Inv, RefFollows, RefIdentifies, Choosing, LateKnown, UpIsDesired

(* A call that is executed without an answer, or later, or never.          *)
LEMMA UnansweredKeeps ==
    ASSUME Inv, NEW op, GiveUp,
           op = "add" => ref.name \in Name /\ ref.user \in User \ {NoUser},
           \/ DaemonStep /\ UNCHANGED late
           \/ late' = late \cup {[op |-> op, ref |-> ref]} /\ UNCHANGED daemon
    PROVE  Inv'
<1>1. LateKnown'
  BY DEF Inv, LateKnown
<1> QED
  BY <1>1, GivingUpKeeps DEF DaemonStep

(* What a connection asks for has a name and a user. *)
LEMMA StartKeeps ==
    ASSUME Inv, NEW d \in Desires, Start(d)
    PROVE  Inv'
<1> DEFINE asked == IF d.name # NoName /\ d.user = NoUser
                    THEN [d EXCEPT !.user = ProcessUser] ELSE d
<1>1. /\ d \in [id : {NoID}, name : Name, user : User]
      /\ d = NoRef \/ d.name \notin {NoName, DefaultName}
  BY DesiresAssumption
<1>2. asked \in Ref /\ asked.id = NoID /\ asked.name = d.name
  BY <1>1, ProcessUserAssumption DEF Ref, NoID
<1>3. d = NoRef => asked = NoRef
  BY DEF NoRef
<1>4. d # NoRef => /\ asked.name \notin {NoName, DefaultName}
                   /\ asked.user # NoUser /\ asked # NoRef
  BY <1>1, ProcessUserAssumption DEF NoRef
<1>5. /\ UNCHANGED <<daemon, late, seen>> /\ ref' = desired'
      /\ desired' = IF features.noProfiles THEN NoRef ELSE asked
      /\ pc' = IF features.noProfiles \/ d = NoRef THEN "login" ELSE "prepare"
  BY DEF Start, Goto
<1>6. NoRef \in Ref /\ NoRef.id = NoID
  BY NamesAssumption, UsersAssumption DEF NoRef, Ref, NoID
<1>7. desired' \in Ref /\ desired'.id = NoID
  BY <1>2, <1>5, <1>6
<1>8. ProfilesKnown' /\ LateKnown'
  BY <1>5 DEF Inv, ProfilesKnown, LateKnown, daemon
<1>9. RefsKnown'
  BY <1>5, <1>7 DEF Inv, RefsKnown, ProfilesKnown, daemon, NoID
<1>10. RefFollows' /\ RefIdentifies' /\ Choosing' /\ UpIsDesired'
  BY <1>2, <1>3, <1>4, <1>5, <1>7
     DEF RefFollows, RefIdentifies, Choosing, UpIsDesired, Succeeding
<1> QED
  BY <1>8, <1>9, <1>10 DEF Inv

(* The active profile, as the daemon tells it, completes the reference.    *)
LEMMA ActiveFills ==
    ASSUME Inv
    PROVE  LET a == RefOf(active)
               r == FillMissing(a, ref)
           IN  /\ a \in Ref /\ a.id <= created /\ (~features.ids => a.id = NoID)
               /\ r \in Ref /\ r.id <= created
               /\ desired # NoRef =>
                    /\ r.name = ref.name /\ r.user = ref.user /\ Sound(r)
<1> DEFINE a == RefOf(active)
           r == FillMissing(a, ref)
<1>1. /\ a \in Ref /\ a.id <= created /\ (~features.ids => a.id = NoID)
      /\ Sound(a)
  BY RefOfProfile DEF Inv, ProfilesKnown
<1>2. ref \in Ref /\ ref.id <= created /\ created \in Nat
  BY DEF Inv, RefsKnown, ProfilesKnown
<1>3. r \in Ref /\ r.id <= created
  BY <1>1, <1>2, FillTyped
<1>4. ASSUME desired # NoRef
      PROVE  r.name = ref.name /\ r.user = ref.user /\ Sound(r)
  <2>1. ref.name # NoName /\ ref.user # NoUser
    BY <1>4 DEF Inv, RefFollows
  <2>2. Sound(ref)
    BY <1>4 DEF Inv, RefIdentifies, Sound, Identifies
  <2> QED
    BY <1>1, <1>2, <2>1, <2>2, FillKeeps
<1> QED
  BY <1>1, <1>3, <1>4

(* Before the switch: the active profile and the status are read.          *)
LEMMA PrepareKeeps ==
    ASSUME Inv, PrepareActivation
    PROVE  Inv'
<1>1. /\ UNCHANGED <<daemon, late, desired>> /\ pc = "prepare"
      /\ ref' = FillMissing(RefOf(active), ref) /\ seen' = RefOf(active)
      /\ pc' \in {"ensure", "prepareStatus"}
  BY DEF PrepareActivation, Goto
<1>2. Choosing' /\ UpIsDesired'
  BY <1>1 DEF Inv, Choosing, UpIsDesired, Succeeding
<1> QED
  BY <1>1, <1>2, ActiveFills, RefChanges

(* A conflict ends the activation. *)
LEMMA ConflictKeeps ==
    ASSUME Inv,
           \/ CheckConflict("prepareStatus", "ensure")
           \/ CheckConflict("resolveStatus", "resolveList")
    PROVE  Inv'
<1>1. UNCHANGED <<daemon, late>>
  BY DEF CheckConflict
<1>2. CASE GiveUp
  BY <1>1, <1>2, GivingUpKeeps DEF DaemonStep, Inv, LateKnown
<1>3. CASE ~GiveUp
  <2>1. /\ UNCHANGED <<desired, ref, seen>>
        /\ \/ pc = "prepareStatus" /\ pc' = "ensure"
           \/ pc' = "resolveList"
    BY <1>3 DEF CheckConflict
  <2>2. Choosing' /\ UpIsDesired'
    BY <2>1 DEF Inv, Choosing, UpIsDesired, Succeeding
  <2> QED
    BY <1>1, <2>1, <2>2, NothingChanges
<1> QED
  BY <1>2, <1>3

(* An existing profile of the connection's name and user is taken.         *)
LEMMA EnsureKeeps ==
    ASSUME Inv, EnsureExists
    PROVE  Inv'
<1>1. UNCHANGED <<daemon, late>> /\ pc = "ensure"
  BY DEF EnsureExists
<1>2. desired # NoRef
  BY <1>1 DEF Inv, Choosing
<1>3. CASE GiveUp
  BY <1>1, <1>3, GivingUpKeeps DEF DaemonStep, Inv, LateKnown
<1>4. CASE pc' = "add" /\ UNCHANGED <<ref, desired, seen, brought>>
  <2>1. Choosing' /\ UpIsDesired'
    BY <1>2, <1>4 DEF Choosing, UpIsDesired, Succeeding
  <2> QED
    BY <1>1, <1>4, <2>1, NothingChanges
<1>5. ASSUME NEW p \in Existing(ref),
             pc' = "switch", ref' = RefFromMatch(p, ref.user),
             UNCHANGED <<desired, seen, brought>>
      PROVE  Inv'
  <2>1. /\ ref' \in Ref /\ ref'.id <= created
        /\ ref'.name = ref.name /\ ref'.user = ref.user /\ Sound(ref')
    BY <1>2, <1>5, RefOfMatch DEF Inv, RefsKnown, RefFollows
  <2>2. /\ seen' \in Ref /\ seen'.id <= created
        /\ ~features.ids => seen'.id = NoID
    BY <1>5 DEF Inv, RefsKnown
  <2>3. Choosing' /\ UpIsDesired'
    BY <1>2, <1>5 DEF Choosing, UpIsDesired, Succeeding
  <2> QED
    BY <1>1, <1>5, <2>1, <2>2, <2>3, RefChanges
<1> QED
  BY <1>3, <1>4, <1>5 DEF EnsureExists

(* The profile that is created has the connection's name and user.         *)
LEMMA AddKeeps ==
    ASSUME Inv, AddProfile
    PROVE  Inv'
<1> DEFINE Exec == Add(ref.name, ref.user)
           Answered ==
                /\ pc' = "switch"
                /\ ref' = [ref EXCEPT !.id = IF features.ids THEN created + 1
                                             ELSE @]
                /\ UNCHANGED <<desired, seen, attempts, loggedIn, configured,
                               brought>>
<1>1. /\ pc = "add"
      /\ \/ Exec /\ Answered /\ UNCHANGED late
         \/ GiveUp /\ Exec /\ UNCHANGED late
         \/ /\ GiveUp /\ UNCHANGED daemon
            /\ late' = late \cup {[op |-> "add", ref |-> ref]}
  BY DEF AddProfile, Call
<1>2. /\ desired # NoRef /\ ref.name = desired.name /\ ref.user = desired.user
      /\ ref.name \in Name /\ ref.user \in User \ {NoUser} /\ ref \in Ref
  BY <1>1 DEF Inv, Choosing, RefFollows, RefsKnown, Ref
<1>3. Exec => DaemonStep
  BY <1>2 DEF DaemonStep
<1>4. ASSUME Exec, Answered, UNCHANGED late
      PROVE  Inv'
  <2>1. /\ UNCHANGED <<desired, seen, late, features>>
        /\ ref' = [id |-> IF features.ids THEN created + 1 ELSE ref.id,
                   name |-> ref.name, user |-> ref.user]
        /\ created' = created + 1
        /\ profiles' = profiles \cup
                {[key |-> created + 1, name |-> ref.name, user |-> ref.user]}
    BY <1>2, <1>4 DEF Add, Ref
  <2>2. DaemonStep /\ created \in Nat /\ ref.id <= created /\ seen \in Ref
        /\ seen.id <= created
    BY <1>3, <1>4 DEF Inv, ProfilesKnown, RefsKnown
  <2>3. ProfilesKnown'
    BY <1>2, <2>2, DaemonSteps DEF Inv
  <2>4. RefsKnown' /\ RefFollows'
    BY <1>2, <2>1, <2>2 DEF Inv, RefsKnown, RefFollows, Ref
  <2>5. RefIdentifies'
    <3>1. CASE features.ids
      <4>1. \A p \in profiles : p.key # ref'.id
        BY <2>1, <2>2, <3>1 DEF Inv, ProfilesKnown, Profile
      <4> QED
        BY <2>1, <4>1 DEF RefIdentifies
    <3>2. CASE ~features.ids
      <4>1. Identifies(ref) => \A p \in profiles' :
                p.key = ref.id => p.name = ref.name /\ p.user = ref.user
        BY <1>2, <2>2, DaemonSteps DEF Inv, Identifies
      <4>2. ref' = ref
        BY <1>2, <2>1, <3>2 DEF Ref
      <4> QED
        BY <1>2, <2>1, <4>1, <4>2 DEF Inv, RefIdentifies, Identifies
    <3> QED
      BY <3>1, <3>2
  <2>6. Choosing' /\ UpIsDesired' /\ LateKnown'
    BY <1>2, <1>4
       DEF Choosing, UpIsDesired, Succeeding, Inv, LateKnown
  <2> QED
    BY <2>3, <2>4, <2>5, <2>6 DEF Inv
<1>5. GiveUp => Inv'
  BY <1>1, <1>2, <1>3, UnansweredKeeps DEF Answered
<1> QED
  BY <1>1, <1>4, <1>5

(* The ID of the profile that became active is kept.                       *)
LEMMA SwitchKeeps ==
    ASSUME Inv, SwitchProfile
    PROVE  Inv'
<1>1. PICK p \in Addressed(ref) :
        \/ /\ Activate(p) /\ UNCHANGED late
           /\ pc' = "login" /\ ref' = [ref EXCEPT !.id = RefOf(p).id]
           /\ UNCHANGED <<desired, seen, brought>>
        \/ GiveUp /\ Activate(p) /\ UNCHANGED late
        \/ /\ GiveUp /\ UNCHANGED daemon
           /\ late' = late \cup {[op |-> "switch", ref |-> ref]}
  BY DEF SwitchProfile, Call
<1>2. desired # NoRef
  BY DEF SwitchProfile, Inv, Choosing
<1>3. p \in profiles /\ p.name = ref.name /\ p.user = ref.user
  BY <1>2, Reached DEF Inv, RefFollows
<1>4. Activate(p) => DaemonStep
  BY <1>3 DEF DaemonStep
<1>5. ASSUME GiveUp PROVE Inv'
  <2>1. \/ DaemonStep /\ UNCHANGED late
        \/ /\ late' = late \cup {[op |-> "switch", ref |-> ref]}
           /\ UNCHANGED daemon
    BY <1>1, <1>4
  <2> QED
    BY <1>5, <2>1, UnansweredKeeps
<1>6. ASSUME Activate(p), UNCHANGED late,
             pc' = "login", ref' = [ref EXCEPT !.id = RefOf(p).id],
             UNCHANGED <<desired, seen, brought>>
      PROVE  Inv'
  <2>1. /\ RefOf(p) \in Ref /\ RefOf(p).id <= created /\ Sound(RefOf(p))
        /\ RefOf(p).name = p.name /\ RefOf(p).user = p.user
    BY <1>3, RefOfProfile DEF Inv
  <2>2. ref' = RefOf(p)
    BY <1>3, <1>6, <2>1 DEF Inv, RefsKnown, Ref
  <2>3. profiles' = profiles /\ created' = created /\ features' = features
    BY <1>6 DEF Activate
  <2>4. ProfilesKnown'
    BY <1>3, <1>6, <2>3 DEF Activate, Inv, ProfilesKnown
  <2>5. RefsKnown' /\ RefFollows' /\ RefIdentifies'
    BY <1>3, <1>6, <2>1, <2>2, <2>3
       DEF Inv, RefsKnown, RefFollows, RefIdentifies, Sound, Identifies
  <2>6. Choosing' /\ UpIsDesired' /\ LateKnown'
    BY <1>6 DEF Choosing, UpIsDesired, Succeeding, Inv, LateKnown
  <2> QED
    BY <2>4, <2>5, <2>6 DEF Inv
<1> QED
  BY <1>1, <1>5, <1>6

(* The login and the settings leave the reference alone.                   *)
LEMMA ConfigureKeeps ==
    ASSUME Inv, Login \/ UpdateProfile
    PROVE  Inv'
<1>1. /\ UNCHANGED <<daemon, late, desired, ref, seen>>
      /\ pc' \in {"resolve", "update"}
  BY DEF Login, UpdateProfile, Goto
<1>2. Choosing' /\ UpIsDesired'
  BY <1>1 DEF Choosing, UpIsDesired, Succeeding
<1> QED
  BY <1>1, <1>2, NothingChanges

(* The active profile is taken if it is the desired one.                   *)
LEMMA ResolveKeeps ==
    ASSUME Inv, Resolve
    PROVE  Inv'
<1> DEFINE a == RefOf(active)
<1>1. /\ UNCHANGED <<daemon, late, desired>>
      /\ pc' \in {"up", "resolveStatus"}
      /\ \/ UNCHANGED <<ref, seen>>
         \/ ref = NoRef /\ ref' = a /\ seen' = a
         \/ ref' = FillMissing(a, ref) /\ seen' = a
  BY DEF Resolve, Goto
<1>2. Choosing' /\ UpIsDesired'
  BY <1>1 DEF Choosing, UpIsDesired, Succeeding
<1>3. CASE UNCHANGED <<ref, seen>>
  BY <1>1, <1>2, <1>3, NothingChanges
<1>4. CASE ref = NoRef /\ ref' = a /\ seen' = a
  <2>1. desired = NoRef
    BY <1>4 DEF Inv, RefFollows, NoRef
  <2> QED
    BY <1>1, <1>2, <1>4, <2>1, ActiveFills, RefChanges
<1>5. CASE ref' = FillMissing(a, ref) /\ seen' = a
  BY <1>1, <1>2, <1>5, ActiveFills, RefChanges
<1> QED
  BY <1>1, <1>3, <1>4, <1>5

(* Otherwise the one profile of its name and user is taken.                *)
LEMMA ResolveExistingKeeps ==
    ASSUME Inv, ResolveExisting
    PROVE  Inv'
<1>1. PICK p \in Existing(ref) :
        /\ pc' = "up" /\ ref' = FillMissing(seen, RefFromMatch(p, ref.user))
        /\ UNCHANGED <<daemon, late, desired, seen>>
  BY DEF ResolveExisting
<1> DEFINE m == RefFromMatch(p, ref.user)
<1>2. /\ m \in Ref /\ m.id <= created /\ m.user = ref.user
      /\ features.ids <=> m.id # NoID
      /\ ref.name \notin {NoName, DefaultName} => m.name = ref.name /\ Sound(m)
  BY RefOfMatch DEF Inv, RefsKnown
<1>3. /\ seen \in Ref /\ seen.id <= created /\ (~features.ids => seen.id = NoID)
      /\ created \in Nat
  BY DEF Inv, RefsKnown, ProfilesKnown
<1>4. ref' \in Ref /\ ref'.id <= created
  BY <1>1, <1>2, <1>3, FillTyped
<1>5. ASSUME desired # NoRef
      PROVE  ref'.name = ref.name /\ ref'.user = ref.user /\ Sound(ref')
  <2>1. ref.name \notin {NoName, DefaultName} /\ ref.user # NoUser
    BY <1>5 DEF Inv, RefFollows
  <2>2. m.name # NoName /\ m.user # NoUser /\ Sound(m)
    BY <1>2, <2>1
  <2>3. ref' = m
    BY <1>1, <1>2, <1>3, <2>2, FillKeeps
  <2> QED
    BY <1>2, <2>1, <2>2, <2>3
<1>6. Choosing' /\ UpIsDesired'
  BY <1>1 DEF Choosing, UpIsDesired, Succeeding
<1> QED
  BY <1>1, <1>3, <1>4, <1>5, <1>6, RefChanges

(* What is brought up is what the reference reaches.                       *)
LEMMA UpKeeps ==
    ASSUME Inv, Up
    PROVE  Inv'
<1>1. PICK p \in Addressed(ref) :
        \/ /\ BringUp(p, "plugin") /\ UNCHANGED late
           /\ pc' = "ready" /\ brought' = p
           /\ UNCHANGED <<desired, ref, seen>>
        \/ GiveUp /\ BringUp(p, "plugin") /\ UNCHANGED late
        \/ /\ GiveUp /\ UNCHANGED daemon
           /\ late' = late \cup {[op |-> "up", ref |-> ref]}
  BY DEF Up, Call
<1>2. p \in profiles
  BY DEF Addressed, Named, Listed, Inv, ProfilesKnown
<1>3. BringUp(p, "plugin") => DaemonStep
  BY <1>2 DEF DaemonStep
<1>4. GiveUp => Inv'
  BY <1>1, <1>3, UnansweredKeeps
<1>5. ASSUME BringUp(p, "plugin"), UNCHANGED late,
             pc' = "ready", brought' = p, UNCHANGED <<desired, ref, seen>>
      PROVE  Inv'
  <2>1. profiles' = profiles /\ created' = created /\ features' = features
        /\ active' = p
    BY <1>5 DEF BringUp
  <2>2. ProfilesKnown'
    BY <1>2, <2>1 DEF Inv, ProfilesKnown
  <2>3. RefsKnown' /\ RefFollows' /\ RefIdentifies' /\ LateKnown'
    BY <1>5, <2>1
       DEF Inv, RefsKnown, RefFollows, RefIdentifies, LateKnown
  <2>4. Choosing' /\ UpIsDesired'
    BY <1>5, Reached DEF Choosing, UpIsDesired
  <2> QED
    BY <2>2, <2>3, <2>4 DEF Inv
<1> QED
  BY <1>1, <1>4, <1>5

(* The activation waits, ends or fails. *)
LEMMA RestKeeps ==
    ASSUME Inv, WaitForReady \/ EndSession \/ Down \/ Fail
    PROVE  Inv'
<1>1. CASE WaitForReady
  <2>1. /\ UNCHANGED <<daemon, late, desired, ref, seen, brought>>
        /\ pc = "ready" /\ pc' = "session"
    BY <1>1 DEF WaitForReady, Goto
  <2>2. Choosing' /\ UpIsDesired'
    BY <2>1 DEF Inv, Choosing, UpIsDesired, Succeeding
  <2> QED
    BY <2>1, <2>2, NothingChanges
<1>2. CASE EndSession \/ Fail
  BY <1>2, GivingUpKeeps DEF EndSession, Fail, DaemonStep, Inv, LateKnown
<1>3. CASE Down
  <2>1. /\ TakeDown \/ UNCHANGED daemon
        /\ UNCHANGED <<desired, ref, seen, brought, late>> /\ pc' = "idle"
    BY <1>3 DEF Down, Goto
  <2>2. Choosing' /\ UpIsDesired' /\ LateKnown'
    BY <2>1 DEF Inv, Choosing, UpIsDesired, Succeeding, LateKnown
  <2> QED
    BY <2>1, <2>2, DaemonKeeps DEF DaemonStep
<1> QED
  BY <1>1, <1>2, <1>3

(* Other clients and the engine. *)
LEMMA EnvironmentKeeps ==
    ASSUME Inv, Environment
    PROVE  Inv'
<1>1. /\ UNCHANGED <<plugin, late>>
      /\ \/ OtherClient(pc \in {"idle", "session"})
         \/ EngineStep
  BY DEF Environment
<1>2. DaemonStep
  <2>1. CASE EngineStep
    BY <2>1 DEF DaemonStep
  <2>2. CASE \E p \in profiles : Add(p.name, p.user)
    BY <2>2 DEF DaemonStep, Inv, ProfilesKnown, Profile, OwnerKnown
  <2>3. CASE TakeDown
    BY <2>3 DEF DaemonStep
  <2>4. CASE \E p \in profiles :
                BringUp(p, "other") \/ Activate(p) \/ Remove(p)
    BY <2>4 DEF DaemonStep
  <2> QED
    BY <1>1, <2>1, <2>2, <2>3, <2>4 DEF OtherClient
<1>3. Choosing' /\ UpIsDesired' /\ LateKnown'
  BY <1>1 DEF Inv, Choosing, UpIsDesired, Succeeding, LateKnown, plugin
<1> QED
  BY <1>1, <1>2, <1>3, DaemonKeeps DEF plugin

(* A call that had failed is executed. *)
LEMMA LateKeeps ==
    ASSUME Inv, NEW c \in late, ExecuteLate(c)
    PROVE  Inv'
<1>1. /\ UNCHANGED plugin /\ late' = late \ {c}
      /\ \/ c.op = "add" /\ Add(c.ref.name, c.ref.user)
         \/ \E p \in Addressed(c.ref) : Activate(p) \/ BringUp(p, "plugin")
  BY DEF ExecuteLate
<1>2. DaemonStep
  <2>1. CASE c.op = "add" /\ Add(c.ref.name, c.ref.user)
    <3>1. c.ref.name \in Name /\ c.ref.user \in User \ {NoUser}
      BY <2>1 DEF Inv, LateKnown
    <3> QED
      BY <2>1, <3>1 DEF DaemonStep
  <2>2. CASE \E p \in Addressed(c.ref) : Activate(p) \/ BringUp(p, "plugin")
    <3>1. PICK p \in Addressed(c.ref) : Activate(p) \/ BringUp(p, "plugin")
      BY <2>2
    <3>2. p \in profiles
      BY DEF Addressed, Named, Listed, Inv, ProfilesKnown
    <3> QED
      BY <3>1, <3>2 DEF DaemonStep
  <2> QED
    BY <1>1, <2>1, <2>2
<1>3. Choosing' /\ UpIsDesired' /\ LateKnown'
  BY <1>1 DEF Inv, Choosing, UpIsDesired, Succeeding, LateKnown, plugin
<1> QED
  BY <1>1, <1>2, <1>3, DaemonKeeps DEF plugin

-----------------------------------------------------------------------------

(* Every step preserves the invariant. *)
LEMMA NextKnown == Inv /\ [Next]_vars => Inv'
<1> SUFFICES ASSUME Inv, [Next]_vars PROVE Inv'
  OBVIOUS
<1>1. CASE Activation
  <2>1. CASE \E d \in Desires : Start(d)
    BY <2>1, StartKeeps
  <2>2. CASE PrepareActivation \/ EnsureExists \/ AddProfile \/ SwitchProfile
    BY <2>2, PrepareKeeps, EnsureKeeps, AddKeeps, SwitchKeeps
  <2>3. CASE \/ CheckConflict("prepareStatus", "ensure")
             \/ CheckConflict("resolveStatus", "resolveList")
    BY <2>3, ConflictKeeps
  <2>4. CASE \/ Login \/ UpdateProfile \/ Resolve \/ ResolveExisting \/ Up
    BY <2>4, ConfigureKeeps, ResolveKeeps, ResolveExistingKeeps, UpKeeps
  <2>5. CASE WaitForReady \/ EndSession \/ Down \/ Fail
    BY <2>5, RestKeeps
  <2> QED
    BY <1>1, <2>1, <2>2, <2>3, <2>4, <2>5 DEF Activation
<1>2. CASE Environment
  BY <1>2, EnvironmentKeeps
<1>3. CASE \E c \in late : ExecuteLate(c)
  BY <1>3, LateKeeps
<1>4. CASE UNCHANGED vars
  <2>1. UNCHANGED <<daemon, late, pc, desired, ref, seen, brought>>
    BY <1>4 DEF vars, plugin
  <2>2. Choosing' /\ UpIsDesired'
    BY <2>1 DEF Inv, Choosing, UpIsDesired, Succeeding
  <2> QED
    BY <2>1, <2>2, NothingChanges
<1> QED
  BY <1>1, <1>2, <1>3, <1>4 DEF Next

(* Whatever other clients do to the daemon's profiles between its calls,   *)
(* and whenever its failed calls are executed, an activation brings up the *)
(* profile of its connection's name and user (profile.Resolve).            *)
THEOREM ProfileCorrect == Spec => []UpIsDesired
<1>1. Inv => UpIsDesired
  BY DEF Inv
<1> QED
  BY InitKnown, NextKnown, <1>1, PTL DEF Spec

-----------------------------------------------------------------------------
(* By ID.                                                                  *)

\* The features stay, and nothing but an activation's own calls moves it.
LEMMA OthersKeepAsked ==
    ASSUME AskedByID, UNCHANGED <<features, pc, desired, ref>>
    PROVE  AskedByID'
BY DEF AskedByID

\* A daemon's version and settings do not change.
LEMMA DaemonKeepsFeatures ==
    ASSUME [Next]_vars PROVE features' = features
<1>1. CASE Activation
  BY <1>1 DEF Activation, Start, PrepareActivation, CheckConflict,
     EnsureExists, AddProfile, SwitchProfile, Login, UpdateProfile, Resolve,
     ResolveExisting, Up, WaitForReady, EndSession, Down, Fail, Call, Add,
     Activate, BringUp, TakeDown, daemon
<1>2. CASE Environment
  BY <1>2 DEF Environment, OtherClient, EngineStep, BringUp, TakeDown,
     Activate, Remove, Add
<1>3. CASE \E c \in late : ExecuteLate(c)
  BY <1>3 DEF ExecuteLate, Add, Activate, BringUp
<1>4. CASE UNCHANGED vars
  BY <1>4 DEF vars, daemon
<1> QED
  BY <1>1, <1>2, <1>3, <1>4 DEF Next

\* An activation that gives up asks nothing any more.
LEMMA GivingUpAsks == GiveUp => AskedByID'
BY DEF GiveUp, AskedByID

\* The profile that is found or created has an ID, and the switch keeps one.
LEMMA ChoosingAsks ==
    ASSUME Inv, AskedByID, features' = features,
           EnsureExists \/ AddProfile \/ SwitchProfile
    PROVE  AskedByID'
<1>1. CASE GiveUp
  BY <1>1, GivingUpAsks
<1>2. CASE EnsureExists /\ ~GiveUp
  <2>1. CASE pc' = "add"
    BY <2>1 DEF AskedByID
  <2>2. CASE \E p \in Existing(ref) : ref' = RefFromMatch(p, ref.user)
    BY <2>2, RefOfMatch DEF AskedByID, Inv, RefsKnown
  <2> QED
    BY <1>2, <2>1, <2>2 DEF EnsureExists
<1>3. CASE AddProfile /\ ~GiveUp
  <2>1. ref' = [ref EXCEPT !.id = IF features.ids THEN created + 1 ELSE @]
    BY <1>3 DEF AddProfile, Call
  <2>2. ref \in Ref /\ created \in Nat
    BY DEF Inv, RefsKnown, ProfilesKnown
  <2>3. features.ids => ref'.id # NoID
    BY <2>1, <2>2 DEF Ref, NoID
  <2> QED
    BY <2>3 DEF AskedByID
<1>4. CASE SwitchProfile /\ ~GiveUp
  <2>1. PICK p \in Addressed(ref) : ref' = [ref EXCEPT !.id = RefOf(p).id]
    BY <1>4 DEF SwitchProfile, Call
  <2>2. p \in profiles /\ ref \in Ref
    BY DEF Addressed, Named, Listed, Inv, ProfilesKnown, RefsKnown
  <2>3. features.ids => RefOf(p).id # NoID
    BY <2>2, RefOfProfile DEF Inv
  <2>4. ref'.id = RefOf(p).id
    BY <2>1, <2>2 DEF Ref
  <2> QED
    BY <2>3, <2>4 DEF AskedByID
<1> QED
  BY <1>1, <1>2, <1>3, <1>4

\* Resolve completes the reference, or takes it from an existing profile.
LEMMA ResolvingAsks ==
    ASSUME Inv, AskedByID, features' = features, Resolve \/ ResolveExisting
    PROVE  AskedByID'
<1> SUFFICES ASSUME features.ids, desired # NoRef PROVE ref'.id # NoID
  BY DEF AskedByID, Resolve, ResolveExisting
<1>1. CASE Resolve
  <2>1. ref.id # NoID
    BY <1>1 DEF Resolve, Goto, AskedByID
  <2>2. ref # NoRef
    BY <2>1 DEF NoRef
  <2>3. ref' = ref \/ ref' = FillMissing(RefOf(active), ref)
    BY <1>1, <2>2 DEF Resolve
  <2> QED
    BY <2>1, <2>3 DEF FillMissing
<1>2. CASE ResolveExisting
  <2>1. PICK p \in Existing(ref) :
            ref' = FillMissing(seen, RefFromMatch(p, ref.user))
    BY <1>2 DEF ResolveExisting
  <2>2. RefFromMatch(p, ref.user).id # NoID
    BY RefOfMatch DEF Inv, RefsKnown
  <2> QED
    BY <2>1, <2>2 DEF FillMissing
<1> QED
  BY <1>1, <1>2

\* Every step.
LEMMA NextAsks == Inv /\ AskedByID /\ [Next]_vars => AskedByID'
<1> SUFFICES ASSUME Inv, AskedByID, [Next]_vars PROVE AskedByID'
  OBVIOUS
<1>1. features' = features
  BY DaemonKeepsFeatures
<1>2. CASE Activation
  <2>1. CASE EnsureExists \/ AddProfile \/ SwitchProfile
    BY <1>1, <2>1, ChoosingAsks
  <2>2. CASE Resolve \/ ResolveExisting
    BY <1>1, <2>2, ResolvingAsks
  <2>3. CASE \/ CheckConflict("prepareStatus", "ensure")
             \/ CheckConflict("resolveStatus", "resolveList")
             \/ PrepareActivation \/ EndSession \/ Down \/ Fail
             \/ WaitForReady
    BY <2>3, GivingUpAsks DEF CheckConflict, PrepareActivation, EndSession,
       Down, Fail, WaitForReady, Goto, AskedByID
  <2>4. CASE \E d \in Desires : Start(d)
    <3>1. PICK d \in Desires : Start(d)
      BY <2>4
    <3>2. pc' = "login" => desired' = NoRef
      BY <3>1 DEF Start, Goto, NoRef
    <3>3. pc' \in {"login", "prepare"}
      BY <3>1 DEF Start, Goto
    <3> QED
      BY <3>2, <3>3 DEF AskedByID
  <2>5. CASE Login \/ UpdateProfile
    BY <1>1, <2>5 DEF Login, UpdateProfile, Goto, AskedByID
  <2>6. CASE Up
    BY <2>6, GivingUpAsks DEF Up, Call, AskedByID
  <2> QED
    BY <1>2, <2>1, <2>2, <2>3, <2>4, <2>5, <2>6 DEF Activation
<1>3. CASE Environment \/ (\E c \in late : ExecuteLate(c)) \/ UNCHANGED vars
  BY <1>1, <1>3, OthersKeepAsked DEF Environment, ExecuteLate, vars, plugin
<1> QED
  BY <1>2, <1>3 DEF Next

(* A daemon that has IDs is asked by ID from the switch on, however many   *)
(* profiles share the name and whoever changes them in between             *)
(* (EnsureExists, AddProfile, switchDaemonProfile, Resolve).               *)
THEOREM AskedByIDCorrect == Spec => []AskedByID
<1>1. Init => AskedByID
  BY DEF Init, AskedByID
<1> QED
  BY InitKnown, NextKnown, NextAsks, <1>1, PTL DEF Spec

-----------------------------------------------------------------------------
(* Types.                                                                  *)

(* Every step is one of the daemon's, or leaves the daemon alone.          *)
LEMMA NextIsDaemonStep ==
    ASSUME Inv, [Next]_vars
    PROVE  DaemonStep
<1>1. \A r : Addressed(r) \subseteq profiles
  BY DEF Addressed, Named, Listed, Inv, ProfilesKnown
<1>2. CASE Activation
  <2>1. CASE UNCHANGED daemon
    BY <2>1 DEF DaemonStep
  <2>2. CASE AddProfile
    <3>1. Add(ref.name, ref.user) \/ UNCHANGED daemon
      BY <2>2 DEF AddProfile, Call
    <3>2. ref.name \in Name /\ ref.user \in User \ {NoUser}
      BY <2>2 DEF AddProfile, Inv, Choosing, RefFollows, RefsKnown, Ref
    <3> QED
      BY <3>1, <3>2 DEF DaemonStep
  <2>3. CASE SwitchProfile
    BY <1>1, <2>3 DEF SwitchProfile, Call, DaemonStep
  <2>4. CASE Up
    BY <1>1, <2>4 DEF Up, Call, DaemonStep
  <2>5. CASE Down
    BY <2>5 DEF Down, DaemonStep
  <2> QED
    BY <1>2, <2>1, <2>2, <2>3, <2>4, <2>5
       DEF Activation, Start, PrepareActivation, CheckConflict, EnsureExists,
           Login, UpdateProfile, Resolve, ResolveExisting, WaitForReady,
           EndSession, Fail
<1>3. CASE Environment
  <2>1. CASE EngineStep
    BY <2>1 DEF DaemonStep
  <2>2. CASE \E p \in profiles : Add(p.name, p.user)
    BY <2>2 DEF DaemonStep, Inv, ProfilesKnown, Profile, OwnerKnown
  <2>3. CASE TakeDown \/ \E p \in profiles :
                BringUp(p, "other") \/ Activate(p) \/ Remove(p)
    BY <2>3 DEF DaemonStep
  <2> QED
    BY <1>3, <2>1, <2>2, <2>3 DEF Environment, OtherClient
<1>4. CASE \E c \in late : ExecuteLate(c)
  <2>1. PICK c \in late : ExecuteLate(c)
    BY <1>4
  <2>2. CASE c.op = "add" /\ Add(c.ref.name, c.ref.user)
    <3>1. c.ref.name \in Name /\ c.ref.user \in User \ {NoUser}
      BY <2>2 DEF Inv, LateKnown
    <3> QED
      BY <2>2, <3>1 DEF DaemonStep
  <2>3. CASE \E p \in Addressed(c.ref) : Activate(p) \/ BringUp(p, "plugin")
    BY <1>1, <2>3 DEF DaemonStep
  <2> QED
    BY <2>1, <2>2, <2>3 DEF ExecuteLate
<1>5. CASE UNCHANGED vars
  BY <1>5 DEF vars, DaemonStep
<1> QED
  BY <1>2, <1>3, <1>4, <1>5 DEF Next

(* The daemon's own types. *)
LEMMA DaemonStepTyped ==
    ASSUME Inv, DaemonTypeOK, DaemonStep, ProfilesKnown'
    PROVE  DaemonTypeOK' /\ created' >= created
<1>1. created \in Nat /\ MaxKey \in Nat
  BY MaxKeyAssumption DEF Inv, ProfilesKnown
<1>2. /\ created' \in Key /\ created' >= created
      /\ link' \in {"off", "connecting", "connected"}
      /\ owner' \in {"none", "plugin", "other"}
      /\ owner' = "none" <=> link' = "off"
  <2>1. /\ created \in Key
        /\ link \in {"off", "connecting", "connected"}
        /\ owner \in {"none", "plugin", "other"}
        /\ owner = "none" <=> link = "off"
    BY DEF DaemonTypeOK
  <2>2. CASE UNCHANGED daemon
    BY <1>1, <2>1, <2>2 DEF daemon
  <2>3. CASE \E p \in profiles : Activate(p) \/ Remove(p)
    BY <1>1, <2>1, <2>3 DEF Activate, Remove, Stop
  <2>4. CASE \E p \in profiles, who \in {"plugin", "other"} : BringUp(p, who)
    BY <1>1, <2>1, <2>4 DEF BringUp
  <2>5. CASE TakeDown
    BY <1>1, <2>1, <2>5 DEF TakeDown, Stop
  <2>6. CASE \E name \in Name, user \in User : Add(name, user)
    BY <1>1, <2>1, <2>6 DEF Add, CanAdd, Key
  <2>7. CASE EngineStep
    BY <1>1, <2>1, <2>7 DEF EngineStep
  <2> QED
    BY <2>2, <2>3, <2>4, <2>5, <2>6, <2>7 DEF DaemonStep
<1>3. errors' \in BOOLEAN
  <2>1. errors \in BOOLEAN
    BY DEF DaemonTypeOK
  <2>2. errors' \in {errors, FALSE, Errors}
    BY Zenon DEF DaemonStep, daemon, Activate, BringUp, TakeDown, Stop, Remove,
       Add, EngineStep
  <2> QED
    BY <2>1, <2>2, ErrorsAssumption, Zenon
<1> QED
  BY <1>2, <1>3 DEF ProfilesKnown, DaemonTypeOK

Pcs == {"idle", "prepare", "prepareStatus", "ensure", "add", "switch",
        "login", "update", "resolve", "resolveStatus", "resolveList",
        "up", "ready", "session", "down"}

\* What TypeOK adds to Inv about the activation.
PluginTyped ==
    /\ pc \in Pcs
    /\ desired.id = NoID
    /\ attempts \in 0..MaxAttempts
    /\ \A p \in {loggedIn, configured, brought} : p.key \in 0..created
    /\ \A c \in late : c.op \in LateCalls

\* An activation that gives up is typed.
LEMMA GivingUpTyped ==
    ASSUME PluginTyped, GiveUp, created' \in Nat,
           \A c \in late' : c.op \in LateCalls
    PROVE  PluginTyped'
<1>1. pc' \in Pcs
  BY DEF GiveUp, Pcs
<1>2. desired'.id = NoID /\ attempts' \in 0..MaxAttempts
  BY DEF GiveUp, NoRef, PluginTyped
<1>3. \A p \in {loggedIn', configured', brought'} : p.key \in 0..created'
  BY DEF GiveUp, NoProfile
<1> QED
  BY <1>1, <1>2, <1>3 DEF PluginTyped

\* A call that changes the daemon takes a known profile.
LEMMA CallTyped ==
    ASSUME Inv, PluginTyped, AddProfile \/ SwitchProfile \/ Up,
           created \in Nat, created' \in Nat, created' >= created
    PROVE  PluginTyped'
<1>1. CASE GiveUp
  <2>1. \A c \in late' : c.op \in LateCalls
    BY DEF AddProfile, SwitchProfile, Up, Call, PluginTyped
  <2> QED
    BY <1>1, <2>1, GivingUpTyped
<1>2. CASE ~GiveUp
  <2>1. /\ UNCHANGED <<desired, attempts, loggedIn, configured, late>>
        /\ pc' \in Pcs
        /\ brought' = brought \/ brought' \in Addressed(ref)
    BY <1>2 DEF AddProfile, SwitchProfile, Up, Call, Pcs
  <2>2. \A p \in Addressed(ref) : p.key \in 0..created
    BY DEF Addressed, Named, Listed, Inv, ProfilesKnown, Profile
  <2> QED
    BY <2>1, <2>2 DEF PluginTyped
<1> QED
  BY <1>1, <1>2

\* The steps that leave the daemon alone.
LEMMA OwnStepTyped ==
    ASSUME Inv, PluginTyped, UNCHANGED <<daemon, late>>, created \in Nat,
           \/ \E d \in Desires : Start(d)
           \/ PrepareActivation \/ CheckConflict("prepareStatus", "ensure")
           \/ EnsureExists \/ Login \/ UpdateProfile \/ Resolve
           \/ CheckConflict("resolveStatus", "resolveList")
           \/ ResolveExisting \/ WaitForReady \/ EndSession \/ Fail
    PROVE  PluginTyped'
<1>1. CASE GiveUp
  BY <1>1, GivingUpTyped DEF daemon, PluginTyped
<1>2. CASE \E d \in Desires : Start(d)
  <2>1. PICK d \in Desires : Start(d)
    BY <1>2
  <2>2. d.id = NoID /\ d \in [id : {NoID}, name : Name, user : User]
    BY DesiresAssumption
  <2>3. desired' \in {NoRef, d, [d EXCEPT !.user = ProcessUser]}
    BY <2>1 DEF Start
  <2>4. desired'.id = NoID
    BY <2>2, <2>3 DEF NoRef
  <2>5. pc' \in Pcs /\ attempts' \in 0..MaxAttempts
    BY <2>1, MaxAttemptsAssumption DEF Start, Goto, Pcs, PluginTyped
  <2> QED
    BY <2>1, <2>4, <2>5 DEF Start, PluginTyped, daemon
<1>3. CASE Login \/ UpdateProfile
  <2>1. \A r : \A p \in Addressed(r) : p.key \in 0..created
    BY DEF Addressed, Named, Listed, Inv, ProfilesKnown, Profile
  <2> QED
    BY <1>3, <2>1 DEF Login, UpdateProfile, Goto, Pcs, PluginTyped, daemon
<1>4. CASE \/ PrepareActivation
           \/ EnsureExists /\ ~GiveUp
           \/ Resolve \/ ResolveExisting \/ WaitForReady
           \/ CheckConflict("prepareStatus", "ensure") /\ ~GiveUp
           \/ CheckConflict("resolveStatus", "resolveList") /\ ~GiveUp
  BY <1>4 DEF PrepareActivation, EnsureExists, Resolve, ResolveExisting,
              WaitForReady, CheckConflict, Goto, Pcs, PluginTyped, daemon
<1> QED
  BY <1>1, <1>2, <1>3, <1>4 DEF EndSession, Fail

(* Every step keeps the types. *)
LEMMA NextTyped ==
    Inv /\ DaemonTypeOK /\ PluginTyped /\ [Next]_vars
        => DaemonTypeOK' /\ PluginTyped'
<1> SUFFICES ASSUME Inv, DaemonTypeOK, PluginTyped, [Next]_vars
             PROVE  DaemonTypeOK' /\ PluginTyped'
  OBVIOUS
<1>1. Inv' /\ DaemonStep
  BY NextKnown, NextIsDaemonStep
<1>2. DaemonTypeOK' /\ created' >= created
  BY <1>1, DaemonStepTyped DEF Inv
<1>3. created \in Nat /\ created' \in Nat
  BY <1>1 DEF Inv, ProfilesKnown
<1>4. PluginTyped'
  <2>1. CASE AddProfile \/ SwitchProfile \/ Up
    BY <1>2, <1>3, <2>1, CallTyped
  <2>2. CASE Down
    BY <1>2, <1>3, <2>2 DEF Down, Goto, PluginTyped, Pcs
  <2>3. CASE Environment \/ (\E c \in late : ExecuteLate(c)) \/ UNCHANGED vars
    BY <1>2, <1>3, <2>3
       DEF Environment, ExecuteLate, vars, plugin, PluginTyped
  <2>4. CASE Activation /\ UNCHANGED <<daemon, late>>
    BY <1>3, <2>1, <2>2, <2>4, OwnStepTyped DEF Activation
  <2>5. Activation => \/ UNCHANGED <<daemon, late>>
                      \/ AddProfile \/ SwitchProfile \/ Up \/ Down
    BY DEF Activation, Start, PrepareActivation, CheckConflict, EnsureExists,
           Login, UpdateProfile, Resolve, ResolveExisting, WaitForReady,
           EndSession, Fail
  <2> QED
    BY <2>1, <2>2, <2>3, <2>4, <2>5 DEF Next
<1> QED
  BY <1>2, <1>4

(* At first the keys are those of the initial profiles. *)
LEMMA InitTyped == Init => DaemonTypeOK /\ PluginTyped
<1> SUFFICES ASSUME Init PROVE DaemonTypeOK /\ PluginTyped
  OBVIOUS
<1>1. Inv
  BY InitKnown
<1>2. /\ created \in Nat /\ created <= MaxKey /\ MaxKey \in Nat
      /\ created >= 1
  <2>1. profiles \in InitialProfiles /\ created = Cardinality(profiles)
    BY DEF Init, DaemonInit
  <2>2. created <= MaxKey
    BY <2>1, InitialProfilesAssumption
  <2>3. /\ active.key \in Nat \ {0} /\ active.key <= created
        /\ created \in Nat
    BY <1>1 DEF Inv, ProfilesKnown, Profile
  <2> QED
    BY <2>2, <2>3, MaxKeyAssumption
<1>3. DaemonTypeOK
  <2>1. /\ link \in {"off", "connecting", "connected"}
        /\ owner \in {"none", "plugin", "other"}
        /\ owner = "none" <=> link = "off"
    BY DEF Init, DaemonInit
  <2>2. errors \in BOOLEAN
    BY Zenon DEF Init, DaemonInit
  <2>3. created \in Key
    BY <1>2 DEF Key
  <2> QED
    BY <1>1, <2>1, <2>2, <2>3 DEF Inv, ProfilesKnown, DaemonTypeOK
<1>4. PluginTyped
  BY <1>2, MaxAttemptsAssumption
     DEF Init, PluginTyped, Pcs, NoRef, NoProfile
<1> QED
  BY <1>3, <1>4

(* Every variable keeps its type, for every number of profiles, attempts   *)
(* and late calls: the plugin refers to profiles by keys that were given   *)
(* out, and no key changes hands.                                          *)
THEOREM TypeCorrect == Spec => []TypeOK
<1>1. Inv /\ DaemonTypeOK /\ PluginTyped => TypeOK
  <2> SUFFICES ASSUME Inv, DaemonTypeOK, PluginTyped PROVE TypeOK
    OBVIOUS
  <2>1. created \in Nat /\ created <= MaxKey /\ MaxKey \in Nat
    BY MaxKeyAssumption DEF DaemonTypeOK, Key
  <2>2. \A r \in Ref : r.id <= created => r \in RefType
    BY <2>1 DEF Ref, RefType, Key, NoID
  <2>3. desired.id <= created
    BY <2>1 DEF PluginTyped, NoID
  <2>4. desired \in RefType /\ ref \in RefType /\ seen \in RefType
    BY <2>2, <2>3 DEF Inv, RefsKnown
  <2> QED
    BY <2>4 DEF PluginTyped, Pcs, TypeOK
<1> QED
  BY InitKnown, InitTyped, NextKnown, NextTyped, <1>1, PTL DEF Spec

-----------------------------------------------------------------------------
(* One creator of profiles.                                                *)

\* Nobody but an activation creates profiles, none is created late, and at
\* first a user has one profile of a name.
OneCreator ==
    /\ "add" \notin Others \cup LateCalls
    /\ \A S \in InitialProfiles : \A p, q \in S :
            p.name = q.name /\ p.user = q.user => p = q

Alike(p, r) == p.name = r.name /\ p.user = r.user

(* A profile is created only where there is none of its name and user.     *)
Unique ==
    /\ NoDuplicates
    /\ pc = "add" => \A p \in profiles : ~Alike(p, ref)

(* Without profiles the daemon stays with its default profile. *)
Served ==
    features.noProfiles =>
        /\ active = Default /\ desired = NoRef /\ ref = NoRef
        /\ pc \in {"idle", "login", "update", "resolve", "up", "ready",
                   "session", "down"}
        /\ \A c \in late : c.op = "up" /\ c.ref = NoRef

AfterLogin == {"update", "resolve", "resolveStatus", "resolveList", "up",
               "ready", "session"}

(* After the login no other profile can be taken for the one logged in.    *)
LoggedInOnly ==
    /\ (desired # NoRef /\ pc \in AfterLogin)
            => \A p \in profiles : Alike(p, desired) => p = loggedIn
    /\ (features.noProfiles /\ pc \in AfterLogin) => loggedIn = Default
    /\ (/\ desired # NoRef \/ features.noProfiles
        /\ pc \in AfterLogin \ {"update"})
            => configured = loggedIn \/ features.noUpdates

Finite == IsFiniteSet(profiles)

CreatorInv == Finite /\ Served /\ Unique /\ LoggedInOnly /\ UpAsLoggedIn

\* The only profile that a handle names.
LEMMA OnlyOne ==
    ASSUME Finite, NEW r, NEW p \in Addressed(r), NEW q \in Named(r),
           active \in profiles
    PROVE  p = q
<1>1. Named(r) \subseteq profiles /\ Cardinality(Named(r)) = 1 /\ p \in Named(r)
  BY DEF Addressed, Named, Listed
<1>2. IsFiniteSet(Named(r))
  BY <1>1, FS_Subset DEF Finite
<1>3. \E x : Named(r) = {x}
  BY <1>1, <1>2, FS_Singleton
<1> QED
  BY <1>1, <1>3

(* There are only ever finitely many profiles. *)
LEMMA FiniteKept == Finite /\ DaemonStep => Finite'
<1> SUFFICES ASSUME Finite, DaemonStep PROVE Finite'
  OBVIOUS
<1>1. \/ profiles' \subseteq profiles
      \/ \E new : profiles' = profiles \cup {new}
  BY DEF DaemonStep, daemon, Activate, BringUp, TakeDown, Remove, Add,
     EngineStep
<1> QED
  BY <1>1, FS_Subset, FS_AddElement DEF Finite

(* With one creator the profiles grow by what an activation creates. *)
LEMMA ProfilesGrow ==
    ASSUME OneCreator, Inv, PluginTyped, [Next]_vars
    PROVE  \/ profiles' \subseteq profiles
           \/ /\ AddProfile
              /\ profiles' = profiles \cup {[key |-> created + 1,
                                 name |-> ref.name, user |-> ref.user]}
<1>1. CASE Activation
  BY <1>1 DEF Activation, Start, PrepareActivation, CheckConflict,
     EnsureExists, AddProfile, SwitchProfile, Login, UpdateProfile, Resolve,
     ResolveExisting, Up, WaitForReady, EndSession, Down, Fail, Call, Add,
     Activate, BringUp, TakeDown, daemon
<1>2. CASE Environment
  BY <1>2 DEF Environment, OtherClient, EngineStep, BringUp, TakeDown,
     Activate, Remove, OneCreator
<1>3. CASE \E c \in late : ExecuteLate(c)
  <2>1. PICK c \in late : ExecuteLate(c) /\ c.op # "add"
    BY <1>3 DEF PluginTyped, OneCreator
  <2> QED
    BY <2>1 DEF ExecuteLate, Activate, BringUp
<1>4. CASE UNCHANGED vars
  BY <1>4 DEF vars, daemon
<1> QED
  BY <1>1, <1>2, <1>3, <1>4 DEF Next

\* The calls are those of the program.
LEMMA Steps ==
    ASSUME [Next]_vars
    PROVE  \/ UNCHANGED <<plugin, late>> /\ (Environment \/ UNCHANGED daemon)
           \/ UNCHANGED plugin /\ \E c \in late : ExecuteLate(c)
           \/ Activation
BY DEF Next, vars, Environment, ExecuteLate

(* No profile is created twice. *)
LEMMA UniqueKept ==
    ASSUME OneCreator, Inv, PluginTyped, Unique, [Next]_vars
    PROVE  Unique'
<1>1. \/ profiles' \subseteq profiles
      \/ /\ AddProfile
         /\ profiles' = profiles \cup
               {[key |-> created + 1, name |-> ref.name, user |-> ref.user]}
  BY ProfilesGrow
<1>2. NoDuplicates'
  <2>1. CASE profiles' \subseteq profiles
    BY <2>1 DEF Unique, NoDuplicates
  <2>2. CASE /\ AddProfile
             /\ profiles' = profiles \cup {[key |-> created + 1,
                                name |-> ref.name, user |-> ref.user]}
    <3>1. \A p \in profiles : ~Alike(p, ref)
      BY <2>2 DEF AddProfile, Unique
    <3> QED
      BY <2>2, <3>1 DEF Unique, NoDuplicates, Alike
  <2> QED
    BY <1>1, <2>1, <2>2
<1>3. ASSUME pc' = "add" PROVE \A p \in profiles' : ~Alike(p, ref')
  <2>1. CASE UNCHANGED plugin
    <3>1. ~AddProfile \/ profiles' \subseteq profiles
      BY <2>1 DEF AddProfile, Call, GiveUp, plugin
    <3> QED
      BY <1>1, <1>3, <2>1, <3>1 DEF Unique, plugin
  <2>2. CASE Activation
    <3>1. EnsureExists
      BY <1>3, <2>2 DEF Activation, Start, PrepareActivation, CheckConflict,
         AddProfile, SwitchProfile, Login, UpdateProfile, Resolve,
         ResolveExisting, Up, WaitForReady, EndSession, Down, Fail, Call,
         GiveUp, Goto
    <3>2. Existing(ref) = {} /\ ref' = ref /\ profiles' = profiles
      BY <1>3, <3>1 DEF EnsureExists, GiveUp, daemon
    <3>3. ref.name # NoName
      BY <3>1 DEF EnsureExists, Inv, Choosing, RefFollows
    <3> QED
      BY <3>2, <3>3 DEF Existing, Listed, Alike
  <2> QED
    BY <2>1, <2>2, Steps
<1> QED
  BY <1>2, <1>3 DEF Unique

(* A daemon without profiles never leaves its default profile. *)
LEMMA ServedKept ==
    ASSUME Inv, Served, [Next]_vars
    PROVE  Served'
<1> SUFFICES ASSUME features.noProfiles PROVE Served'
  BY DaemonKeepsFeatures DEF Served
<1>1. /\ active = Default /\ desired = NoRef /\ ref = NoRef
      /\ pc \in {"idle", "login", "update", "resolve", "up", "ready",
                 "session", "down"}
      /\ \A c \in late : c.op = "up" /\ c.ref = NoRef
  BY DEF Served
<1>2. Addressed(NoRef) \subseteq {active}
  BY DEF Addressed, Named, NoRef
<1>3. CASE UNCHANGED <<plugin, late>> /\ (Environment \/ UNCHANGED daemon)
  <2>1. active' = active
    BY <1>3 DEF Environment, OtherClient, MayServe, EngineStep, BringUp,
       TakeDown, daemon
  <2> QED
    BY <1>1, <1>3, <2>1 DEF Served, plugin
<1>4. CASE UNCHANGED plugin /\ \E c \in late : ExecuteLate(c)
  <2>1. PICK c \in late : ExecuteLate(c)
    BY <1>4
  <2>2. active' = active
    BY <1>1, <1>2, <2>1 DEF ExecuteLate, BringUp
  <2> QED
    BY <1>1, <1>4, <2>1, <2>2 DEF ExecuteLate, Served, plugin
<1>5. CASE Activation
  <2>1. CASE GiveUp
    <3>1. /\ active' = active
          /\ \A c \in late' : c.op = "up" /\ c.ref = NoRef
      BY <1>1, <1>2, <1>5, <2>1
         DEF Activation, Start, PrepareActivation, CheckConflict,
             EnsureExists, AddProfile, SwitchProfile, Login, UpdateProfile,
             Resolve, ResolveExisting, Up, WaitForReady, EndSession, Down,
             Fail, Call, BringUp, TakeDown, Goto, daemon
    <3> QED
      BY <1>1, <2>1, <3>1 DEF GiveUp, Served
  <2>2. CASE ~GiveUp
    BY <1>1, <1>2, <1>5, <2>2
       DEF Served, Activation, Start, PrepareActivation,
           CheckConflict, EnsureExists, AddProfile, SwitchProfile, Login,
           UpdateProfile, Resolve, ResolveExisting, Up, WaitForReady,
           EndSession, Down, Fail, Call, BringUp, TakeDown, Goto, daemon
  <2> QED
    BY <2>1, <2>2
<1> QED
  BY <1>3, <1>4, <1>5, Steps

\* Up to the login nothing is promised.
LEMMA GivingUpLogsOut == GiveUp => LoggedInOnly' /\ UpAsLoggedIn'
BY DEF GiveUp, LoggedInOnly, AfterLogin, UpAsLoggedIn, Succeeding

\* What is logged in is reached by the activation's reference.
LEMMA LoginChooses ==
    ASSUME Inv, CreatorInv, Login
    PROVE  LoggedInOnly' /\ UpAsLoggedIn'
<1>1. /\ pc = "login" /\ loggedIn' \in Addressed(ref)
      /\ pc' = IF features.noUpdates THEN "resolve" ELSE "update"
      /\ UNCHANGED <<daemon, desired>>
  BY DEF Login, Goto
<1>2. ASSUME desired # NoRef, NEW p \in profiles, Alike(p, desired)
      PROVE  p = loggedIn'
  <2>1. loggedIn' \in profiles /\ Alike(loggedIn', desired)
    BY <1>1, <1>2, Reached DEF Alike
  <2> QED
    BY <1>2, <2>1 DEF CreatorInv, Unique, NoDuplicates, Alike
<1>3. features.noProfiles => loggedIn' = Default
  BY <1>1 DEF CreatorInv, Served, Addressed, Named, NoRef
<1>4. pc' = "resolve" => features'.noUpdates
  BY <1>1 DEF daemon
<1>5. pc' \in {"update", "resolve"} /\ UNCHANGED <<features, profiles>>
  BY <1>1 DEF daemon
<1>6. UpAsLoggedIn'
  BY <1>5 DEF UpAsLoggedIn, Succeeding
<1> QED
  BY <1>1, <1>2, <1>3, <1>4, <1>5, <1>6 DEF LoggedInOnly, AfterLogin

\* The settings go to the profile that is logged in.
LEMMA UpdateConfigures ==
    ASSUME Inv, CreatorInv, UpdateProfile
    PROVE  LoggedInOnly' /\ UpAsLoggedIn'
<1>1. /\ pc = "update" /\ configured' \in Addressed(ConfigRef(ref))
      /\ pc' = "resolve" /\ UNCHANGED <<daemon, desired, loggedIn>>
  BY DEF UpdateProfile, Goto
<1>2. desired # NoRef => configured' = loggedIn
  <2> SUFFICES ASSUME desired # NoRef PROVE configured' = loggedIn
    OBVIOUS
  <2>1. ConfigRef(ref) = ref
    BY DEF ConfigRef, HasHandle, Inv, RefFollows
  <2>2. configured' \in profiles /\ Alike(configured', desired)
    BY <1>1, <2>1, Reached DEF Alike
  <2> QED
    BY <1>1, <2>2 DEF CreatorInv, LoggedInOnly, AfterLogin
<1>3. features.noProfiles => configured' = loggedIn
  <2> SUFFICES ASSUME features.noProfiles PROVE configured' = loggedIn
    OBVIOUS
  <2>1. active = Default /\ ref = NoRef /\ loggedIn = Default
    BY <1>1 DEF CreatorInv, Served, LoggedInOnly, AfterLogin
  <2>2. /\ ConfigRef(ref).id = NoID
        /\ ConfigRef(ref).name = DefaultName /\ DefaultName # NoName
        /\ ConfigRef(ref).user = NoUser
    BY <2>1 DEF ConfigRef, HasHandle, NoRef, NoName, DefaultName
  <2>3. Default \in Named(ConfigRef(ref)) /\ active \in profiles
    BY <2>1, <2>2 DEF Named, Listed, Default, Inv, ProfilesKnown
  <2> QED
    BY <1>1, <2>1, <2>3, OnlyOne DEF CreatorInv
<1>4. UpAsLoggedIn'
  BY <1>1 DEF UpAsLoggedIn, Succeeding
<1> QED
  BY <1>1, <1>2, <1>3, <1>4 DEF CreatorInv, LoggedInOnly, AfterLogin, daemon

\* What is brought up is what was logged in.
LEMMA UpTakesLoggedIn ==
    ASSUME Inv, CreatorInv, Up
    PROVE  LoggedInOnly' /\ UpAsLoggedIn'
<1>1. CASE GiveUp
  BY <1>1, GivingUpLogsOut
<1>2. CASE ~GiveUp
  <2>1. PICK p \in Addressed(ref) : BringUp(p, "plugin") /\ brought' = p
    BY <1>2 DEF Up, Call
  <2>2. /\ pc = "up" /\ pc' = "ready"
        /\ UNCHANGED <<desired, loggedIn, configured, features, profiles>>
    BY <1>2, <2>1 DEF Up, Call, BringUp
  <2>3. desired # NoRef => brought' = loggedIn
    BY <2>1, <2>2, Reached DEF CreatorInv, LoggedInOnly, AfterLogin, Alike
  <2>4. features.noProfiles => brought' = loggedIn
    BY <2>1, <2>2 DEF CreatorInv, Served, LoggedInOnly, AfterLogin, Addressed,
       Named, NoRef
  <2>5. LoggedInOnly'
    BY <2>2 DEF CreatorInv, LoggedInOnly, AfterLogin
  <2> QED
    BY <2>2, <2>3, <2>4, <2>5 DEF UpAsLoggedIn, LoggedInOnly, AfterLogin
<1> QED
  BY <1>1, <1>2

\* Every other step leaves the three profiles alone.
LEMMA OthersKeepLoggedIn ==
    ASSUME CreatorInv, features' = features, profiles' \subseteq profiles,
           UNCHANGED <<desired, loggedIn, configured, brought>>,
           \/ pc' = pc
           \/ pc' \notin AfterLogin
           \/ pc \in AfterLogin \ {"update"} /\ pc' \notin {"ready", "session"}
           \/ pc = "ready" /\ pc' = "session"
    PROVE  LoggedInOnly' /\ UpAsLoggedIn'
<1>1. LoggedInOnly'
  BY DEF CreatorInv, LoggedInOnly, AfterLogin
<1>2. UpAsLoggedIn'
  BY DEF CreatorInv, UpAsLoggedIn, Succeeding, AfterLogin
<1> QED
  BY <1>1, <1>2

(* Every step keeps what a single creator guarantees. *)
LEMMA CreatorKept ==
    ASSUME OneCreator
    PROVE  Inv /\ PluginTyped /\ CreatorInv /\ [Next]_vars => CreatorInv'
<1> SUFFICES ASSUME Inv, PluginTyped, CreatorInv, [Next]_vars PROVE CreatorInv'
  OBVIOUS
<1>1. Finite' /\ Served' /\ Unique'
  BY NextIsDaemonStep, FiniteKept, ServedKept, UniqueKept DEF CreatorInv
<1>2. features' = features
  BY DaemonKeepsFeatures
<1>3. \/ profiles' \subseteq profiles
      \/ AddProfile
  BY ProfilesGrow
<1>4. LoggedInOnly' /\ UpAsLoggedIn'
  <2>1. CASE UNCHANGED plugin
    <3>1. ~AddProfile
      BY <2>1 DEF AddProfile, Call, GiveUp, plugin
    <3> QED
      BY <1>2, <1>3, <2>1, <3>1, OthersKeepLoggedIn DEF plugin
  <2>2. CASE Activation /\ GiveUp
    BY <2>2, GivingUpLogsOut
  <2>3. CASE Activation /\ ~GiveUp
    <3>1. CASE Login \/ UpdateProfile \/ Up
      BY <3>1, LoginChooses, UpdateConfigures, UpTakesLoggedIn
    <3>2. CASE \E d \in Desires : Start(d)
      BY <3>2 DEF Start, Goto, LoggedInOnly, AfterLogin, UpAsLoggedIn,
         Succeeding
    <3>3. CASE AddProfile \/ SwitchProfile
      BY <2>3, <3>3 DEF AddProfile, SwitchProfile, Call, LoggedInOnly,
         AfterLogin, UpAsLoggedIn, Succeeding
    <3>4. CASE \/ PrepareActivation \/ CheckConflict("prepareStatus", "ensure")
               \/ EnsureExists \/ Down
               \/ Resolve \/ CheckConflict("resolveStatus", "resolveList")
               \/ ResolveExisting \/ WaitForReady
      <4>1. UNCHANGED <<desired, loggedIn, configured, brought>>
        BY <2>3, <3>4 DEF PrepareActivation, CheckConflict, EnsureExists, Down,
           Resolve, ResolveExisting, WaitForReady
      <4>2. \/ pc' \notin AfterLogin
            \/ pc \in AfterLogin \ {"update"} /\ pc' \notin {"ready", "session"}
            \/ pc = "ready" /\ pc' = "session"
        BY <2>3, <3>4 DEF PrepareActivation, CheckConflict, EnsureExists, Down,
           Resolve, ResolveExisting, WaitForReady, Goto, AfterLogin
      <4>3. profiles' \subseteq profiles
        BY <1>3, <3>4 DEF AddProfile, PrepareActivation, CheckConflict,
           EnsureExists, Down, Resolve, ResolveExisting, WaitForReady, Goto
      <4> QED
        BY <1>2, <4>1, <4>2, <4>3, OthersKeepLoggedIn
    <3> QED
      BY <2>3, <3>1, <3>2, <3>3, <3>4 DEF Activation, EndSession, Fail
  <2> QED
    BY <2>1, <2>2, <2>3, Steps
<1> QED
  BY <1>1, <1>4 DEF CreatorInv

\* At first there is one profile of a name.
LEMMA CreatorInit ==
    ASSUME OneCreator
    PROVE  Init => CreatorInv
<1> SUFFICES ASSUME Init PROVE CreatorInv
  OBVIOUS
<1>1. Finite
  BY InitialProfilesAssumption DEF Init, DaemonInit, Finite
<1>2. Served /\ Unique
  BY DEF Init, DaemonInit, OneCreator, Served, Unique, NoDuplicates
<1>3. LoggedInOnly /\ UpAsLoggedIn
  BY DEF Init, LoggedInOnly, AfterLogin, UpAsLoggedIn, Succeeding
<1> QED
  BY <1>1, <1>2, <1>3 DEF CreatorInv

(* A retried activation finds the profile that an earlier one created, and *)
(* a lost answer of AddProfile makes no second one (EnsureExists), if      *)
(* nobody else creates profiles.                                           *)
THEOREM NoDuplicatesCorrect ==
    ASSUME OneCreator PROVE Spec => []NoDuplicates
<1>1. CreatorInv => NoDuplicates
  BY DEF CreatorInv, Unique
<1> QED
  BY InitKnown, InitTyped, NextKnown, NextTyped, CreatorInit, CreatorKept,
     <1>1, PTL DEF Spec

(* The three calls of an activation that take a profile, Login,            *)
(* UpdateProfile and Up, take the same one, though each is asked for it    *)
(* anew and other clients switch and remove profiles in between.           *)
THEOREM UpAsLoggedInCorrect ==
    ASSUME OneCreator PROVE Spec => []UpAsLoggedIn
<1>1. CreatorInv => UpAsLoggedIn
  BY DEF CreatorInv
<1> QED
  BY InitKnown, InitTyped, NextKnown, NextTyped, CreatorInit, CreatorKept,
     <1>1, PTL DEF Spec

-----------------------------------------------------------------------------
(* No other engine during an activation.                                   *)

\* Other clients bring no engine up while an activation prepares one, and no
\* Up that failed is executed later.
NoOtherUp == (Polite \/ "up" \notin Others) /\ "up" \notin LateCalls

\* An engine that is off is not reported as connected.
LEMMA OffIsNotConnected ==
    ASSUME link = "off", NEW resp \in Answers
    PROVE  Map(resp) \in {"failed", "disconnected"}
<1>1. /\ resp.words \in {{"stopped"}, {"failing"}}
      /\ "present" \in resp.full
  BY DEF Answers, Reports
<1>2. MapStatusString(resp.words) \in {"failed", "disconnected"}
  BY <1>1 DEF MapStatusString
<1> QED
  BY <1>2 DEF Map

\* A step of the daemon without an Up keeps its engine or stops it.
LEMMA EngineKept ==
    ASSUME NoOtherUp, PluginTyped, UNCHANGED plugin, [Next]_vars,
           pc \notin {"idle", "session"}
    PROVE  \/ UNCHANGED <<active, owner>> /\ (link = "off" => link' = "off")
           \/ link' = "off" /\ owner' = "none"
<1>1. CASE Environment \/ UNCHANGED daemon
  BY <1>1 DEF Environment, OtherClient, NoOtherUp, TakeDown, Activate, Remove,
     Add, Stop, EngineStep, daemon
<1>2. CASE \E c \in late : ExecuteLate(c)
  <2>1. PICK c \in late : ExecuteLate(c) /\ c.op # "up"
    BY <1>2 DEF PluginTyped, NoOtherUp
  <2> QED
    BY <2>1 DEF ExecuteLate, Add, Activate, Stop
<1>3. ~(Activation /\ ~UNCHANGED daemon)
  BY DEF Activation, Start, PrepareActivation, CheckConflict,
     EnsureExists, AddProfile, SwitchProfile, Login, UpdateProfile, Resolve,
     ResolveExisting, Up, WaitForReady, EndSession, Down, Fail, Call, Goto,
     GiveUp, plugin
<1> QED
  BY <1>1, <1>2, <1>3, Steps

-----------------------------------------------------------------------------
(* The engines of others.                                                  *)

\* Nobody else creates profiles or brings an engine up during an activation,
\* no failed call is executed later, and a running engine has no errors.
Undisturbed == OneCreator /\ NoOtherUp /\ LateCalls = {} /\ Errors = FALSE

Between == {"ensure", "add", "switch", "login", "update", "resolve",
            "resolveStatus", "resolveList", "up"}

\* Without a connection's profile the activation asks for none.
DefaultAsked ==
    desired = NoRef =>
        /\ pc \in {"login", "update", "resolve"} => ref = NoRef
        /\ pc \notin {"resolveStatus", "resolveList"}

\* Once an activation has looked for a conflict, an engine that another
\* client brought up is that of the profile it will ask for.
OthersChecked ==
    owner = "other" =>
        /\ (desired # NoRef /\ pc \in Between) => Alike(active, desired)
        /\ (desired = NoRef /\ pc = "up")
                => features.noProfiles \/ ref = RefOf(active)

NoErrors == errors = FALSE

OthersInv == DefaultAsked /\ OthersChecked /\ NoErrors

\* An engine without errors is not taken for one that does not run.
LEMMA RunningIsSeen ==
    ASSUME NoErrors, DaemonTypeOK, NEW resp \in Answers, ~RunningEngine(resp)
    PROVE  owner = "none"
<1>1. link \in {"off", "connecting", "connected"}
      /\ (owner = "none" <=> link = "off")
  BY DEF DaemonTypeOK
<1>2. ~errors
  BY Zenon DEF NoErrors
<1>3. resp.full = {"present"}
  BY <1>2 DEF Answers
<1>4. ASSUME link # "off" PROVE FALSE
  <2>1. resp.words \in {{"moving"}, {"up"}}
    BY <1>1, <1>4 DEF Answers, Reports
  <2>2. MapStatusString(resp.words) \in {"connecting", "connected"}
    BY <2>1 DEF MapStatusString
  <2>3. Map(resp) \in {"connecting", "connected"}
    BY <1>3, <2>2 DEF Map, FullStatusFailure
  <2> QED
    BY <2>3 DEF RunningEngine
<1> QED
  BY <1>1, <1>4

\* A reference is made for a connection only.
LEMMA DefaultAskedKept ==
    ASSUME Inv, DefaultAsked, [Next]_vars
    PROVE  DefaultAsked'
<1>1. CASE UNCHANGED plugin
  BY <1>1 DEF DefaultAsked, plugin
<1>2. CASE GiveUp
  BY <1>2 DEF GiveUp, DefaultAsked
<1>3. CASE Activation /\ ~GiveUp
  <2>1. CASE \E d \in Desires : Start(d)
    BY <2>1 DEF Start, Goto, DefaultAsked
  <2>2. CASE ~ \E d \in Desires : Start(d)
    BY <1>3, <2>2 DEF Activation, PrepareActivation, CheckConflict,
       EnsureExists, AddProfile, SwitchProfile, Login, UpdateProfile, Resolve,
       ResolveExisting, Up, WaitForReady, EndSession, Down, Fail, Call, Goto,
       DefaultAsked, Inv, Choosing
  <2> QED
    BY <2>1, <2>2
<1> QED
  BY <1>1, <1>2, <1>3, Steps

\* No error appears.
LEMMA NoErrorsKept ==
    ASSUME Errors = FALSE, NoErrors, DaemonStep
    PROVE  NoErrors'
BY Zenon DEF NoErrors, DaemonStep, daemon, Activate, BringUp, TakeDown, Stop,
   Remove, Add, EngineStep

\* While other clients move, an engine that is theirs stays or stops.
LEMMA OthersCheckedKept ==
    ASSUME Undisturbed, Inv, DaemonTypeOK, PluginTyped, OthersInv, [Next]_vars
    PROVE  OthersChecked'
<1>1. features' = features
  BY DaemonKeepsFeatures
<1>2. \A p : RefOf(p)' = RefOf(p')
  BY <1>1 DEF RefOf
<1>3. CASE UNCHANGED plugin
  <2>1. CASE pc \in Between
    <3>1. UNCHANGED <<active, owner>> \/ owner' = "none"
      BY <1>3, <2>1, EngineKept DEF Undisturbed, Between
    <3>2. CASE owner' = "none"
      BY <3>2 DEF OthersChecked
    <3>3. CASE UNCHANGED <<active, owner>>
      BY <1>1, <1>3, <3>3 DEF OthersInv, OthersChecked, plugin, RefOf, Alike
    <3> QED
      BY <3>1, <3>2, <3>3
  <2>2. CASE pc \notin Between
    BY <1>3, <2>2 DEF OthersChecked, Between, plugin
  <2> QED
    BY <2>1, <2>2
<1>4. CASE GiveUp
  BY <1>4 DEF GiveUp, OthersChecked, Between
<1>5. CASE Activation /\ ~GiveUp
  <2>1. CASE PrepareActivation
    <3>1. /\ desired # NoRef /\ ref.name = desired.name
          /\ ref.user = desired.user
          /\ ref.name # NoName /\ ref.user # NoUser
      BY <2>1 DEF PrepareActivation, Goto, Inv, Choosing, RefFollows
    <3>2. pc' = "ensure" => MatchesDesired(RefOf(active), ref)
      BY <2>1 DEF PrepareActivation, Goto
    <3>3. MatchesDesired(RefOf(active), ref) => Alike(active, desired)
      BY <3>1 DEF MatchesDesired, RefOf, Alike
    <3>4. pc' \in {"ensure", "prepareStatus"} /\ UNCHANGED <<daemon, desired>>
      BY <2>1 DEF PrepareActivation, Goto
    <3> QED
      BY <3>1, <3>2, <3>3, <3>4 DEF OthersChecked, Between, daemon, Alike
  <2>2. CASE CheckConflict("prepareStatus", "ensure")
    <3>1. owner = "none" /\ owner' = owner
      BY <1>5, <2>2, RunningIsSeen DEF CheckConflict, OthersInv, daemon
    <3> QED
      BY <3>1 DEF OthersChecked
  <2>3. CASE \E d \in Desires : Start(d)
    <3>1. PICK d \in Desires : Start(d)
      BY <2>3
    <3>2. pc' \in {"login", "prepare"} /\ (pc' = "login" => desired' = NoRef)
      BY <3>1 DEF Start, Goto, NoRef
    <3> QED
      BY <3>2 DEF OthersChecked, Between
  <2>4. CASE \/ EnsureExists \/ Login \/ UpdateProfile
             \/ CheckConflict("resolveStatus", "resolveList")
    <3>1. /\ UNCHANGED <<desired, owner, active>>
          /\ pc \in Between /\ pc' # "up"
      BY <1>5, <2>4 DEF EnsureExists, Login, UpdateProfile, CheckConflict,
         Goto, Between, daemon
    <3> QED
      BY <3>1 DEF OthersInv, OthersChecked, Alike
  <2>5. CASE AddProfile
    BY <1>5, <2>5 DEF AddProfile, Call, Add, OthersInv, OthersChecked, Between,
       Alike
  <2>6. CASE SwitchProfile
    <3>1. PICK p \in Addressed(ref) : Activate(p)
      BY <1>5, <2>6 DEF SwitchProfile, Call
    <3>2. desired # NoRef /\ desired' = desired
      BY <1>5, <2>6 DEF SwitchProfile, Call, Inv, Choosing
    <3>3. active' = p
      BY <3>1 DEF Activate
    <3> QED
      BY <3>2, <3>3, Reached DEF OthersChecked, Alike
  <2>7. CASE Resolve
    <3>1. UNCHANGED <<daemon, desired>> /\ pc = "resolve"
      BY <2>7 DEF Resolve, Goto
    <3>2. desired = NoRef => features.noProfiles \/ ref' = RefOf(active)
      BY <2>7, <3>1 DEF Resolve, OthersInv, DefaultAsked
    <3> QED
      BY <3>1, <3>2
         DEF OthersInv, OthersChecked, Between, Alike, daemon, RefOf
  <2>8. CASE ResolveExisting
    <3>1. UNCHANGED <<daemon, desired>> /\ pc = "resolveList"
      BY <2>8 DEF ResolveExisting
    <3>2. desired # NoRef
      BY <3>1 DEF OthersInv, DefaultAsked
    <3> QED
      BY <3>1, <3>2 DEF OthersInv, OthersChecked, Between, Alike, daemon
  <2>9. CASE Up \/ WaitForReady \/ Down
    <3>1. pc' \notin Between
      BY <1>5, <2>9 DEF Up, Call, WaitForReady, Down, Goto, Between
    <3> QED
      BY <3>1 DEF OthersChecked, Between
  <2> QED
    BY <1>5, <2>1, <2>2, <2>3, <2>4, <2>5, <2>6, <2>7, <2>8, <2>9
       DEF Activation, EndSession, Fail
<1> QED
  BY <1>3, <1>4, <1>5, Steps

\* Every step keeps what was found when a conflict was looked for.
LEMMA OthersKept ==
    ASSUME Undisturbed
    PROVE  Inv /\ DaemonTypeOK /\ PluginTyped /\ OthersInv /\ [Next]_vars
                => OthersInv'
<1> SUFFICES ASSUME Inv, DaemonTypeOK, PluginTyped, OthersInv, [Next]_vars
             PROVE  OthersInv'
  OBVIOUS
<1>1. DefaultAsked'
  BY DefaultAskedKept DEF OthersInv
<1>2. NoErrors'
  BY NextIsDaemonStep, NoErrorsKept DEF OthersInv, Undisturbed
<1>3. OthersChecked'
  BY OthersCheckedKept
<1> QED
  BY <1>1, <1>2, <1>3 DEF OthersInv

\* At first nothing is asked for.
LEMMA OthersInit ==
    ASSUME Undisturbed PROVE Init => OthersInv
<1> SUFFICES ASSUME Init PROVE OthersInv
  OBVIOUS
<1>1. NoErrors
  BY Zenon DEF Init, DaemonInit, NoErrors, Undisturbed
<1>2. DefaultAsked /\ OthersChecked
  BY DEF Init, DefaultAsked, OthersChecked, Between
<1> QED
  BY <1>1, <1>2 DEF OthersInv

\* A call for the profile whose engine runs leaves it active.
LEMMA ActiveStays ==
    ASSUME Inv, CreatorInv, OthersInv, owner = "other",
           pc \in {"switch", "up"},
           NEW p \in Addressed(ref)
    PROVE  p = active
<1>1. active \in profiles
  BY DEF Inv, ProfilesKnown
<1>2. CASE desired # NoRef
  <2>1. p \in profiles /\ Alike(p, desired)
    BY <1>2, Reached DEF Alike
  <2>2. Alike(active, desired)
    BY <1>2 DEF OthersInv, OthersChecked, Between
  <2> QED
    BY <1>1, <2>1, <2>2 DEF CreatorInv, Unique, NoDuplicates, Alike
<1>3. CASE desired = NoRef
  <2>1. pc = "up"
    BY <1>3 DEF Inv, Choosing
  <2>2. CASE features.noProfiles
    <3>1. ref = NoRef
      BY <2>2 DEF CreatorInv, Served
    <3> QED
      BY <3>1 DEF Addressed, Named, NoRef
  <2>3. CASE ref = RefOf(active)
    <3>1. active \in Named(ref)
      <4>1. features.ids => ref.id = active.key
        BY <2>3 DEF RefOf
      <4>2. ~features.ids => ref.id = NoID
        BY <2>3 DEF RefOf
      <4>3. ref.name = active.name /\ ref.user = active.user
        BY <2>3 DEF RefOf
      <4>4. active.key # NoID
        BY <1>1 DEF Inv, ProfilesKnown, Profile, NoID
      <4> QED
        BY <1>1, <4>1, <4>2, <4>3, <4>4 DEF Named, Listed
    <3> QED
      BY <1>1, <3>1, OnlyOne DEF CreatorInv
  <2> QED
    BY <1>3, <2>1, <2>2, <2>3 DEF OthersInv, OthersChecked
<1> QED
  BY <1>2, <1>3

(* No call of the plugin takes the engine away from the profile another    *)
(* client brought up: what checkRunningConflict saw stays true up to the   *)
(* SwitchProfile and the Up that follow it.                                *)
THEOREM NeverSwitchesAwayCorrect ==
    ASSUME Undisturbed PROVE Spec => NeverSwitchesAway
<1>1. Inv /\ CreatorInv /\ OthersInv /\ PluginTyped /\ [Next]_vars =>
        [owner = "other" /\ active' # active => Environment]_vars
  <2> SUFFICES ASSUME Inv, CreatorInv, OthersInv, PluginTyped, [Next]_vars,
                      owner = "other", active' # active
               PROVE  Environment
    OBVIOUS
  <2>1. late = {}
    BY DEF PluginTyped, Undisturbed
  <2>2. ASSUME Activation PROVE FALSE
    <3>1. SwitchProfile \/ Up
      BY <2>2 DEF Activation, Start, PrepareActivation, CheckConflict,
         EnsureExists, AddProfile, Login, UpdateProfile, Resolve,
         ResolveExisting, WaitForReady, EndSession, Down, Fail, Call, Add,
         TakeDown, daemon
    <3>2. pc \in {"switch", "up"} /\ active' \in Addressed(ref)
      BY <3>1 DEF SwitchProfile, Up, Call, Activate, BringUp, daemon
    <3> QED
      BY <3>2, ActiveStays
  <2> QED
    BY <2>1, <2>2 DEF Next, vars, daemon
<1>2. OneCreator
  BY DEF Undisturbed
<1> QED
  BY InitKnown, InitTyped, NextKnown, NextTyped, CreatorInit, CreatorKept,
     OthersInit, OthersKept, <1>1, <1>2, PTL DEF Spec, NeverSwitchesAway

-----------------------------------------------------------------------------
(* Engines that other clients bring up at any time (ProfileRace).          *)

\* An engine of another client's ran when the activation last looked.
Seen == owner = "other" /\ ~unseen

\* The history adds no behaviour.
LEMMA RaceIsNext ==
    ASSUME [RaceNext]_raceVars
    PROVE  [Next]_vars
BY DEF RaceNext, raceVars

\* An engine that is seen was seen before, or the activation looks now.
LEMMA SeenBefore ==
    ASSUME [RaceNext]_raceVars, Seen'
    PROVE  Looks \/ (Seen /\ active' = active)
<1>1. CASE RaceNext
  <2>1. unseen' = (~Looks /\ (unseen \/ OtherBringsUp))
    BY <1>1 DEF RaceNext
  <2>2. Looks \/ (~unseen /\ ~OtherBringsUp)
    BY <2>1, Zenon DEF Seen
  <2> QED
    BY <2>2, Zenon DEF Seen, OtherBringsUp
<1>2. CASE UNCHANGED raceVars
  BY <1>2, Zenon DEF raceVars, vars, daemon, Seen
<1> QED
  BY <1>1, <1>2

\* A reference that agrees with the active profile names it.
LEMMA ActiveNamed ==
    ASSUME Inv, NEW r, r.id = RefOf(active).id, Alike(active, r)
    PROVE  active \in Named(r)
<1>1. active \in profiles /\ active.key # NoID
  BY DEF Inv, ProfilesKnown, Profile, NoID
<1>2. r.id = IF features.ids THEN active.key ELSE NoID
  BY DEF RefOf
<1>3. r.name = active.name /\ r.user = active.user
  BY DEF Alike
<1> QED
  BY <1>1, <1>2, <1>3 DEF Named, Listed

\* What matches the active profile is completed to a reference to it.
LEMMA FilledIsActive ==
    ASSUME NEW r, MatchesDesired(RefOf(active), r)
    PROVE  /\ FillMissing(RefOf(active), r).id = RefOf(active).id
           /\ Alike(active, FillMissing(RefOf(active), r))
BY DEF MatchesDesired, FillMissing, RefOf, Alike

\* Of two profiles that EnsureExists would find it takes neither.
LEMMA OnlyExisting ==
    ASSUME Finite, NEW r, ~(Cardinality(Existing(r)) > 1),
           NEW p \in Existing(r), NEW q \in Existing(r)
    PROVE  p = q
<1>1. IsFiniteSet(Existing(r))
  <2>1. Existing(r) \subseteq profiles
    BY DEF Existing, Listed
  <2> QED
    BY <2>1, FS_Subset DEF Finite
<1>2. Cardinality(Existing(r)) \in Nat /\ Cardinality(Existing(r)) # 0
  BY <1>1, FS_CardinalityType, FS_EmptySet
<1>3. Cardinality(Existing(r)) = 1
  BY <1>2
<1>4. \E x : Existing(r) = {x}
  BY <1>1, <1>3, FS_Singleton
<1> QED
  BY <1>4

(* While the engine of another client that was seen runs, the activation   *)
(* creates nothing and its reference names the active profile whenever a   *)
(* call that switches comes next.                                          *)
SeenIsNamed ==
    Seen =>
        /\ pc \notin {"add", "resolveList"}
        /\ pc = "ensure" => Alike(active, ref)
        /\ pc \in {"ensure", "switch", "up"} => active \in Named(ref)

\* Every call of the activation keeps this, and so does everybody else.
LEMMA SeenIsNamedKept ==
    ASSUME Inv, DaemonTypeOK, PluginTyped, Finite, Served, NoErrors,
           SeenIsNamed, [RaceNext]_raceVars
    PROVE  SeenIsNamed'
<1> SUFFICES ASSUME Seen'
             PROVE  /\ pc' \notin {"add", "resolveList"}
                    /\ pc' = "ensure" => Alike(active', ref')
                    /\ pc' \in {"ensure", "switch", "up"}
                            => active' \in Named(ref)'
  BY DEF SeenIsNamed
<1>1. [Next]_vars /\ features' = features
  BY RaceIsNext, DaemonKeepsFeatures
<1>2. Looks \/ (Seen /\ active' = active)
  BY SeenBefore
<1>3. Inv' /\ owner' = "other"
  BY <1>1, NextKnown DEF Seen
<1>4. CASE UNCHANGED plugin
  <2>1. Seen /\ active' = active /\ pc' = pc /\ ref' = ref
    BY <1>2, <1>4 DEF Looks, plugin
  <2>2. active \in Named(ref) => active' \in Named(ref)'
    BY <1>3, <2>1 DEF Named, Listed, Inv, ProfilesKnown
  <2> QED
    BY <2>1, <2>2 DEF SeenIsNamed
<1>5. CASE GiveUp
  BY <1>5 DEF GiveUp
<1>6. CASE Activation /\ ~GiveUp
  <2>1. CASE PrepareActivation
    <3>1. CASE pc' = "prepareStatus"
      BY <3>1
    <3>2. CASE pc' # "prepareStatus"
      <4>1. /\ pc' = "ensure" /\ UNCHANGED daemon
            /\ MatchesDesired(RefOf(active), ref)
            /\ ref' = FillMissing(RefOf(active), ref)
        BY <2>1, <3>2 DEF PrepareActivation, Goto
      <4>2. Alike(active, ref') /\ ref'.id = RefOf(active).id
        BY <4>1, FilledIsActive
      <4>3. active \in Named(ref')
        BY <4>2, ActiveNamed
      <4> QED
        BY <4>1, <4>2, <4>3 DEF daemon, Alike, Named, Listed
    <3> QED
      BY <3>1, <3>2
  <2>2. CASE \/ CheckConflict("prepareStatus", "ensure")
             \/ CheckConflict("resolveStatus", "resolveList")
    <3>1. owner = "none" /\ owner' = owner
      BY <1>6, <2>2, RunningIsSeen DEF CheckConflict, daemon
    <3> QED
      BY <1>3, <3>1
  <2>3. CASE EnsureExists
    <3>1. pc = "ensure" /\ Seen /\ UNCHANGED daemon
      BY <1>2, <2>3 DEF EnsureExists, Looks, Looking
    <3>2. Alike(active, ref) /\ active \in profiles
      BY <3>1 DEF SeenIsNamed, Inv, ProfilesKnown
    <3>3. active \in Existing(ref)
      BY <3>1, <3>2 DEF Existing, Listed, Alike, Inv, Choosing, RefFollows
    <3>4. ~(Cardinality(Existing(ref)) > 1)
      BY <1>6, <2>3 DEF EnsureExists
    <3>5. PICK p \in Existing(ref) :
                pc' = "switch" /\ ref' = RefFromMatch(p, ref.user)
      BY <1>6, <2>3, <3>3 DEF EnsureExists
    <3>6. p = active
      BY <3>3, <3>4, OnlyExisting
    <3>7. ref'.id = RefOf(active).id /\ Alike(active, ref')
      BY <3>2, <3>5, <3>6 DEF RefFromMatch, RefOf, Alike
    <3>8. active \in Named(ref')
      BY <3>7, ActiveNamed
    <3> QED
      BY <3>1, <3>5, <3>8 DEF daemon, Named, Listed
  <2>4. CASE AddProfile \/ ResolveExisting
    <3>1. pc \in {"add", "resolveList"}
      BY <2>4 DEF AddProfile, ResolveExisting
    <3>2. Seen
      BY <1>2, <3>1 DEF Looks, Looking
    <3> QED
      BY <3>1, <3>2 DEF SeenIsNamed
  <2>5. CASE Resolve
    <3>1. CASE pc' = "resolveStatus"
      BY <3>1
    <3>2. CASE pc' # "resolveStatus"
      <4>1. pc' = "up" /\ UNCHANGED daemon
        BY <2>5, <3>2 DEF Resolve, Goto
      <4>2. CASE features.noProfiles
        <5>1. ref' = NoRef
          BY <2>5, <4>2 DEF Resolve, Served
        <5> QED
          BY <4>1, <5>1 DEF Named, NoRef, daemon
      <4>3. CASE ~features.noProfiles
        <5>1. ref'.id = RefOf(active).id /\ Alike(active, ref')
          <6>1. CASE ref = NoRef
            BY <2>5, <4>3, <6>1 DEF Resolve, RefOf, Alike
          <6>2. CASE ref # NoRef
            <7>1. /\ MatchesDesired(RefOf(active), ref)
                  /\ ref' = FillMissing(RefOf(active), ref)
              BY <2>5, <3>2, <4>3, <6>2 DEF Resolve, Goto
            <7> QED
              BY <7>1, FilledIsActive
          <6> QED
            BY <6>1, <6>2
        <5>2. active \in Named(ref')
          BY <5>1, ActiveNamed
        <5> QED
          BY <4>1, <5>2 DEF daemon, Named, Listed
      <4> QED
        BY <4>2, <4>3
    <3> QED
      BY <3>1, <3>2
  <2>6. CASE \/ \E d \in Desires : Start(d)
             \/ SwitchProfile \/ Login \/ UpdateProfile
             \/ Up \/ WaitForReady \/ Down
    <3>1. pc' \in {"login", "prepare", "update", "resolve", "ready", "session",
                   "idle"}
      BY <1>6, <2>6 DEF Start, SwitchProfile, Call, Login, UpdateProfile, Up,
         WaitForReady, Down, Goto
    <3> QED
      BY <3>1
  <2> QED
    BY <1>6, <2>1, <2>2, <2>3, <2>4, <2>5, <2>6
       DEF Activation, EndSession, Fail
<1> QED
  BY <1>1, <1>4, <1>5, <1>6, Steps

\* What is known beside the invariants of ProfileSelection.
RaceInv == Finite /\ Served /\ NoErrors /\ SeenIsNamed

LEMMA RaceInit1 ==
    ASSUME Errors = FALSE
    PROVE  RaceInit => Init /\ RaceInv
<1> SUFFICES ASSUME RaceInit PROVE Init /\ RaceInv
  OBVIOUS
<1>1. Init
  BY DEF RaceInit
<1>2. Finite
  BY <1>1, InitialProfilesAssumption DEF Init, DaemonInit, Finite
<1>3. NoErrors
  BY <1>1, Zenon DEF Init, DaemonInit, NoErrors
<1>4. Served /\ SeenIsNamed
  BY <1>1 DEF Init, DaemonInit, Served, SeenIsNamed
<1> QED
  BY <1>1, <1>2, <1>3, <1>4 DEF RaceInv

LEMMA RaceInvKept ==
    ASSUME Errors = FALSE
    PROVE  Inv /\ DaemonTypeOK /\ PluginTyped /\ RaceInv /\ [RaceNext]_raceVars
                => RaceInv'
<1> SUFFICES ASSUME Inv, DaemonTypeOK, PluginTyped, RaceInv,
                    [RaceNext]_raceVars
             PROVE  RaceInv'
  OBVIOUS
<1>1. [Next]_vars
  BY RaceIsNext
<1>2. Finite' /\ NoErrors'
  BY <1>1, NextIsDaemonStep, FiniteKept, NoErrorsKept DEF RaceInv
<1>3. Served'
  BY <1>1, ServedKept DEF RaceInv
<1>4. SeenIsNamed'
  BY SeenIsNamedKept DEF RaceInv
<1> QED
  BY <1>2, <1>3, <1>4 DEF RaceInv

(* Whatever other clients do, and whenever: an engine of theirs that ran   *)
(* when the activation last looked is not switched away from, neither by   *)
(* SwitchProfile nor by Up, if its status shows no error and no call that  *)
(* failed is executed late.                                                *)
THEOREM LeavesOnlyUnseenCorrect ==
    ASSUME Errors = FALSE, LateCalls = {}
    PROVE  RaceSpec => LeavesOnlyUnseen
<1>1. Inv /\ RaceInv /\ PluginTyped /\ [RaceNext]_raceVars =>
        [owner = "other" /\ active' # active
            => Environment \/ unseen]_raceVars
  <2> SUFFICES ASSUME Inv, RaceInv, PluginTyped, [RaceNext]_raceVars,
                      owner = "other", active' # active, ~unseen
               PROVE  Environment
    BY Zenon
  <2>1. [Next]_vars /\ Seen /\ late = {}
    BY RaceIsNext DEF Seen, PluginTyped
  <2>2. ASSUME Activation PROVE FALSE
    <3>1. SwitchProfile \/ Up
      BY <2>2 DEF Activation, Start, PrepareActivation, CheckConflict,
         EnsureExists, AddProfile, Login, UpdateProfile, Resolve,
         ResolveExisting, WaitForReady, EndSession, Down, Fail, Call, Add,
         TakeDown, daemon
    <3>2. pc \in {"switch", "up"} /\ active' \in Addressed(ref)
      BY <3>1 DEF SwitchProfile, Up, Call, Activate, BringUp, daemon
    <3>3. active \in Named(ref) /\ active \in profiles
      BY <2>1, <3>2 DEF RaceInv, SeenIsNamed, Inv, ProfilesKnown
    <3> QED
      BY <3>2, <3>3, OnlyOne DEF RaceInv
  <2> QED
    BY <2>1, <2>2 DEF Next, vars, daemon
<1>2. [RaceNext]_raceVars => [Next]_vars
  BY RaceIsNext
<1> QED
  BY InitKnown, InitTyped, NextKnown, NextTyped, RaceInit1, RaceInvKept,
     <1>1, <1>2, PTL DEF RaceSpec, LeavesOnlyUnseen

(* Until it is ready the engine is the desired profile's, or none runs, or *)
(* another client brought one up.                                          *)
ReadyServes ==
    (pc = "ready" /\ desired # NoRef)
        => unseen \/ link = "off" \/ Alike(active, desired)

\* A step of others that brings no engine up keeps the engine or stops it.
LEMMA EngineKeptOrStopped ==
    ASSUME "up" \notin LateCalls, DaemonTypeOK, PluginTyped, UNCHANGED plugin,
           [Next]_vars, ~OtherBringsUp
    PROVE  \/ active' = active /\ (link = "off" => link' = "off")
           \/ link' = "off"
<1>1. CASE Environment \/ UNCHANGED daemon
  <2>1. CASE \E p \in profiles : BringUp(p, "other")
    <3>1. PICK p \in profiles : BringUp(p, "other")
      BY <2>1
    <3>2. CASE p = active /\ link # "off"
      BY <3>1, <3>2 DEF BringUp
    <3>3. CASE ~(p = active /\ link # "off")
      <4>1. owner' = "other" /\ active' = p
        BY <3>1, <3>3 DEF BringUp
      <4>2. owner = "other" /\ p = active
        BY <4>1 DEF OtherBringsUp
      <4>3. link # "off"
        BY <4>2 DEF DaemonTypeOK
      <4> QED
        BY <3>3, <4>2, <4>3
    <3> QED
      BY <3>2, <3>3
  <2>2. CASE ~ \E p \in profiles : BringUp(p, "other")
    BY <1>1, <2>2 DEF Environment, OtherClient, TakeDown, Activate, Remove,
       Add, Stop, EngineStep, daemon
  <2> QED
    BY <2>1, <2>2
<1>2. CASE \E c \in late : ExecuteLate(c)
  <2>1. PICK c \in late : ExecuteLate(c) /\ c.op # "up"
    BY <1>2 DEF PluginTyped
  <2> QED
    BY <2>1 DEF ExecuteLate, Add, Activate, Stop
<1>3. ~(Activation /\ ~UNCHANGED daemon)
  BY DEF Activation, Start, PrepareActivation, CheckConflict,
     EnsureExists, AddProfile, SwitchProfile, Login, UpdateProfile, Resolve,
     ResolveExisting, Up, WaitForReady, EndSession, Down, Fail, Call, Goto,
     GiveUp, plugin
<1> QED
  BY <1>1, <1>2, <1>3, Steps

\* Up is for the desired profile, and nobody replaces its engine unseen.
LEMMA ReadyServesKept ==
    ASSUME "up" \notin LateCalls
    PROVE  Inv /\ DaemonTypeOK /\ PluginTyped /\ ReadyServes
                /\ [RaceNext]_raceVars => ReadyServes'
<1> SUFFICES ASSUME Inv, DaemonTypeOK, PluginTyped, ReadyServes,
                    [RaceNext]_raceVars,
                    pc' = "ready", desired' # NoRef, ~unseen'
             PROVE  link' = "off" \/ Alike(active', desired')
  BY Zenon DEF ReadyServes
<1>1. [Next]_vars
  BY RaceIsNext
<1>2. CASE UNCHANGED plugin
  <2>1. ~Looks
    BY <1>2 DEF Looks, plugin
  <2>2. CASE RaceNext
    <3>1. ~unseen /\ ~OtherBringsUp
      BY <2>1, <2>2, Zenon DEF RaceNext
    <3>2. pc = "ready" /\ desired # NoRef /\ desired' = desired
      BY <1>2 DEF plugin
    <3>3. link = "off" \/ Alike(active, desired)
      BY <3>1, <3>2, Zenon DEF ReadyServes
    <3>4. \/ active' = active /\ (link = "off" => link' = "off")
          \/ link' = "off"
      BY <1>1, <1>2, <3>1, EngineKeptOrStopped
    <3> QED
      BY <3>2, <3>3, <3>4
  <2>3. CASE UNCHANGED raceVars
    BY <2>3, Zenon DEF raceVars, vars, plugin, daemon, ReadyServes
  <2> QED
    BY <2>2, <2>3
<1>3. CASE Activation
  <2>1. CASE UNCHANGED pc
    BY <1>2, <1>3, <2>1 DEF Activation, Start, PrepareActivation,
       CheckConflict, EnsureExists, AddProfile, SwitchProfile, Login,
       UpdateProfile, Resolve, ResolveExisting, Up, WaitForReady, EndSession,
       Down, Fail, Call, Goto, GiveUp
  <2>2. Up /\ ~GiveUp
    BY <1>3 DEF Activation, Start, PrepareActivation, CheckConflict,
       EnsureExists, AddProfile, SwitchProfile, Login, UpdateProfile, Resolve,
       ResolveExisting, Up, WaitForReady, EndSession, Down, Fail, Call, Goto,
       GiveUp
  <2>3. PICK p \in Addressed(ref) : BringUp(p, "plugin")
    BY <2>2 DEF Up, Call
  <2>4. active' = p /\ desired' = desired
    BY <2>2, <2>3 DEF Up, Call, BringUp
  <2> QED
    BY <2>4, Reached DEF Alike
<1> QED
  BY <1>1, <1>2, <1>3, Steps

(* waitForReady, which looks at the state alone, waits for the engine of   *)
(* the connection's own profile, unless another client brought one up      *)
(* after Resolve looked; errors in the status make no difference.          *)
THEOREM ReadyCorrect ==
    ASSUME "up" \notin LateCalls PROVE RaceSpec => ReadyForDesired
<1>1. RaceInit => Init /\ ReadyServes
  BY DEF RaceInit, Init, ReadyServes
<1>2. ReadyServes /\ [RaceNext]_raceVars =>
        [pc = "ready" /\ pc' = "session" /\ desired # NoRef
            => unseen \/ (active.name = desired.name
                            /\ active.user = desired.user)]_raceVars
  <2> SUFFICES ASSUME ReadyServes, [RaceNext]_raceVars,
                      pc = "ready", pc' = "session", desired # NoRef, ~unseen
               PROVE  Alike(active, desired)
    BY Zenon DEF Alike
  <2>1. WaitForReady
    BY RaceIsNext DEF Next, Activation, Start, PrepareActivation,
       CheckConflict, EnsureExists, AddProfile, SwitchProfile, Login,
       UpdateProfile, Resolve, ResolveExisting, Up, WaitForReady, EndSession,
       Down, Fail, Call, Goto, GiveUp, Environment, ExecuteLate, vars, plugin
  <2>2. link # "off"
    BY <2>1, OffIsNotConnected DEF WaitForReady
  <2> QED
    BY <2>2, Zenon DEF ReadyServes
<1>3. [RaceNext]_raceVars => [Next]_vars
  BY RaceIsNext
<1> QED
  BY InitKnown, InitTyped, NextKnown, NextTyped, <1>1, ReadyServesKept, <1>2,
     <1>3, PTL DEF RaceSpec, ReadyForDesired

=============================================================================
