----------------------- MODULE ConnectionEditorProofs -----------------------
(***************************************************************************)
(* What the connection editor keeps and what it leaves no trace of, for    *)
(* any connections, texts and numbers of updates.                          *)
(***************************************************************************)
EXTENDS ConnectionEditor, SettingsProofs

IInv ==
    /\ base = [s \in Sections |-> base[s]]
    /\ LastAcceptedWins

-----------------------------------------------------------------------------
(* Replacing.                                                              *)

\* Every setting has a name to write.
LEMMA CanonicalIsKnown == \A f \in Field : Canonical(f) \in KnownTo(f)
<1>1. Field = {"auth", "setupKey", "managementURL", "adminURL", "username",
               "interfaceName", "hostname", "preSharedKey"}
  BY DEF Field, EditorNames
<1>2. \A f \in Field : 1 \in DOMAIN EditorNames[f]
  BY <1>1 DEF EditorNames
<1>3. QED
  BY <1>2 DEF Canonical, KnownTo

\* What is written was removed before.
Within(added, removed) == \A f \in added : Canonical(f) \in removed

\* A save removes each name that it writes.
LEMMA AddedIsRemoved ==
    ASSUME NEW values
    PROVE  /\ Within(Added(values, Plain), RemovedData)
           /\ Within(Added(values, Secret), RemovedSecrets)
<1>1. Added(values, Plain) \subseteq Field /\ Added(values, Secret) \subseteq Secret
  BY DEF Added, Plain
<1>2. Secret \subseteq Field
  BY DEF Secret, Field, EditorNames
<1>3. QED
  BY <1>1, <1>2, CanonicalIsKnown DEF Within, RemovedData, RemovedSecrets

\* A key that is not removed keeps its value.
LEMMA ReplacedKeeps ==
    ASSUME NEW texts, NEW removed, NEW values, NEW added,
           Within(added, removed),
           NEW k \in DOMAIN texts \ removed
    PROVE  /\ k \in DOMAIN Replaced(texts, removed, values, added)
           /\ Replaced(texts, removed, values, added)[k] = texts[k]
BY DEF Replaced, Within

\* A second replacement leaves nothing of the first.
LEMMA ReplacedTwice ==
    ASSUME NEW texts, NEW removed, NEW values1, NEW added1, NEW values2, NEW added2,
           Within(added1, removed),
           Within(added2, removed)
    PROVE  Replaced(Replaced(texts, removed, values1, added1), removed, values2, added2)
             = Replaced(texts, removed, values2, added2)
<1> DEFINE once == Replaced(texts, removed, values1, added1)
           new == {Canonical(f) : f \in added2}
           Value(t, k) ==
               IF k \in new
               THEN Written(values2, CHOOSE f \in added2 : Canonical(f) = k) ELSE t[k]
<1>1. DOMAIN once \ removed = DOMAIN texts \ removed
  BY DEF Replaced, Within
<1>2. \A k \in DOMAIN texts \ removed : once[k] = texts[k]
  BY ReplacedKeeps
<1>3. \A t : Replaced(t, removed, values2, added2)
               = [k \in (DOMAIN t \ removed) \cup new |-> Value(t, k)]
  BY DEF Replaced
<1>4. \A k \in (DOMAIN texts \ removed) \cup new : Value(once, k) = Value(texts, k)
  BY <1>2
<1> HIDE DEF once, new, Value
<1>5. QED
  BY <1>1, <1>3, <1>4 DEF once

\* The sections that a save writes.
NewData(c, values) == Replaced(c.data, RemovedData, values, Added(values, Plain))
NewSecrets(c, values) == Replaced(c.secrets, RemovedSecrets, values, Added(values, Secret))

\* A save, section by section.
LEMMA SavedSections ==
    ASSUME NEW c, c = [s \in Sections |-> c[s]], NEW values
    PROVE  Saved(c, values)
             = [s \in Sections |-> IF s = "data" THEN NewData(c, values)
                                   ELSE IF s = "secrets" THEN NewSecrets(c, values)
                                   ELSE c[s]]
<1>1. Saved(c, values) = [c EXCEPT !.data = NewData(c, values),
                                   !.secrets = NewSecrets(c, values)]
  BY DEF Saved, NewData, NewSecrets
<1>2. QED
  BY <1>1 DEF Sections

\* Saving over an earlier save is saving at once.
LEMMA SavedTwice ==
    ASSUME NEW c, c = [s \in Sections |-> c[s]], NEW values1, NEW values2
    PROVE  Saved(Saved(c, values1), values2) = Saved(c, values2)
<1> DEFINE once == Saved(c, values1)
<1>1. once = [s \in Sections |-> IF s = "data" THEN NewData(c, values1)
                                 ELSE IF s = "secrets" THEN NewSecrets(c, values1)
                                 ELSE c[s]]
  BY SavedSections
<1> HIDE DEF once
<1>2. /\ once = [s \in Sections |-> once[s]]
      /\ once.data = NewData(c, values1) /\ once.secrets = NewSecrets(c, values1)
      /\ \A s \in Sections \ {"data", "secrets"} : once[s] = c[s]
  BY <1>1 DEF Sections
<1>3. /\ NewData(once, values2) = NewData(c, values2)
      /\ NewSecrets(once, values2) = NewSecrets(c, values2)
  <2>1. \A v : Within(Added(v, Plain), RemovedData) /\ Within(Added(v, Secret), RemovedSecrets)
    BY AddedIsRemoved
  <2>2. Replaced(NewData(c, values1), RemovedData, values2, Added(values2, Plain))
          = NewData(c, values2)
    BY <2>1, ReplacedTwice DEF NewData
  <2>3. Replaced(NewSecrets(c, values1), RemovedSecrets, values2, Added(values2, Secret))
          = NewSecrets(c, values2)
    BY <2>1, ReplacedTwice DEF NewSecrets
  <2>4. /\ NewData(once, values2)
             = Replaced(once.data, RemovedData, values2, Added(values2, Plain))
        /\ NewSecrets(once, values2)
             = Replaced(once.secrets, RemovedSecrets, values2, Added(values2, Secret))
    BY DEF NewData, NewSecrets
  <2>5. QED
    BY <1>2, <2>2, <2>3, <2>4
<1>4. /\ Saved(once, values2)
           = [s \in Sections |-> IF s = "data" THEN NewData(once, values2)
                                 ELSE IF s = "secrets" THEN NewSecrets(once, values2)
                                 ELSE once[s]]
      /\ Saved(c, values2)
           = [s \in Sections |-> IF s = "data" THEN NewData(c, values2)
                                 ELSE IF s = "secrets" THEN NewSecrets(c, values2)
                                 ELSE c[s]]
  BY <1>2, SavedSections
<1>5. Saved(once, values2) = Saved(c, values2)
  BY <1>2, <1>3, <1>4
<1>6. QED
  BY <1>5 DEF once

-----------------------------------------------------------------------------
\* The invariant holds at first.
LEMMA InitIInv == Init => IInv
BY ConnectionAssumption DEF Init, IInv, LastAcceptedWins

\* No values are accepted that are none.
LEMMA FilledIsSome == \A entered : Filled(entered) # NoValues
BY DEF Filled, NoValues, Field, EditorNames

\* Every step keeps it.
LEMMA StepIInv == IInv /\ [Next]_vars => IInv'
<1> SUFFICES ASSUME IInv, [Next]_vars PROVE IInv'
  OBVIOUS
<1>1. ASSUME NEW f \in Field, Edit(f) PROVE IInv'
  BY <1>1 DEF Edit, IInv, LastAcceptedWins
<1>2. CASE UpdateConnection
  <2>1. CASE Valid(Filled(fields))
    <3>1. draft' = Saved(draft, Filled(fields)) /\ accepted' = Filled(fields) /\ base' = base
      BY <1>2, <2>1 DEF UpdateConnection
    <3>2. Saved(draft, Filled(fields)) = Saved(base, Filled(fields))
      BY SavedTwice DEF IInv, LastAcceptedWins
    <3>3. QED
      BY <3>1, <3>2, FilledIsSome DEF IInv, LastAcceptedWins
  <2>2. CASE ~Valid(Filled(fields))
    BY <1>2, <2>2 DEF UpdateConnection, IInv, LastAcceptedWins
  <2>3. QED
    BY <2>1, <2>2
<1>3. CASE UNCHANGED vars
  BY <1>3 DEF vars, IInv, LastAcceptedWins
<1>4. QED
  BY <1>1, <1>2, <1>3 DEF Next

(* However often the connection is updated, what remains is what the last  *)
(* accepted values alone would have written into it.                       *)
THEOREM NoTraceLeft == Spec => []LastAcceptedWins
<1>1. IInv => LastAcceptedWins
  BY DEF IInv
<1>2. QED
  BY <1>1, InitIInv, StepIInv, PTL DEF Spec

\* The sections of the draft that an update writes.
LEMMA DraftSections == IInv => draft = [s \in Sections |-> draft[s]]
BY SavedSections DEF IInv, LastAcceptedWins

(* No update takes away a key that the editor does not know, or changes    *)
(* its value.                                                              *)
THEOREM UnknownKeysKept == Spec => KeepsUnknownKeys
<1> DEFINE Unharmed ==
       /\ \A k \in DOMAIN draft.data \ KnownData :
            k \in DOMAIN draft'.data /\ draft'.data[k] = draft.data[k]
       /\ \A k \in DOMAIN draft.secrets \ KnownSecrets :
            k \in DOMAIN draft'.secrets /\ draft'.secrets[k] = draft.secrets[k]
<1>1. IInv /\ [Next]_vars => [Unharmed]_vars
  <2> SUFFICES ASSUME IInv, [Next]_vars PROVE Unharmed
    OBVIOUS
  <2>1. CASE draft' = Saved(draft, Filled(fields))
    <3>1. /\ draft'.data = NewData(draft, Filled(fields))
          /\ draft'.secrets = NewSecrets(draft, Filled(fields))
      BY <2>1, DraftSections, SavedSections DEF Sections
    <3>2. KnownData = RemovedData /\ KnownSecrets = RemovedSecrets
      BY DEF KnownData, KnownSecrets, RemovedData, RemovedSecrets
    <3>3. \A k \in DOMAIN draft.data \ RemovedData :
             /\ k \in DOMAIN NewData(draft, Filled(fields))
             /\ NewData(draft, Filled(fields))[k] = draft.data[k]
      BY AddedIsRemoved, ReplacedKeeps DEF NewData
    <3>4. \A k \in DOMAIN draft.secrets \ RemovedSecrets :
             /\ k \in DOMAIN NewSecrets(draft, Filled(fields))
             /\ NewSecrets(draft, Filled(fields))[k] = draft.secrets[k]
      BY AddedIsRemoved, ReplacedKeeps DEF NewSecrets
    <3>5. QED
      BY <3>1, <3>2, <3>3, <3>4
  <2>2. CASE UNCHANGED draft
    BY <2>2
  <2>3. QED
    BY <2>1, <2>2 DEF Next, Edit, UpdateConnection, vars
<1>2. QED
  BY <1>1, InitIInv, StepIInv, PTL DEF Spec, KeepsUnknownKeys

-----------------------------------------------------------------------------
(* What the widgets hold.                                                  *)

Text == Seq(STRING)
Modes == {"sso", "setup-key"}

AreFields(values) ==
    /\ values = [f \in Field |-> values[f]]
    /\ values.auth \in Modes
    /\ \A f \in Field \ {"auth"} : values[f] \in Text

Typed ==
    /\ base \in Connection
    /\ AreFields(fields)
    /\ accepted # NoValues => AreFields(accepted)

\* The settings by name, so that the provers can count them.
LEMMA FieldIs ==
    Field = {"auth", "setupKey", "managementURL", "adminURL", "username",
             "interfaceName", "hostname", "preSharedKey"}
BY DEF Field, EditorNames

\* A setting has between one and four names.
LEMMA EditorNamesAre ==
    ASSUME NEW f \in Field
    PROVE  DOMAIN EditorNames[f] \in {1..2, 1..3, 1..4}
BY FieldIs DEF EditorNames

\* What is looked up is a text, an empty one if need be.
LEMMA FirstTyped ==
    ASSUME NEW values, \A k \in DOMAIN values : values[k] \in Text, NEW f \in Field
    PROVE  First(values, EditorNames[f]) \in Text
<1> DEFINE names == EditorNames[f]
           set == {i \in DOMAIN names : names[i] \in DOMAIN values /\ values[names[i]] # <<>>}
<1>1. set \in SUBSET Nat
  BY EditorNamesAre
<1>2. set # {} => Min(set) \in set
  BY <1>1, MinIsFirst
<1>3. <<>> \in Text
  BY EmptySeq DEF Text
<1> QED
  BY <1>2, <1>3 DEF First

\* A mode is one of three, whatever the text.
LEMMA AuthModeTyped ==
    ASSUME NEW text PROVE AuthMode(text) \in {"sso", "setup-key", "other"}
BY DEF AuthMode

\* The widgets are loaded with what can be saved.
LEMMA LoadedTyped ==
    ASSUME NEW c \in Connection
    PROVE  AreFields(Loaded(c))
<1>1. \A f \in Field : First(c.data, EditorNames[f]) \in Text
                      /\ First(c.secrets, EditorNames[f]) \in Text
  <2>1. \A s \in Sections : \A k \in DOMAIN c[s] : c[s][k] \in Text
    BY ConnectionAssumption DEF Text
  <2> QED
    BY <2>1, FirstTyped DEF Sections
<1>2. \A t \in Text : Trim(t) \in Text
  BY TrimProperties DEF Text
<1>3. "auth" \in Field /\ "auth" \notin Secret
  BY FieldIs DEF Secret
<1>4. Loaded(c).auth \in Modes
  BY <1>3, AuthModeTyped DEF Loaded, Modes
<1>5. ASSUME NEW f \in Field \ {"auth"} PROVE Loaded(c)[f] \in Text
  BY <1>1, <1>2 DEF Loaded
<1>6. Loaded(c) = [f \in Field |-> Loaded(c)[f]]
  BY DEF Loaded
<1> QED
  BY <1>4, <1>5, <1>6 DEF AreFields

\* What is read back from the widgets can be saved, too.
LEMMA FilledTyped ==
    ASSUME NEW entered, AreFields(entered)
    PROVE  AreFields(Filled(entered))
<1>1. \A t \in Text : Trim(t) \in Text
  BY TrimProperties DEF Text
<1>2. "auth" \in Field
  BY FieldIs
<1> QED
  BY <1>1, <1>2 DEF AreFields, Filled

\* The widgets are typed at first ...
LEMMA TypedInvariant == Init => Typed
BY LoadedTyped DEF Init, Typed

\* ... and after every step.
LEMMA TypedStep == Typed /\ [Next]_vars => Typed'
<1> SUFFICES ASSUME Typed, [Next]_vars PROVE Typed'
  OBVIOUS
<1>1. ASSUME NEW f \in Field, Edit(f) PROVE Typed'
  <2>1. PICK entry \in Entry(f) : fields' = [fields EXCEPT ![f] = entry]
    BY <1>1 DEF Edit
  <2>2. IF f = "auth" THEN entry \in Modes ELSE entry \in Text
    <3>1. AreFields(Loaded(base))
      BY LoadedTyped DEF Typed
    <3> QED
      BY <3>1, TextsAssumption DEF Entry, Modes, Text, AreFields
  <2>3. AreFields(fields')
    BY <2>1, <2>2, FieldIs DEF Typed, AreFields
  <2> QED
    BY <1>1, <2>3 DEF Edit, Typed
<1>2. CASE UpdateConnection
  <2>1. AreFields(Filled(fields))
    BY FilledTyped DEF Typed
  <2> QED
    BY <1>2, <2>1 DEF UpdateConnection, Typed
<1>3. CASE UNCHANGED vars
  BY <1>3 DEF vars, Typed
<1> QED
  BY <1>1, <1>2, <1>3 DEF Next

(* Whatever the connection says and the user enters, the widgets and what  *)
(* was accepted hold one of the two auth modes, and an update leaves alone *)
(* what the connection says itself (netbird_editor_values_load).           *)
THEOREM TypeCorrect == Spec => []TypeOK
<1>1. IInv /\ Typed => TypeOK
  <2> SUFFICES ASSUME IInv, Typed PROVE TypeOK
    OBVIOUS
  <2>1. DOMAIN draft = Sections /\ draft.scalars = base.scalars
    BY SavedSections DEF IInv, LastAcceptedWins, Sections
  <2>2. DOMAIN fields = Field /\ IsValues(fields)
    BY DEF Typed, AreFields, IsValues, Modes
  <2>3. accepted # NoValues => DOMAIN accepted = Field /\ IsValues(accepted)
    BY DEF Typed, AreFields, IsValues, Modes
  <2> QED
    BY <2>1, <2>2, <2>3 DEF TypeOK
<1> QED
  BY <1>1, InitIInv, StepIInv, TypedInvariant, TypedStep, PTL DEF Spec

-----------------------------------------------------------------------------
(* The names that the editor writes, as the service reads them.            *)

\* Which of the service's names of a setting is the one the editor writes.
Position(f) == IF f = "username" THEN 2 ELSE 1

\* The names that are written, without their marks.
LEMMA CanonicalNormal ==
    /\ NormalKey(Canonical("auth")) = <<"auth">>
    /\ NormalKey(Canonical("setupKey")) = <<"setup", "key">>
    /\ NormalKey(Canonical("managementURL")) = <<"management", "url">>
    /\ NormalKey(Canonical("adminURL")) = <<"admin", "url">>
    /\ NormalKey(Canonical("username")) = <<"user", "name">>
    /\ NormalKey(Canonical("interfaceName")) = <<"interface", "name">>
    /\ NormalKey(Canonical("hostname")) = <<"host", "name">>
    /\ NormalKey(Canonical("preSharedKey")) = <<"pre", "shared", "key">>
<1>1. /\ Canonical("auth") = <<"auth">>
      /\ Canonical("setupKey") = <<"setup", "-", "key">>
      /\ Canonical("managementURL") = <<"management", "-", "url">>
      /\ Canonical("adminURL") = <<"admin", "-", "url">>
      /\ Canonical("username") = <<"user", "name">>
      /\ Canonical("interfaceName") = <<"interface", "-", "name">>
      /\ Canonical("hostname") = <<"host", "name">>
      /\ Canonical("preSharedKey") = <<"pre", "-", "shared", "-", "key">>
  BY DEF Canonical, EditorNames
<1>2. /\ "-" \in Mark
      /\ \A w \in {"auth", "setup", "key", "management", "url", "admin", "user", "name",
                   "interface", "host", "pre", "shared"} : w \notin Mark
  BY DEF Mark, White
<1> QED
  BY <1>1, <1>2, NormalWord, NormalTwoWords, NormalMarkedWords, NormalAllMarked

\* No two settings share a name, and each is written under one of its own.
LEMMA CanonicalNames ==
    ASSUME NEW f \in Field, NEW g \in Field, NEW i \in DOMAIN Names[f]
    PROVE  NormalKey(Canonical(g)) = Names[f][i] <=> g = f /\ i = Position(f)
BY CanonicalNormal, FieldIs DEF Names, AuthKeys, SetupKeyKeys, Position

\* The service looks up the same settings as the editor.
LEMMA NamesAre ==
    /\ DOMAIN Names = Field
    /\ \A f \in Field : DOMAIN Names[f] \in SUBSET Nat /\ Position(f) \in DOMAIN Names[f]
BY FieldIs DEF Names, AuthKeys, SetupKeyKeys, Position

\* No two settings are written under one name.
LEMMA CanonicalApart ==
    ASSUME NEW f \in Field, NEW g \in Field, Canonical(f) = Canonical(g)
    PROVE  f = g
BY CanonicalNames, NamesAre

\* What a connection says itself is not found under another name.
LEMMA ScalarNormal ==
    ASSUME NEW k \in ScalarNames, NEW f \in Field, NEW i \in DOMAIN Names[f],
           NormalKey(k) = Names[f][i]
    PROVE  i = Position(f)
<1>1. {"user", "name", "interface"} \cap Mark = {} /\ "-" \in Mark
  BY DEF Mark, White
<1>2. NormalKey(<<"user", "-", "name">>) = <<"user", "name">>
  BY <1>1, NormalMarkedWords
<1>3. NormalKey(<<"interface", "-", "name">>) = <<"interface", "name">>
  BY <1>1, NormalMarkedWords
<1>4. NormalKey(k) \in {NormalKey(Canonical("username")), NormalKey(Canonical("interfaceName"))}
  BY <1>2, <1>3, CanonicalNormal DEF ScalarNames
<1> QED
  BY <1>4, CanonicalNames, FieldIs

\* A connection cannot say a setup key by itself.
LEMMA ScalarIsNoSetupKey ==
    ASSUME NEW k \in ScalarNames, NEW i \in DOMAIN Names["setupKey"]
    PROVE  NormalKey(k) # Names["setupKey"][i]
<1>1. {"user", "name", "interface"} \cap Mark = {} /\ "-" \in Mark
  BY DEF Mark, White
<1>2. NormalKey(k) \in {<<"user", "name">>, <<"interface", "name">>}
  BY <1>1, NormalMarkedWords DEF ScalarNames
<1> QED
  BY <1>2 DEF Names, SetupKeyKeys

-----------------------------------------------------------------------------
(* A connection that was saved, as the service reads it.                   *)

\* What a connection that says nothing but this would be.
Own(scalars) == [data |-> << >>, secrets |-> << >>, scalars |-> scalars]

\* What is written is there afterwards.
LEMMA ReplacedAt ==
    ASSUME NEW texts, NEW removed, NEW values, NEW added \in SUBSET Field, NEW f \in added
    PROVE  /\ Canonical(f) \in DOMAIN Replaced(texts, removed, values, added)
           /\ Replaced(texts, removed, values, added)[Canonical(f)] = Written(values, f)
<1> DEFINE FieldOf(k) == CHOOSE g \in added : Canonical(g) = k
<1>1. FieldOf(Canonical(f)) = f
  BY CanonicalApart
<1> QED
  BY <1>1 DEF Replaced

\* Where every other spelling of a setting is removed, the one that is written is
\* the only one.
LEMMA ReplacedSpellings ==
    ASSUME NEW texts, NEW removed, NEW values, NEW added \in SUBSET Field,
           NEW f \in Field, NEW i \in DOMAIN Names[f],
           \A k \in DOMAIN texts : NormalKey(k) = Names[f][i] => k \in removed
    PROVE  Spellings(Replaced(texts, removed, values, added), Names[f][i])
             = IF f \in added /\ i = Position(f) THEN {Canonical(f)} ELSE {}
<1> DEFINE new == Replaced(texts, removed, values, added)
<1>1. DOMAIN new = (DOMAIN texts \ removed) \cup {Canonical(g) : g \in added}
  BY DEF Replaced
<1> HIDE DEF new
<1>2. Spellings(new, Names[f][i])
        = {k \in {Canonical(g) : g \in added} : NormalKey(k) = Names[f][i]}
  BY <1>1 DEF Spellings
<1>3. ASSUME NEW g \in added
      PROVE  NormalKey(Canonical(g)) = Names[f][i] <=> g = f /\ i = Position(f)
  BY CanonicalNames
<1>4. Spellings(new, Names[f][i]) = IF f \in added /\ i = Position(f) THEN {Canonical(f)} ELSE {}
  BY <1>2, <1>3
<1> QED
  BY <1>4 DEF new

AddedTo(values) == Added(values, Plain) \cup Added(values, Secret)

\* Secrets are written to the secrets, and all else to the data.
LEMMA AddedFields ==
    ASSUME NEW values
    PROVE  /\ Added(values, Plain) \in SUBSET Field /\ Added(values, Secret) \in SUBSET Field
           /\ Added(values, Plain) \cap Secret = {} /\ Added(values, Secret) \subseteq Secret
BY FieldIs DEF Added, Plain, Secret

\* The editor knows every spelling that the connection has of the setting.
Knows(c, f) ==
    /\ \A k \in DOMAIN c.data : NamesSetting(k, f) => k \in KnownTo(f)
    /\ \A k \in DOMAIN c.secrets :
            NamesSetting(k, f) => f \in Secret /\ k \in KnownTo(f)

\* A connection without foreign spellings is known in each setting.
LEMMA NothingForeign ==
    ASSUME NEW c, ~Foreign(c)
    PROVE  \A f \in Field : Knows(c, f)
BY DEF Foreign, Knows

\* After a save a setting is spelled as it was written, or nowhere.
LEMMA SavedSpellings ==
    ASSUME NEW c \in Connection, NEW values,
           NEW f \in Field, Knows(c, f), NEW i \in DOMAIN Names[f]
    PROVE  LET n == Names[f][i]
               d == Saved(c, values)
           IN  /\ Spellings(d.data, n) =
                    IF f \in Added(values, Plain) /\ i = Position(f) THEN {Canonical(f)} ELSE {}
               /\ Spellings(d.secrets, n) =
                    IF f \in Added(values, Secret) /\ i = Position(f) THEN {Canonical(f)} ELSE {}
<1>1. /\ Saved(c, values).data = NewData(c, values)
      /\ Saved(c, values).secrets = NewSecrets(c, values)
  BY ConnectionAssumption, SavedSections DEF Sections
<1>2. \A k \in DOMAIN c.data : NormalKey(k) = Names[f][i] => k \in RemovedData
  <2>1. \A k \in DOMAIN c.data : NormalKey(k) = Names[f][i] => k \in KnownTo(f)
    BY DEF Knows, NamesSetting
  <2> QED
    BY <2>1 DEF RemovedData
<1>3. \A k \in DOMAIN c.secrets : NormalKey(k) = Names[f][i] => k \in RemovedSecrets
  <2>1. \A k \in DOMAIN c.secrets :
          NormalKey(k) = Names[f][i] => f \in Secret /\ k \in KnownTo(f)
    BY DEF Knows, NamesSetting
  <2> QED
    BY <2>1 DEF RemovedSecrets
<1>4. Spellings(NewData(c, values), Names[f][i]) =
        IF f \in Added(values, Plain) /\ i = Position(f) THEN {Canonical(f)} ELSE {}
  BY <1>2, AddedFields, ReplacedSpellings DEF NewData
<1>5. Spellings(NewSecrets(c, values), Names[f][i]) =
        IF f \in Added(values, Secret) /\ i = Position(f) THEN {Canonical(f)} ELSE {}
  BY <1>3, AddedFields, ReplacedSpellings DEF NewSecrets
<1> QED
  BY <1>1, <1>4, <1>5

\* What the service reads under one name: what was written, or what the
\* connection says itself.
LEMMA SavedFlattened ==
    ASSUME NEW c \in Connection, NEW values,
           NEW f \in Field, Knows(c, f), NEW i \in DOMAIN Names[f]
    PROVE  Flattened(Saved(c, values), Names[f][i])
             = IF f \in AddedTo(values) /\ i = Position(f) THEN Trim(Written(values, f))
               ELSE Flattened(Own(c.scalars), Names[f][i])
<1> DEFINE n == Names[f][i]
           d == Saved(c, values)
<1>1. /\ d.data = NewData(c, values) /\ d.secrets = NewSecrets(c, values)
      /\ d.scalars = c.scalars
  BY ConnectionAssumption, SavedSections DEF Sections
<1>2. /\ Own(c.scalars).data = << >> /\ Own(c.scalars).secrets = << >>
      /\ Own(c.scalars).scalars = c.scalars
  BY DEF Own
<1>3. Spellings(<< >>, n) = {}
  BY DEF Spellings
<1>4. /\ Spellings(d.data, n) =
           IF f \in Added(values, Plain) /\ i = Position(f) THEN {Canonical(f)} ELSE {}
      /\ Spellings(d.secrets, n) =
           IF f \in Added(values, Secret) /\ i = Position(f) THEN {Canonical(f)} ELSE {}
  BY SavedSpellings
<1>5. /\ f \in Added(values, Plain) => d.data[Canonical(f)] = Written(values, f)
      /\ f \in Added(values, Secret) => d.secrets[Canonical(f)] = Written(values, f)
  BY <1>1, AddedFields, ReplacedAt DEF NewData, NewSecrets
<1> HIDE DEF n, d
<1>6. CASE f \in Added(values, Secret) /\ i = Position(f)
  BY <1>4, <1>5, <1>6, LastOfOne DEF Flattened, AddedTo, n, d
<1>7. CASE f \in Added(values, Plain) /\ i = Position(f)
  <2>1. f \notin Added(values, Secret)
    BY <1>7, AddedFields
  <2> QED
    BY <1>4, <1>5, <1>7, <2>1, LastOfOne DEF Flattened, AddedTo, n, d
<1>8. CASE ~(f \in AddedTo(values) /\ i = Position(f))
  <2>1. Spellings(d.data, n) = {} /\ Spellings(d.secrets, n) = {}
    BY <1>4, <1>8 DEF AddedTo
  <2>2. Flattened(d, n) = Flattened(Own(c.scalars), n)
    BY <1>1, <1>2, <1>3, <2>1 DEF Flattened
  <2> QED
    BY <1>8, <2>2 DEF n, d
<1> QED
  BY <1>6, <1>7, <1>8 DEF AddedTo

KeyModes == {<<"setup", "-", "key">>, <<"setup", "key">>, <<"key">>}
SSOModes == {<<>>, <<"sso">>, <<"browser">>, <<"interactive">>, <<"login">>,
             <<"force", "-", "login">>, <<"reuse">>}

\* An auth mode that is written with hyphens only is looked up as it is.
LEMMA AuthModeIs ==
    ASSUME NEW S, "_" \notin S, NEW t \in Seq(S), Trim(t) = t
    PROVE  /\ t \in KeyModes \ SSOModes => AuthMode(t) = "setup-key"
           /\ t \in SSOModes \ KeyModes => AuthMode(t) = "sso"
<1> DEFINE mode == [i \in DOMAIN Trim(t) |->
                      IF Trim(t)[i] = "_" THEN "-" ELSE Trim(t)[i]]
<1>0. t = [i \in DOMAIN t |-> t[i]] /\ \A i \in DOMAIN t : t[i] # "_"
  BY LenProperties, ElementOfSeq
<1>1. DOMAIN mode = DOMAIN t /\ \A i \in DOMAIN t : mode[i] = t[i]
  BY <1>0
<1>2. mode = [i \in DOMAIN mode |-> mode[i]]
  OBVIOUS
<1>3. AuthMode(t) = CASE mode \in KeyModes -> "setup-key"
                      [] mode \in SSOModes -> "sso"
                      [] OTHER -> "other"
  BY Zenon DEF AuthMode, KeyModes, SSOModes
<1> HIDE DEF mode
<1>4. mode = t
  BY <1>0, <1>1, <1>2
<1> QED
  BY <1>3, <1>4

\* The two auth modes, as they are written.
LEMMA WrittenModes ==
    /\ Trim(<<"sso">>) = <<"sso">> /\ AuthMode(<<"sso">>) = "sso"
    /\ Trim(<<"setup", "-", "key">>) = <<"setup", "-", "key">>
    /\ AuthMode(<<"setup", "-", "key">>) = "setup-key"
<1> DEFINE one == <<"sso">>
           three == <<"setup", "-", "key">>
<1>1. /\ one \in Seq({"sso"}) /\ one # <<>> /\ Len(one) = 1 /\ one[1] \notin White
      /\ DOMAIN one = 1..1
  BY DEF White
<1>2. /\ three \in Seq({"setup", "-", "key"}) /\ three # <<>> /\ Len(three) = 3
      /\ three[1] \notin White /\ three[3] \notin White /\ DOMAIN three = 1..3
  BY DEF White
<1>3. "_" \notin {"sso"} /\ "_" \notin {"setup", "-", "key"}
  OBVIOUS
<1>4. one \in SSOModes \ KeyModes /\ three \in KeyModes \ SSOModes
  BY DEF SSOModes, KeyModes
<1> HIDE DEF one, three
<1>5. Trim(one) = one /\ Trim(three) = three
  BY <1>1, <1>2, TrimmedIsTrim
<1>6. AuthMode(three) = "setup-key" /\ AuthMode(one) = "sso"
  BY <1>1, <1>2, <1>3, <1>4, <1>5, AuthModeIs
<1> QED
  BY <1>5, <1>6 DEF one, three

\* What is written is never blank, and reads as what was entered.
LEMMA WrittenReads ==
    ASSUME NEW values, AreFields(values), NEW f \in AddedTo(values)
    PROVE  /\ Trim(Written(values, f)) # <<>>
           /\ f # "auth" => Trim(Written(values, f)) = Trim(values[f])
           /\ f = "auth" => AuthMode(Trim(Written(values, f))) = values.auth
<1>1. /\ Trim(<<"sso">>) = <<"sso">> /\ <<"sso">> # <<>>
      /\ Trim(<<"setup", "-", "key">>) = <<"setup", "-", "key">>
      /\ <<"setup", "-", "key">> # <<>>
  BY WrittenModes
<1>2. CASE f = "auth"
  <2>1. /\ values.auth = "sso" => Written(values, f) = <<"sso">>
        /\ values.auth = "setup-key" => Written(values, f) = <<"setup", "-", "key">>
    BY <1>2 DEF Written, Secret
  <2> QED
    BY <1>1, <1>2, <2>1, WrittenModes DEF AreFields, Modes
<1>3. CASE f # "auth"
  <2>1. f \in Field /\ Trim(values[f]) # <<>>
    BY <1>3, AddedFields DEF AddedTo, Added
  <2>2. values[f] \in Text
    BY <1>3, <2>1 DEF AreFields
  <2>3. Trim(Trim(values[f])) = Trim(values[f])
    BY <2>2, TrimProperties DEF Text
  <2> QED
    BY <1>3, <2>1, <2>3 DEF Written
<1> QED
  BY <1>2, <1>3

\* What the service reads of a setting that was saved.
LEMMA SavedFirst ==
    ASSUME NEW c \in Connection, NEW values, AreFields(values),
           NEW f \in Field, Knows(c, f)
    PROVE  FirstSetting(Saved(c, values), Names[f])
             = IF f \in AddedTo(values) THEN Trim(Written(values, f))
               ELSE FirstSetting(Own(c.scalars), Names[f])
<1> DEFINE d == Saved(c, values)
           own == Own(c.scalars)
           set == {i \in DOMAIN Names[f] : Flattened(d, Names[f][i]) # <<>>}
<1>1. \A i \in DOMAIN Names[f] :
        Flattened(d, Names[f][i])
          = IF f \in AddedTo(values) /\ i = Position(f) THEN Trim(Written(values, f))
            ELSE Flattened(own, Names[f][i])
  BY SavedFlattened
<1>2. set \in SUBSET Nat /\ Position(f) \in DOMAIN Names[f]
  BY NamesAre
<1>3. CASE f \in AddedTo(values)
  <2>1. Flattened(d, Names[f][Position(f)]) = Trim(Written(values, f))
    BY <1>1, <1>2, <1>3
  <2>2. Position(f) \in set
    BY <1>2, <1>3, <2>1, WrittenReads
  <2>3. ASSUME NEW i \in DOMAIN Names[f], i # Position(f)
        PROVE  Flattened(own, Names[f][i]) = <<>>
    <3>1. Spellings(own.scalars, Names[f][i]) = {}
      BY <2>3, ScalarNormal, ConnectionAssumption DEF Spellings, Own
    <3>2. Spellings(own.data, Names[f][i]) = {} /\ Spellings(own.secrets, Names[f][i]) = {}
      BY DEF Spellings, Own
    <3> QED
      BY <3>1, <3>2 DEF Flattened
  <2>4. set = {Position(f)}
    BY <1>1, <2>2, <2>3
  <2>5. Min(set) = Position(f)
    BY <1>2, <2>4, MinIsFirst
  <2> QED
    BY <1>3, <2>1, <2>4, <2>5 DEF FirstSetting
<1>4. CASE f \notin AddedTo(values)
  <2>1. \A i \in DOMAIN Names[f] : Flattened(d, Names[f][i]) = Flattened(own, Names[f][i])
    BY <1>1, <1>4
  <2>2. set = {i \in DOMAIN Names[f] : Flattened(own, Names[f][i]) # <<>>}
    BY <2>1
  <2>3. set # {} => Min(set) \in DOMAIN Names[f]
    BY <1>2, MinIsFirst
  <2> QED
    BY <1>4, <2>1, <2>2, <2>3 DEF FirstSetting
<1> QED
  BY <1>3, <1>4

\* What an activation uses of a saved connection is what was promised.
LEMMA SavedUsed ==
    ASSUME NEW c \in Connection, ~Foreign(c), NEW values, AreFields(values)
    PROVE  Used(Saved(c, values)) = Promised(values, c.scalars)
<1> DEFINE d == Saved(c, values)
           parsed == ParseActivationSettings(d)
           promised == Promised(values, c.scalars)
           Asked(f) == IF Trim(values[f]) = <<>> THEN FirstSetting(Own(c.scalars), Names[f])
                       ELSE Trim(values[f])
<1>1. \A f \in Field :
        FirstSetting(d, Names[f])
          = IF f \in AddedTo(values) THEN Trim(Written(values, f))
            ELSE FirstSetting(Own(c.scalars), Names[f])
  BY NothingForeign, SavedFirst
<1>2. \A f \in Field :
        f \in AddedTo(values) <=>
            f = "auth" \/ (Trim(values[f]) # <<>>
                            /\ (f = "setupKey" => values.auth = "setup-key"))
  BY FieldIs DEF AddedTo, Added, Plain, Secret
<1>3. /\ parsed = [f \in Field |-> parsed[f]]
      /\ \A f \in Field :
            parsed[f] = CASE f = "auth" -> AuthMode(FirstSetting(d, Names[f]))
                          [] f = "interfaceName" -> NormalInterfaceName(FirstSetting(d, Names[f]))
                          [] OTHER -> FirstSetting(d, Names[f])
  BY NamesAre DEF ParseActivationSettings
<1>4. promised = [f \in Field |->
            CASE f = "auth" -> values.auth
              [] f = "setupKey" /\ values.auth = "sso" -> <<>>
              [] f = "interfaceName" -> NormalInterfaceName(Asked(f))
              [] OTHER -> Asked(f)]
  BY DEF Promised, Own
<1> HIDE DEF d, parsed, promised
<1>5. ASSUME NEW f \in Field \ {"auth"}, f = "setupKey" => values.auth = "setup-key"
      PROVE  FirstSetting(d, Names[f]) = Asked(f)
  BY <1>1, <1>2, <1>5, WrittenReads
<1>6. parsed.auth = values.auth /\ "auth" \in Field /\ "setupKey" \in Field
  BY <1>1, <1>2, <1>3, WrittenReads, FieldIs
<1>7. Used(d) = IF values.auth = "setup-key" THEN parsed ELSE [parsed EXCEPT !.setupKey = <<>>]
  BY <1>6 DEF Used, parsed
<1> HIDE DEF Asked
<1>8. ASSUME NEW f \in Field, f = "setupKey" => values.auth = "setup-key"
      PROVE  parsed[f] = promised[f]
  <2>1. f # "auth" => FirstSetting(d, Names[f]) = Asked(f)
    BY <1>5, <1>8
  <2>2. f = "auth" => parsed[f] = promised[f]
    BY <1>4, <1>6
  <2>3. f = "interfaceName" => parsed[f] = promised[f]
    BY <1>3, <1>4, <2>1
  <2>4. f \notin {"auth", "interfaceName"} => parsed[f] = promised[f]
    BY <1>3, <1>4, <1>8, <2>1
  <2> QED
    BY <2>2, <2>3, <2>4
<1>9. promised = [f \in Field |-> promised[f]]
  BY <1>4
<1>10. CASE values.auth = "setup-key"
  <2>1. parsed = promised
    BY <1>3, <1>8, <1>9, <1>10
  <2> QED
    BY <1>7, <1>10, <2>1 DEF d, promised
<1>11. CASE values.auth = "sso"
  <2>1. promised.setupKey = <<>>
    BY <1>4, <1>6, <1>11
  <2>2. \A f \in Field : [parsed EXCEPT !.setupKey = <<>>][f] = promised[f]
    BY <1>3, <1>8, <2>1
  <2>3. [parsed EXCEPT !.setupKey = <<>>] = promised
    BY <1>3, <1>9, <2>2
  <2> QED
    BY <1>7, <1>11, <2>3 DEF d, promised
<1> QED
  BY <1>10, <1>11 DEF AreFields, Modes, d, promised

(* For any connection without spellings that only the service knows: an    *)
(* activation after an update uses what was entered, an older name or an   *)
(* older save notwithstanding (set_data_item, set_secret_item, against     *)
(* parseActivationSettings).                                               *)
THEOREM SavedIsUsedCorrect == Spec => []SavedIsUsed
<1>1. IInv /\ Typed => SavedIsUsed
  BY SavedUsed DEF IInv, LastAcceptedWins, Typed, SavedIsUsed
<1> QED
  BY <1>1, InitIInv, StepIInv, TypedInvariant, TypedStep, PTL DEF Spec

-----------------------------------------------------------------------------
(* A connection that was saved, as the auth dialog reads it.               *)

\* In a saved connection the dialog finds what was written, and nothing else.
LEMMA SavedFound ==
    ASSUME NEW c \in Connection, ~Foreign(c), NEW values, AreFields(values), NEW f \in Field
    PROVE  LET data == Trimmed(Saved(c, values).data)
               secrets == Saved(c, values).secrets
           IN  /\ f \in Added(values, Plain) =>
                    FoundOnlyAt(data, Names[f], Position(f), Trim(Written(values, f)))
               /\ f \notin Added(values, Plain) => FoundNowhere(data, Names[f])
               /\ f \in Added(values, Secret) =>
                    FoundOnlyAt(secrets, Names[f], Position(f), Written(values, f))
               /\ f \notin Added(values, Secret) => FoundNowhere(secrets, Names[f])
<1> DEFINE d == Saved(c, values)
           data == Trimmed(d.data)
<1>1. ASSUME NEW i \in DOMAIN Names[f]
      PROVE  /\ Spellings(d.data, Names[f][i]) =
                  IF f \in Added(values, Plain) /\ i = Position(f) THEN {Canonical(f)} ELSE {}
             /\ Spellings(d.secrets, Names[f][i]) =
                  IF f \in Added(values, Secret) /\ i = Position(f) THEN {Canonical(f)} ELSE {}
  BY NothingForeign, SavedSpellings
<1>2. d.data = NewData(c, values) /\ d.secrets = NewSecrets(c, values)
  BY ConnectionAssumption, SavedSections DEF Sections
<1>3. /\ f \in Added(values, Plain) =>
            Canonical(f) \in DOMAIN d.data /\ d.data[Canonical(f)] = Written(values, f)
      /\ f \in Added(values, Secret) => d.secrets[Canonical(f)] = Written(values, f)
  BY <1>2, AddedFields, ReplacedAt DEF NewData, NewSecrets
<1>4. Position(f) \in DOMAIN Names[f]
  BY NamesAre
<1>5. f \in AddedTo(values) => Trim(Written(values, f)) # <<>> /\ Written(values, f) # <<>>
  <2>1. Trim(<<>>) = <<>>
    BY DEF Trim
  <2> QED
    BY <2>1, WrittenReads
<1> HIDE DEF d
<1>6. \A n : Spellings(data, n) = Spellings(d.data, n)
  BY DEF Spellings, Trimmed
<1>7. f \in Added(values, Plain) => data[Canonical(f)] = Trim(Written(values, f))
  BY <1>3 DEF Trimmed
<1> HIDE DEF data
<1>8. CASE f \in Added(values, Plain)
  <2>1. FoundOnlyAt(data, Names[f], Position(f), Trim(Written(values, f)))
    BY <1>1, <1>4, <1>5, <1>6, <1>7, <1>8 DEF FoundOnlyAt, Candidates, AddedTo
  <2>2. f \notin Added(values, Secret)
    BY <1>8, AddedFields
  <2>3. FoundNowhere(d.secrets, Names[f])
    BY <1>1, <2>2 DEF FoundNowhere, Candidates
  <2> QED
    BY <1>8, <2>1, <2>2, <2>3 DEF d, data
<1>9. CASE f \in Added(values, Secret)
  <2>1. FoundOnlyAt(d.secrets, Names[f], Position(f), Written(values, f))
    BY <1>1, <1>3, <1>4, <1>5, <1>9 DEF FoundOnlyAt, Candidates, AddedTo
  <2>2. f \notin Added(values, Plain)
    BY <1>9, AddedFields
  <2>3. FoundNowhere(data, Names[f])
    BY <1>1, <1>6, <2>2 DEF FoundNowhere, Candidates
  <2> QED
    BY <1>9, <2>1, <2>2, <2>3 DEF d, data
<1>10. CASE f \notin AddedTo(values)
  <2>1. f \notin Added(values, Plain) /\ f \notin Added(values, Secret)
    BY <1>10 DEF AddedTo
  <2>2. FoundNowhere(data, Names[f]) /\ FoundNowhere(d.secrets, Names[f])
    BY <1>1, <1>6, <2>1 DEF FoundNowhere, Candidates
  <2> QED
    BY <2>1, <2>2 DEF d, data
<1> QED
  BY <1>8, <1>9, <1>10 DEF AddedTo

\* The dialog reads the mode that was saved.
LEMMA SavedAuthMode ==
    ASSUME NEW c \in Connection, ~Foreign(c), NEW values, AreFields(values)
    PROVE  AuthModes(Saved(c, values)) = {values.auth}
<1> DEFINE data == Trimmed(Saved(c, values).data)
           text == Trim(Written(values, "auth"))
<1>1. "auth" \in Added(values, Plain) /\ "auth" \in AddedTo(values) /\ "auth" \in Field
  BY FieldIs DEF Added, Plain, Secret, AddedTo
<1>2. AuthMode(text) = values.auth
  BY <1>1, WrittenReads
<1>3. Names["auth"] = AuthKeys
  BY DEF Names
<1>4. FoundOnlyAt(data, Names["auth"], Position("auth"), text)
  BY <1>1, SavedFound
<1> HIDE DEF data, text
<1>5. FirstValues(data, AuthKeys) = {text}
  BY <1>3, <1>4, KeysAreSequences, OnlyCandidate
<1> QED
  BY <1>2, <1>5 DEF AuthModes, data

\* The dialog reads the setup key that was saved, or none.
LEMMA SavedSetupKey ==
    ASSUME NEW c \in Connection, ~Foreign(c), NEW values, AreFields(values),
           NEW key \in SetupKeys(Saved(c, values))
    PROVE  key = IF "setupKey" \in Added(values, Secret) THEN values.setupKey ELSE <<>>
<1> DEFINE secrets == Saved(c, values).secrets
           data == Trimmed(Saved(c, values).data)
           there == "setupKey" \in Added(values, Secret)
<1>1. /\ "setupKey" \in Field /\ "setupKey" \notin Added(values, Plain)
      /\ Written(values, "setupKey") = values.setupKey
  BY FieldIs DEF Added, Plain, Secret, Written
<1>2. Names["setupKey"] = SetupKeyKeys
  BY DEF Names
<1>3. /\ FoundNowhere(data, SetupKeyKeys)
      /\ there => FoundOnlyAt(secrets, SetupKeyKeys, Position("setupKey"), values.setupKey)
      /\ ~there => FoundNowhere(secrets, SetupKeyKeys)
  BY <1>1, <1>2, SavedFound
<1> HIDE DEF secrets, data, there
<1>4. FirstValues(data, SetupKeyKeys) = {<<>>}
  BY <1>3, KeysAreSequences, NoCandidate
<1>5. CASE there
  <2>1. FirstValues(secrets, SetupKeyKeys) = {values.setupKey}
    BY <1>3, <1>5, KeysAreSequences, OnlyCandidate
  <2>2. values.setupKey # <<>>
    BY <1>3, <1>5 DEF FoundOnlyAt
  <2> QED
    BY <1>5, <2>1, <2>2 DEF SetupKeys, secrets, there
<1>6. CASE ~there
  <2>1. FirstValues(secrets, SetupKeyKeys) = {<<>>}
    BY <1>3, <1>6, KeysAreSequences, NoCandidate
  <2> QED
    BY <1>4, <1>6, <2>1 DEF SetupKeys, secrets, data, there
<1> QED
  BY <1>5, <1>6

(* After an update the auth dialog and the service agree about the         *)
(* connection: the mode that was chosen, and the key that was entered      *)
(* (setupKeyRequirement, against what netbird_editor_values_save writes).  *)
THEOREM DialogReadsSavedCorrect == Spec => []DialogReadsSaved
<1>1. ASSUME NEW c \in Connection, ~Foreign(c), NEW values, AreFields(values)
      PROVE  /\ AuthModes(Saved(c, values)) = {Used(Saved(c, values)).auth}
             /\ Used(Saved(c, values)).auth = "setup-key" =>
                  \A key \in SetupKeys(Saved(c, values)) :
                     Trim(key) = Used(Saved(c, values)).setupKey
  <2> DEFINE used == Promised(values, c.scalars)
  <2>1. Used(Saved(c, values)) = used
    BY <1>1, SavedUsed
  <2>2. "auth" \in Field /\ "setupKey" \in Field /\ "setupKey" \in Secret
    BY FieldIs DEF Secret
  <2>3. used.auth = values.auth
    BY <2>2 DEF Promised
  <2>4. ASSUME values.auth = "setup-key", NEW key \in SetupKeys(Saved(c, values))
        PROVE  Trim(key) = used.setupKey
    <3>1. key = IF "setupKey" \in Added(values, Secret) THEN values.setupKey ELSE <<>>
      BY <1>1, <2>4, SavedSetupKey
    <3>2. "setupKey" \in Added(values, Secret) <=> Trim(values.setupKey) # <<>>
      BY <2>2, <2>4 DEF Added
    <3>3. FirstSetting(Own(c.scalars), Names["setupKey"]) = <<>>
      <4>1. ASSUME NEW i \in DOMAIN Names["setupKey"]
            PROVE  Flattened(Own(c.scalars), Names["setupKey"][i]) = <<>>
        <5>1. Spellings(c.scalars, Names["setupKey"][i]) = {}
          <6>1. \A k \in ScalarNames : NormalKey(k) # Names["setupKey"][i]
            BY ScalarIsNoSetupKey
          <6> QED
            BY <6>1, ConnectionAssumption DEF Spellings
        <5>2. Spellings(<< >>, Names["setupKey"][i]) = {}
          BY DEF Spellings
        <5> QED
          BY <5>1, <5>2 DEF Flattened, Own
      <4> QED
        BY <2>2, <4>1, NoFirstSetting, NamesAre
    <3>4. used.setupKey = IF Trim(values.setupKey) = <<>>
                          THEN FirstSetting(Own(c.scalars), Names["setupKey"])
                          ELSE Trim(values.setupKey)
      BY <2>2, <2>4 DEF Promised, Own
    <3>5. Trim(<<>>) = <<>>
      BY DEF Trim
    <3> QED
      BY <3>1, <3>2, <3>3, <3>4, <3>5
  <2> QED
    BY <1>1, <2>1, <2>3, <2>4, SavedAuthMode
<1>2. IInv /\ Typed => DialogReadsSaved
  BY <1>1 DEF IInv, LastAcceptedWins, Typed, DialogReadsSaved
<1> QED
  BY <1>2, InitIInv, StepIInv, TypedInvariant, TypedStep, PTL DEF Spec

-----------------------------------------------------------------------------
(* A connection that is saved as it was shown.                             *)

\* Whatever name the editor knows of a setting, the service knows it, too.
LEMMA KnownNames ==
    ASSUME NEW f \in Field, NEW k \in KnownTo(f)
    PROVE  NamesSetting(k, f)
<1>1. /\ "-" \in Mark
      /\ \A w \in {"auth", "mode", "authentication", "login", "setup", "key", "netbird",
                   "management", "url", "admin", "user", "name", "interface", "host",
                   "pre", "shared"} : w \notin Mark
  BY DEF Mark, White
<1>2. KnownTo(f) = {EditorNames[f][i] : i \in DOMAIN EditorNames[f]}
  BY DEF KnownTo
<1>3. CASE f = "auth"
  <2>1. k \in {<<"auth">>, <<"auth", "-", "mode">>, <<"authentication">>,
               <<"login", "-", "mode">>}
    BY <1>2, <1>3 DEF EditorNames
  <2>2. NormalKey(k) \in {<<"auth">>, <<"auth", "mode">>, <<"authentication">>,
                          <<"login", "mode">>}
    BY <1>1, <2>1, NormalWord, NormalMarkedWords
  <2> QED
    BY <1>3, <2>2 DEF NamesSetting, Names, AuthKeys
<1>4. CASE f = "setupKey"
  <2>1. k \in {<<"setup", "-", "key">>, <<"setup", "key">>,
               <<"netbird", "-", "setup", "-", "key">>}
    BY <1>2, <1>4 DEF EditorNames
  <2>2. NormalKey(k) \in {<<"setup", "key">>, <<"netbird", "setup", "key">>}
    BY <1>1, <2>1, NormalMarkedWords, NormalTwoWords, NormalAllMarked
  <2> QED
    BY <1>4, <2>2 DEF NamesSetting, Names, SetupKeyKeys
<1>5. CASE f = "managementURL"
  <2>1. k \in {<<"management", "-", "url">>, <<"management", "url">>,
               <<"netbird", "-", "management", "-", "url">>}
    BY <1>2, <1>5 DEF EditorNames
  <2>2. NormalKey(k) \in {<<"management", "url">>,
                          <<"netbird", "management", "url">>}
    BY <1>1, <2>1, NormalMarkedWords, NormalTwoWords, NormalAllMarked
  <2> QED
    BY <1>5, <2>2 DEF NamesSetting, Names
<1>6. CASE f = "adminURL"
  <2>1. k \in {<<"admin", "-", "url">>, <<"admin", "url">>,
               <<"netbird", "-", "admin", "-", "url">>}
    BY <1>2, <1>6 DEF EditorNames
  <2>2. NormalKey(k) \in {<<"admin", "url">>, <<"netbird", "admin", "url">>}
    BY <1>1, <2>1, NormalMarkedWords, NormalTwoWords, NormalAllMarked
  <2> QED
    BY <1>6, <2>2 DEF NamesSetting, Names
<1>7. CASE f = "username"
  <2>1. k \in {<<"user", "name">>, <<"user", "-", "name">>, <<"user">>,
               <<"netbird", "-", "user", "name">>}
    BY <1>2, <1>7 DEF EditorNames
  <2>2. NormalKey(k) \in {<<"user", "name">>, <<"user">>,
                          <<"netbird", "user", "name">>}
    BY <1>1, <2>1, NormalTwoWords, NormalMarkedWords, NormalWord, NormalLeftMarked
  <2> QED
    BY <1>7, <2>2 DEF NamesSetting, Names
<1>8. CASE f = "interfaceName"
  <2>1. k \in {<<"interface", "-", "name">>, <<"interface", "name">>,
               <<"netbird", "-", "interface", "-", "name">>}
    BY <1>2, <1>8 DEF EditorNames
  <2>2. NormalKey(k) \in {<<"interface", "name">>,
                          <<"netbird", "interface", "name">>}
    BY <1>1, <2>1, NormalMarkedWords, NormalTwoWords, NormalAllMarked
  <2> QED
    BY <1>8, <2>2 DEF NamesSetting, Names
<1>9. CASE f = "hostname"
  <2>1. k \in {<<"host", "name">>, <<"host", "-", "name">>}
    BY <1>2, <1>9 DEF EditorNames
  <2>2. NormalKey(k) \in {<<"host", "name">>}
    BY <1>1, <2>1, NormalTwoWords, NormalMarkedWords
  <2> QED
    BY <1>9, <2>2 DEF NamesSetting, Names
<1>10. CASE f = "preSharedKey"
  <2>1. k \in {<<"pre", "-", "shared", "-", "key">>,
               <<"pre", "shared", "-", "key">>, <<"pre", "shared", "key">>}
    BY <1>2, <1>10 DEF EditorNames
  <2>2. NormalKey(k) \in {<<"pre", "shared", "key">>}
    BY <1>1, <2>1, NormalAllMarked, NormalRightMarked, NormalThreeWords
  <2> QED
    BY <1>10, <2>2 DEF NamesSetting, Names
<1> QED
  BY <1>3, <1>4, <1>5, <1>6, <1>7, <1>8, <1>9, <1>10, FieldIs

\* The keys of a setting in a part of the connection.
Spelt(texts, f) == {k \in DOMAIN texts : NamesSetting(k, f)}

\* What the editor shows of a part that has the setting once, or not at all.
LEMMA ShownOnce ==
    ASSUME NEW texts, NEW f \in Field, NEW k \in KnownTo(f), Spelt(texts, f) = {k}
    PROVE  First(texts, EditorNames[f]) = texts[k]
<1> DEFINE names == EditorNames[f]
           set == {i \in DOMAIN names : names[i] \in DOMAIN texts /\ texts[names[i]] # <<>>}
<1>1. set \in SUBSET Nat
  BY EditorNamesAre
<1>2. \A i \in DOMAIN names : names[i] \in KnownTo(f)
  BY DEF KnownTo
<1>3. \A i \in set : names[i] = k
  BY <1>2, KnownNames DEF Spelt
<1>4. CASE set = {}
  <2>1. PICK i \in DOMAIN names : names[i] = k
    BY DEF KnownTo
  <2>2. k \in DOMAIN texts /\ i \notin set
    BY <1>4 DEF Spelt
  <2>3. texts[k] = <<>>
    BY <2>1, <2>2
  <2> QED
    BY <1>4, <2>3 DEF First
<1>5. CASE set # {}
  <2>1. Min(set) \in set
    BY <1>1, <1>5, MinIsFirst
  <2> QED
    BY <1>3, <1>5, <2>1 DEF First
<1> QED
  BY <1>4, <1>5

\* Of a setting that a part of the connection does not have it shows nothing.
LEMMA ShownNever ==
    ASSUME NEW texts, NEW f \in Field, Spelt(texts, f) = {}
    PROVE  First(texts, EditorNames[f]) = <<>>
<1>1. \A i \in DOMAIN EditorNames[f] : EditorNames[f][i] \in KnownTo(f)
  BY DEF KnownTo
<1>2. \A i \in DOMAIN EditorNames[f] : EditorNames[f][i] \notin DOMAIN texts
  BY <1>1, KnownNames DEF Spelt
<1> QED
  BY <1>2 DEF First

\* The service has no name of a setting twice.
LEMMA NamesApart ==
    ASSUME NEW f \in Field, NEW i \in DOMAIN Names[f], NEW j \in DOMAIN Names[f], i # j
    PROVE  Names[f][i] # Names[f][j]
BY FieldIs DEF Names, AuthKeys, SetupKeyKeys

\* Where the service finds a setting under one name only, it reads that.
LEMMA ReadAt ==
    ASSUME NEW d, NEW f \in Field, NEW p \in DOMAIN Names[f],
           \A i \in DOMAIN Names[f] \ {p} : Flattened(d, Names[f][i]) = <<>>
    PROVE  FirstSetting(d, Names[f]) = Flattened(d, Names[f][p])
<1> DEFINE set == {i \in DOMAIN Names[f] : Flattened(d, Names[f][i]) # <<>>}
<1>1. set \in SUBSET Nat /\ set \subseteq {p}
  BY NamesAre
<1>2. CASE set = {}
  BY <1>2 DEF FirstSetting
<1>3. CASE set # {}
  <2>1. Min(set) \in set
    BY <1>1, <1>3, MinIsFirst
  <2> QED
    BY <1>1, <1>3, <2>1 DEF FirstSetting
<1> QED
  BY <1>2, <1>3

\* The same of a connection that has it under one name, in the section that counts.
LEMMA ReadOnce ==
    ASSUME NEW d, NEW f \in Field, NEW s \in Sections, NEW k,
           Spelt(d[s], f) = {k},
           \A t \in Sections : \A j \in Spelt(d[t], f) : NormalKey(j) = NormalKey(k),
           s = "data" => Spelt(d.secrets, f) = {},
           s = "scalars" => Spelt(d.secrets, f) = {} /\ Spelt(d.data, f) = {}
    PROVE  FirstSetting(d, Names[f]) = Trim(d[s][k])
<1>1. PICK p \in DOMAIN Names[f] : NormalKey(k) = Names[f][p]
  BY DEF Spelt, NamesSetting
<1>2. \A t \in Sections : Spellings(d[t], Names[f][p]) = Spelt(d[t], f)
  BY <1>1 DEF Spelt, Spellings, NamesSetting
<1>3. ASSUME NEW i \in DOMAIN Names[f] \ {p}
      PROVE  Flattened(d, Names[f][i]) = <<>>
  <2>1. \A t \in Sections : Spellings(d[t], Names[f][i]) = {}
    <3>1. Names[f][i] # Names[f][p]
      BY NamesApart
    <3>2. \A t \in Sections : Spellings(d[t], Names[f][i]) \subseteq Spelt(d[t], f)
      BY DEF Spelt, Spellings, NamesSetting
    <3> QED
      BY <1>1, <3>1, <3>2 DEF Spellings
  <2> QED
    BY <2>1 DEF Flattened, Sections
<1>4. Flattened(d, Names[f][p]) = Trim(d[s][k])
  BY <1>2, LastOfOne DEF Flattened, Sections
<1> QED
  BY <1>3, <1>4, ReadAt

\* What only the connection itself says is what is left when the rest is gone.
LEMMA ReadOwn ==
    ASSUME NEW d, NEW f \in Field, Spelt(d.data, f) = {}, Spelt(d.secrets, f) = {}
    PROVE  FirstSetting(d, Names[f]) = FirstSetting(Own(d.scalars), Names[f])
<1> DEFINE own == Own(d.scalars)
<1>1. ASSUME NEW i \in DOMAIN Names[f]
      PROVE  Flattened(d, Names[f][i]) = Flattened(own, Names[f][i])
  <2>1. Spellings(d.data, Names[f][i]) = {} /\ Spellings(d.secrets, Names[f][i]) = {}
    BY DEF Spelt, Spellings, NamesSetting
  <2>2. Spellings(own.data, Names[f][i]) = {} /\ Spellings(own.secrets, Names[f][i]) = {}
    BY DEF Spellings, Own
  <2> QED
    BY <2>1, <2>2 DEF Flattened, Own
<1> HIDE DEF own
<1> DEFINE set == {i \in DOMAIN Names[f] : Flattened(d, Names[f][i]) # <<>>}
<1>2. set = {i \in DOMAIN Names[f] : Flattened(own, Names[f][i]) # <<>>}
  BY <1>1
<1>3. set # {} => Min(set) \in set
  BY NamesAre, MinIsFirst
<1> QED
  BY <1>1, <1>2, <1>3 DEF FirstSetting, own

\* Where the connection itself does not say a setting, nothing is left of it.
LEMMA NothingOwn ==
    ASSUME NEW scalars, NEW f \in Field, Spelt(scalars, f) = {}
    PROVE  FirstSetting(Own(scalars), Names[f]) = <<>>
<1>1. ASSUME NEW i \in DOMAIN Names[f]
      PROVE  Flattened(Own(scalars), Names[f][i]) = <<>>
  BY DEF Flattened, Own, Spellings, Spelt, NamesSetting
<1> QED
  BY <1>1, NamesAre, NoFirstSetting

\* The mode and the setup key cannot be said by the connection itself.
LEMMA ScalarIsNoAuth ==
    ASSUME NEW c \in Connection
    PROVE  Spelt(c.scalars, "auth") = {}
<1>1. {"user", "name", "interface"} \cap Mark = {} /\ "-" \in Mark
  BY DEF Mark, White
<1>2. \A k \in ScalarNames : NormalKey(k) \in {<<"user", "name">>, <<"interface", "name">>}
  BY <1>1, NormalMarkedWords DEF ScalarNames
<1>3. \A k \in ScalarNames : ~NamesSetting(k, "auth")
  BY <1>2 DEF NamesSetting, Names, AuthKeys
<1> QED
  BY <1>3, ConnectionAssumption DEF Spelt

\* What a part of a connection that has a setting once shows and says.
SaysOnce(c, f, s, k) ==
    /\ k \in KnownTo(f) /\ k \in DOMAIN c[s] /\ Spelt(c[s], f) = {k}
    /\ FirstSetting(c, Names[f]) = Trim(c[s][k])
    /\ Trim(c[s][k]) = <<>> => \A t \in Sections \ {s} : Spelt(c[t], f) = {}

\* A setting that is spelled once is in the secrets, or in the data and not in
\* the secrets, or in neither.
LEMMA SpelledWhere ==
    ASSUME NEW c \in Connection, NEW f \in Field, SpelledOnce(c, f)
    PROVE  \/ f \in Secret /\ \E k : SaysOnce(c, f, "secrets", k)
           \/ Spelt(c.secrets, f) = {} /\ \E k : SaysOnce(c, f, "data", k)
           \/ /\ Spelt(c.secrets, f) = {} /\ Spelt(c.data, f) = {}
              /\ FirstSetting(c, Names[f]) = FirstSetting(Own(c.scalars), Names[f])
<1>1. /\ \A s, t \in Sections : \A j \in Spelt(c[s], f), k \in Spelt(c[t], f) :
            NormalKey(j) = NormalKey(k) /\ (s = t => j = k)
      /\ Spelt(c.data, f) \subseteq KnownTo(f)
      /\ Spelt(c.secrets, f) \subseteq (IF f \in Secret THEN KnownTo(f) ELSE {})
      /\ \A s \in {"data", "secrets"} : \A k \in Spelt(c[s], f) :
            Trim(c[s][k]) = <<>> => \A t \in Sections \ {s} : Spelt(c[t], f) = {}
  BY DEF SpelledOnce, Spelt
<1>2. "data" \in Sections /\ "secrets" \in Sections
  BY DEF Sections
<1>3. CASE Spelt(c.secrets, f) # {}
  <2>1. PICK k : k \in Spelt(c.secrets, f)
    BY <1>3
  <2>2. Spelt(c.secrets, f) = {k} /\ f \in Secret /\ k \in KnownTo(f)
    BY <1>1, <1>2, <2>1
  <2>3. FirstSetting(c, Names[f]) = Trim(c.secrets[k])
    BY <1>1, <1>2, <2>1, <2>2, ReadOnce
  <2> QED
    BY <1>1, <2>1, <2>2, <2>3 DEF SaysOnce, Spelt
<1>4. CASE Spelt(c.secrets, f) = {} /\ Spelt(c.data, f) # {}
  <2>1. PICK k : k \in Spelt(c.data, f)
    BY <1>4
  <2>2. Spelt(c.data, f) = {k} /\ k \in KnownTo(f)
    <3>1. \A i, j \in Spelt(c["data"], f) : i = j
      BY <1>1, <1>2
    <3> QED
      BY <1>1, <2>1, <3>1
  <2>3. FirstSetting(c, Names[f]) = Trim(c.data[k])
    BY <1>1, <1>2, <1>4, <2>1, <2>2, ReadOnce
  <2> QED
    BY <1>1, <1>4, <2>1, <2>2, <2>3 DEF SaysOnce, Spelt
<1>5. CASE Spelt(c.secrets, f) = {} /\ Spelt(c.data, f) = {}
  BY <1>5, ReadOwn
<1> QED
  BY <1>3, <1>4, <1>5

\* What the editor shows of a connection, as a save takes it.
Shown(c) == Filled(Loaded(c))

\* What is shown, field by field.
LEMMA ShownFields ==
    ASSUME NEW c \in Connection, NEW f \in Field \ {"auth"}
    PROVE  /\ f \in Secret =>
                Shown(c)[f] = IF First(c.secrets, EditorNames[f]) # <<>>
                              THEN First(c.secrets, EditorNames[f])
                              ELSE First(c.data, EditorNames[f])
           /\ f \notin Secret => Shown(c)[f] = Trim(Trim(First(c.data, EditorNames[f])))
BY DEF Shown, Filled, Loaded

\* The editor shows what the service reads, but for what the connection says
\* itself.
LEMMA ShownIsRead ==
    ASSUME NEW c \in Connection, NEW f \in Field \ {"auth"}, SpelledOnce(c, f)
    PROVE  FirstSetting(c, Names[f])
             = IF Trim(Shown(c)[f]) = <<>> THEN FirstSetting(Own(c.scalars), Names[f])
               ELSE Trim(Shown(c)[f])
<1>1. \A s \in Sections : \A k \in DOMAIN c[s] :
        c[s][k] \in Text /\ Trim(Trim(c[s][k])) = Trim(c[s][k])
  BY ConnectionAssumption, TrimProperties DEF Text
<1>2. "data" \in Sections /\ "secrets" \in Sections /\ "scalars" \in Sections
  BY DEF Sections
<1>3. Trim(<<>>) = <<>>
  BY DEF Trim
<1>4. ASSUME f \in Secret, NEW k, SaysOnce(c, f, "secrets", k)
      PROVE  Trim(Shown(c)[f]) = Trim(c.secrets[k])
  <2>1. First(c.secrets, EditorNames[f]) = c.secrets[k]
    BY <1>4, ShownOnce DEF SaysOnce
  <2>2. CASE c.secrets[k] # <<>>
    BY <1>4, <2>1, <2>2, ShownFields
  <2>3. CASE c.secrets[k] = <<>>
    <3>1. Spelt(c.data, f) = {}
      BY <1>2, <1>3, <1>4, <2>3 DEF SaysOnce
    <3>2. First(c.data, EditorNames[f]) = <<>>
      BY <3>1, ShownNever
    <3> QED
      BY <1>3, <1>4, <2>1, <2>3, <3>2, ShownFields
  <2> QED
    BY <2>2, <2>3
<1>5. ASSUME Spelt(c.secrets, f) = {}, NEW k, SaysOnce(c, f, "data", k)
      PROVE  Trim(Shown(c)[f]) = Trim(c.data[k])
  <2>1. First(c.data, EditorNames[f]) = c.data[k] /\ First(c.secrets, EditorNames[f]) = <<>>
    BY <1>5, ShownOnce, ShownNever DEF SaysOnce
  <2>2. Trim(Trim(c.data[k])) = Trim(c.data[k])
    BY <1>1, <1>2, <1>5 DEF SaysOnce
  <2> QED
    BY <2>1, <2>2, ShownFields
<1>6. ASSUME NEW s \in {"data", "secrets"}, NEW k, SaysOnce(c, f, s, k),
             Trim(Shown(c)[f]) = Trim(c[s][k])
      PROVE  FirstSetting(c, Names[f])
               = IF Trim(Shown(c)[f]) = <<>> THEN FirstSetting(Own(c.scalars), Names[f])
                 ELSE Trim(Shown(c)[f])
  <2>1. CASE Trim(c[s][k]) = <<>>
    <3>1. Spelt(c.scalars, f) = {}
      BY <1>2, <1>6, <2>1 DEF SaysOnce
    <3> QED
      BY <1>6, <2>1, <3>1, NothingOwn DEF SaysOnce
  <2>2. CASE Trim(c[s][k]) # <<>>
    BY <1>6, <2>2 DEF SaysOnce
  <2> QED
    BY <2>1, <2>2
<1>7. ASSUME Spelt(c.secrets, f) = {}, Spelt(c.data, f) = {}
      PROVE  Trim(Shown(c)[f]) = <<>>
  <2>1. First(c.data, EditorNames[f]) = <<>> /\ First(c.secrets, EditorNames[f]) = <<>>
    BY <1>7, ShownNever
  <2> QED
    BY <1>3, <2>1, ShownFields
<1> QED
  BY <1>4, <1>5, <1>6, <1>7, SpelledWhere

\* A mode that the editor shows is the one that the service reads.
LEMMA ShownMode ==
    ASSUME NEW c \in Connection, SpelledOnce(c, "auth"),
           AuthMode(FirstSetting(c, Names["auth"])) # "other"
    PROVE  Shown(c).auth = AuthMode(FirstSetting(c, Names["auth"]))
<1> DEFINE text == First(c.data, EditorNames["auth"])
<1>1. "auth" \in Field /\ "auth" \notin Secret /\ "data" \in Sections
  BY FieldIs DEF Secret, Sections
<1>2. Shown(c).auth = IF AuthMode(text) = "other" THEN "sso" ELSE AuthMode(text)
  BY <1>1 DEF Shown, Filled, Loaded
<1>3. Trim(<<>>) = <<>>
  BY DEF Trim
<1>4. Trim(text) = FirstSetting(c, Names["auth"]) /\ Trim(Trim(text)) = Trim(text)
  <2>1. ASSUME NEW k, SaysOnce(c, "auth", "data", k)
        PROVE  Trim(text) = FirstSetting(c, Names["auth"]) /\ Trim(Trim(text)) = Trim(text)
    <3>1. text = c.data[k]
      BY <1>1, <2>1, ShownOnce DEF SaysOnce
    <3>2. c.data[k] \in Text
      BY <1>1, <2>1, ConnectionAssumption DEF SaysOnce, Text
    <3> QED
      BY <2>1, <3>1, <3>2, TrimProperties DEF SaysOnce, Text
  <2>2. ASSUME Spelt(c.secrets, "auth") = {}, Spelt(c.data, "auth") = {},
               FirstSetting(c, Names["auth"]) = FirstSetting(Own(c.scalars), Names["auth"])
        PROVE  Trim(text) = FirstSetting(c, Names["auth"]) /\ Trim(Trim(text)) = Trim(text)
    BY <1>1, <1>3, <2>2, ShownNever, ScalarIsNoAuth, NothingOwn
  <2> HIDE DEF text
  <2> QED
    BY <1>1, <2>1, <2>2, SpelledWhere
<1> HIDE DEF text
<1>5. AuthMode(Trim(text)) = AuthMode(text)
  <2>1. Trim(Trim(text)) = Trim(text)
    BY <1>4
  <2> QED
    BY <2>1, Zenon DEF AuthMode
<1> QED
  BY <1>2, <1>4, <1>5

\* What the service uses, setting by setting.
LEMMA UsedIs ==
    ASSUME NEW d, NEW f \in Field
    PROVE  LET mode == AuthMode(FirstSetting(d, Names["auth"]))
           IN  Used(d)[f] =
                 CASE f = "auth" -> mode
                   [] f = "interfaceName" -> NormalInterfaceName(FirstSetting(d, Names[f]))
                   [] f = "setupKey" /\ mode # "setup-key" -> <<>>
                   [] OTHER -> FirstSetting(d, Names[f])
<1> DEFINE parsed == ParseActivationSettings(d)
<1>1. /\ parsed = [g \in Field |-> parsed[g]]
      /\ \A g \in Field :
            parsed[g] = CASE g = "auth" -> AuthMode(FirstSetting(d, Names[g]))
                          [] g = "interfaceName" -> NormalInterfaceName(FirstSetting(d, Names[g]))
                          [] OTHER -> FirstSetting(d, Names[g])
  BY NamesAre DEF ParseActivationSettings
<1>2. Used(d) = IF parsed.auth = "setup-key" THEN parsed ELSE [parsed EXCEPT !.setupKey = <<>>]
  BY DEF Used
<1> HIDE DEF parsed
<1>3. "auth" \in Field /\ "setupKey" \in Field
  BY FieldIs
<1>4. parsed.auth = AuthMode(FirstSetting(d, Names["auth"]))
  BY <1>1, <1>3
<1>5. CASE parsed.auth = "setup-key"
  BY <1>1, <1>2, <1>4, <1>5
<1>6. CASE parsed.auth # "setup-key"
  <2>1. Used(d)[f] = IF f = "setupKey" THEN <<>> ELSE parsed[f]
    BY <1>1, <1>2, <1>6
  <2> QED
    BY <1>1, <1>4, <1>6, <2>1
<1> QED
  BY <1>5, <1>6

\* The editor knows the spelling of a setting that is spelled once.
LEMMA SpelledIsKnown ==
    ASSUME NEW c, NEW f, SpelledOnce(c, f)
    PROVE  Knows(c, f)
BY DEF SpelledOnce, Knows

\* Saving what is shown of a setting leaves what the service reads of it.
LEMMA ShownIsKept ==
    ASSUME NEW c \in Connection, SpelledOnce(c, "auth"),
           AuthMode(FirstSetting(c, Names["auth"])) # "other",
           NEW f \in Field, SpelledOnce(c, f)
    PROVE  Used(Saved(c, Shown(c)))[f] = Used(c)[f]
<1> DEFINE values == Shown(c)
           d == Saved(c, values)
<1>1. AreFields(values) /\ "auth" \in Field
  BY LoadedTyped, FilledTyped, FieldIs DEF Shown
<1>2. values.auth = AuthMode(FirstSetting(c, Names["auth"]))
  BY ShownMode
<1> HIDE DEF values
<1>3. ASSUME NEW g \in Field, SpelledOnce(c, g)
      PROVE  FirstSetting(d, Names[g])
               = IF g \in AddedTo(values) THEN Trim(Written(values, g))
                 ELSE FirstSetting(Own(c.scalars), Names[g])
  BY <1>1, <1>3, SavedFirst, SpelledIsKnown
<1>4. \A g \in Field :
        g \in AddedTo(values) <=>
            g = "auth" \/ (Trim(values[g]) # <<>>
                            /\ (g = "setupKey" => values.auth = "setup-key"))
  BY FieldIs DEF AddedTo, Added, Plain, Secret
<1> HIDE DEF d
<1>5. AuthMode(FirstSetting(d, Names["auth"])) = values.auth
  BY <1>1, <1>3, <1>4, WrittenReads
<1>6. ASSUME f # "auth", f = "setupKey" => values.auth = "setup-key"
      PROVE  FirstSetting(d, Names[f]) = FirstSetting(c, Names[f])
  <2>1. FirstSetting(c, Names[f])
          = IF Trim(values[f]) = <<>> THEN FirstSetting(Own(c.scalars), Names[f])
            ELSE Trim(values[f])
    BY <1>6, ShownIsRead DEF values
  <2>2. f \in AddedTo(values) <=> Trim(values[f]) # <<>>
    BY <1>4, <1>6
  <2>3. f \in AddedTo(values) => Trim(Written(values, f)) = Trim(values[f])
    BY <1>1, <1>6, WrittenReads
  <2> QED
    BY <1>3, <2>1, <2>2, <2>3
<1>7. Used(d)[f] = Used(c)[f]
  BY <1>2, <1>5, <1>6, UsedIs
<1> QED
  BY <1>7 DEF d, values

(* A connection that is saved as the editor showed it, at once or after    *)
(* other values were saved in between, gives an activation what it gave    *)
(* before, in each setting that is spelled once.                           *)
THEOREM UntouchedCorrect == Spec => []UntouchedIsUnchanged
<1>1. IInv /\ Typed => UntouchedIsUnchanged
  <2> SUFFICES ASSUME IInv, Typed, accepted = Shown(base), SpelledOnce(base, "auth"),
                      Used(base).auth # "other",
                      NEW f \in Field, SpelledOnce(base, f)
               PROVE  Used(draft)[f] = Used(base)[f]
    BY DEF UntouchedIsUnchanged, Shown
  <2>1. draft = Saved(base, Shown(base))
    BY FilledIsSome DEF IInv, LastAcceptedWins, Shown
  <2>2. AuthMode(FirstSetting(base, Names["auth"])) # "other"
    BY UsedIs, FieldIs
  <2> QED
    BY <2>1, <2>2, ShownIsKept DEF Typed
<1> QED
  BY <1>1, InitIInv, StepIInv, TypedInvariant, TypedStep, PTL DEF Spec

=============================================================================
