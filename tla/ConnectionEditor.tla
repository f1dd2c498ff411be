-------------------------- MODULE ConnectionEditor --------------------------
(***************************************************************************)
(* The desktop editor of a connection (properties/nm-netbird-editor.c and  *)
(* nm-netbird-editor-model.c): it shows a connection's settings in         *)
(* widgets, and the frontend has it write them back into one and the same  *)
(* copy of the connection, again and again while the user edits.  The      *)
(* service and the auth dialog read what was written (Settings,            *)
(* DialogSettings), each with its own copy of the names.                   *)
(* A key that has capitals in the code stands for itself only; no other    *)
(* key of a connection differs from it in capitals alone.                  *)
(***************************************************************************)
EXTENDS DialogSettings

CONSTANTS
    Connection,         \* what may be opened: [data, secrets, scalars]
    Texts,              \* by field, the texts a user may enter
    TooLong             \* the interface names of more than 15 bytes

Sections == {"data", "secrets", "scalars"}

\* What a connection says itself: connection.interface-name and vpn.user-name.
ScalarNames == {<<"interface", "-", "name">>, <<"user", "-", "name">>}

ASSUME ConnectionAssumption ==
    \A c \in Connection :
        /\ c = [s \in Sections |-> c[s]]
        /\ \A s \in Sections : \A k \in DOMAIN c[s] : c[s][k] \in Seq(STRING)
        /\ DOMAIN c.scalars \subseteq ScalarNames

VARIABLES
    base,               \* the connection as it was opened
    draft,              \* the copy that update_connection writes to
    fields,             \* the widgets
    accepted            \* what the last update without an error was given

vars == <<base, draft, fields, accepted>>

\* The names of a setting that the editor knows, in the order it looks them up.
\* The first is the one it writes.
EditorNames ==
    [auth |-> << <<"auth">>, <<"auth", "-", "mode">>, <<"authentication">>,
                 <<"login", "-", "mode">> >>,
     setupKey |-> << <<"setup", "-", "key">>, <<"setup", "key">>,
                     <<"netbird", "-", "setup", "-", "key">> >>,
     managementURL |-> << <<"management", "-", "url">>, <<"management", "url">>,
                          <<"netbird", "-", "management", "-", "url">> >>,
     adminURL |-> << <<"admin", "-", "url">>, <<"admin", "url">>,
                     <<"netbird", "-", "admin", "-", "url">> >>,
     username |-> << <<"user", "name">>, <<"user", "-", "name">>, <<"user">>,
                     <<"netbird", "-", "user", "name">> >>,
     interfaceName |-> << <<"interface", "-", "name">>, <<"interface", "name">>,
                          <<"netbird", "-", "interface", "-", "name">> >>,
     hostname |-> << <<"host", "name">>, <<"host", "-", "name">> >>,
     preSharedKey |-> << <<"pre", "-", "shared", "-", "key">>,
                         <<"pre", "shared", "-", "key">>,
                         <<"pre", "shared", "key">> >>]

\* Read by no one any more, and removed by a save.
ProfileNames == {<<"profile", "-", "name">>, <<"profile", "name">>, <<"profile">>,
                 <<"netbird", "-", "profile", "-", "name">>}

Field == DOMAIN EditorNames
Secret == {"setupKey", "preSharedKey"}
Plain == Field \ Secret

ASSUME TextsAssumption == \A f \in Field \ {"auth"} : Texts[f] \subseteq Seq(STRING)

Canonical(f) == EditorNames[f][1]
KnownTo(f) == {EditorNames[f][i] : i \in DOMAIN EditorNames[f]}

-----------------------------------------------------------------------------
(* Loading                                                                 *)

\* Mutant: only the name that the editor writes is looked up.
FirstCanonical(values, names) ==
    IF names[1] \in DOMAIN values THEN values[names[1]] ELSE <<>>

\* vpn_data_first and vpn_secret_first
First(values, names) ==
    LET set == {i \in DOMAIN names :
                    names[i] \in DOMAIN values /\ values[names[i]] # <<>>}
    IN  IF set = {} THEN <<>> ELSE values[names[Min(set)]]

\* Mutant: the widgets are given the auth mode as it is.
LoadedAsIs(c) ==
    LET Of(f) == First(c.data, EditorNames[f])
        SecretOf(f) == First(c.secrets, EditorNames[f])
    IN  [f \in Field |->
            CASE f = "auth" -> AuthMode(Of(f))
              [] f \in Secret -> IF SecretOf(f) # <<>> THEN SecretOf(f) ELSE Of(f)
              [] OTHER -> Trim(Of(f))]

\* netbird_editor_values_load.  An unknown auth mode is shown as "sso".
Loaded(c) ==
    LET Of(f) == First(c.data, EditorNames[f])
        SecretOf(f) == First(c.secrets, EditorNames[f])
    IN  [f \in Field |->
            CASE f = "auth" ->
                    IF AuthMode(Of(f)) = "other" THEN "sso" ELSE AuthMode(Of(f))
              [] f \in Secret -> IF SecretOf(f) # <<>> THEN SecretOf(f) ELSE Of(f)
              [] OTHER -> Trim(Of(f))]

-----------------------------------------------------------------------------
(* Saving                                                                  *)

\* fill_values_from_ui
Filled(entered) ==
    [f \in Field |-> IF f \in Secret \cup {"auth"} THEN entered[f] ELSE Trim(entered[f])]

\* is_http_url, of a text whose words are the scheme, "://" and the rest
IsHttpUrl(text) ==
    LET url == Trim(text)
        ends == {i \in DOMAIN url : i > 2 /\ url[i] \in {"/", "?", "#"}}
        host == SubSeq(url, 3, IF ends = {} THEN Len(url) ELSE Min(ends) - 1)
    IN  \/ url = <<>>
        \/ /\ Len(url) > 2 /\ url[1] \in {"http", "https"} /\ url[2] = "://"
           /\ host # <<>> /\ \A i \in DOMAIN host : host[i] \notin White

ValidInterfaceName(text) ==
    \/ Trim(text) = <<>>
    \/ /\ text \notin TooLong \cup {<<".">>, <<".", ".">>}
       /\ \A i \in DOMAIN text : text[i] \notin White \cup {"/"}

\* netbird_editor_values_validate
Valid(values) ==
    /\ IsHttpUrl(values.managementURL) /\ IsHttpUrl(values.adminURL)
    /\ ValidInterfaceName(values.interfaceName)

\* Mutant: only the name that is written again is removed.
RemovedCanonical == {Canonical(f) : f \in Field} \cup ProfileNames

\* The keys that remove_data_keys takes out of the data, by whichever way a
\* field is saved.
RemovedData == (UNION {KnownTo(f) : f \in Field}) \cup ProfileNames

\* Mutant: a secret is removed by the name that is written only.
RemovedOwnSecrets == {Canonical(f) : f \in Secret}

\* The keys that remove_secret_keys takes out of the secrets.
RemovedSecrets == UNION {KnownTo(f) : f \in Secret}

\* What set_data_item and set_secret_item add, of the fields of that kind.
Added(values, kind) ==
    {f \in kind :
        /\ f = "auth" \/ Trim(values[f]) # <<>>
        /\ f = "setupKey" => values.auth = "setup-key"}

\* The text that is written.  Only a secret keeps its blanks.
Written(values, f) ==
    CASE f = "auth" -> IF values.auth = "sso" THEN <<"sso">> ELSE <<"setup", "-", "key">>
      [] f \in Secret -> values[f]
      [] OTHER -> Trim(values[f])

\* Mutant: the items are written into an empty setting.
Rewritten(texts, removed, values, added) ==
    LET FieldOf(k) == CHOOSE f \in added : Canonical(f) = k
    IN  [k \in {Canonical(f) : f \in added} |-> Written(values, FieldOf(k))]

Replaced(texts, removed, values, added) ==
    LET FieldOf(k) == CHOOSE f \in added : Canonical(f) = k
        new == {Canonical(f) : f \in added}
    IN  [k \in (DOMAIN texts \ removed) \cup new |->
            IF k \in new THEN Written(values, FieldOf(k)) ELSE texts[k]]

\* Mutant: in SSO mode the setup key in the data is left alone.
SavedByMode(c, values) ==
    LET left == IF values.auth = "sso" THEN KnownTo("setupKey") ELSE {}
    IN  [c EXCEPT
            !.data = Replaced(@, RemovedData \ left, values, Added(values, Plain)),
            !.secrets = Replaced(@, RemovedSecrets, values, Added(values, Secret))]

\* netbird_editor_values_save, of valid values
Saved(c, values) ==
    [c EXCEPT
        !.data = Replaced(@, RemovedData, values, Added(values, Plain)),
        !.secrets = Replaced(@, RemovedSecrets, values, Added(values, Secret))]

-----------------------------------------------------------------------------
NoValues == [f \in {} |-> <<>>]

\* netbird_editor_new
Init ==
    /\ base \in Connection /\ draft = base
    /\ fields = Loaded(base) /\ accepted = NoValues

\* What a user can enter: the combo box offers the two auth modes, and what was
\* in a field can be typed again.
Entry(f) ==
    IF f = "auth" THEN {"sso", "setup-key"} ELSE Texts[f] \cup {Loaded(base)[f]}

\* A widget changes.  widget_changed_cb tells the frontend, which may update
\* the connection at once or later.
Edit(f) ==
    /\ \E entry \in Entry(f) \ {fields[f]} : fields' = [fields EXCEPT ![f] = entry]
    /\ UNCHANGED <<base, draft, accepted>>

\* update_connection.  An error leaves the connection as it is.
UpdateConnection ==
    LET values == Filled(fields) IN
    /\ IF Valid(values) THEN draft' = Saved(draft, values) /\ accepted' = values
       ELSE UNCHANGED <<draft, accepted>>
    /\ UNCHANGED <<base, fields>>

Next ==
    \/ \E f \in Field : Edit(f)
    \/ UpdateConnection

Spec == Init /\ [][Next]_vars

-----------------------------------------------------------------------------
(* Properties *)

IsValues(values) == \A f \in Field : f = "auth" => values[f] \in {"sso", "setup-key"}

(* The widgets always hold settings that can be saved: one of the two auth *)
(* modes, whatever the connection says (netbird_editor_values_load).       *)
TypeOK ==
    /\ DOMAIN draft = Sections /\ draft.scalars = base.scalars
    /\ DOMAIN fields = Field /\ IsValues(fields)
    /\ accepted # NoValues => DOMAIN accepted = Field /\ IsValues(accepted)

\* What the service makes of a connection.  The setup key is a part of the login
\* in that mode only (daemonLoginRequest).
Used(c) ==
    LET parsed == ParseActivationSettings(c)
    IN  IF parsed.auth = "setup-key" THEN parsed ELSE [parsed EXCEPT !.setupKey = <<>>]

NamesSetting(k, f) == \E i \in DOMAIN Names[f] : NormalKey(k) = Names[f][i]

\* A spelling of a setting that the service reads and the editor does not know.
Foreign(c) ==
    \E f \in Field :
        \/ \E k \in DOMAIN c.data : NamesSetting(k, f) /\ k \notin KnownTo(f)
        \/ \E k \in DOMAIN c.secrets :
                NamesSetting(k, f) /\ (f \notin Secret \/ k \notin KnownTo(f))

\* What an update promises: the values, or for an empty one what the connection
\* says by itself.
Promised(values, scalars) ==
    LET Own(f) == FirstSetting([data |-> << >>, secrets |-> << >>,
                                scalars |-> scalars], Names[f])
        Asked(f) == IF Trim(values[f]) = <<>> THEN Own(f) ELSE Trim(values[f])
    IN  [f \in Field |->
            CASE f = "auth" -> values.auth
              [] f = "setupKey" /\ values.auth = "sso" -> <<>>
              [] f = "interfaceName" -> NormalInterfaceName(Asked(f))
              [] OTHER -> Asked(f)]

(* After an update an activation uses what the widgets said, and nothing   *)
(* that an older spelling in the connection said (set_data_item,           *)
(* set_secret_item, against parseActivationSettings).                      *)
SavedIsUsed ==
    (accepted # NoValues /\ ~Foreign(base))
        => Used(draft) = Promised(accepted, base.scalars)

(* After an update the auth dialog finds the auth mode and the setup key   *)
(* that the service finds: no needless question, and no missing one.       *)
DialogReadsSaved ==
    LET used == Used(draft) IN
    (accepted # NoValues /\ ~Foreign(base)) =>
        /\ AuthModes(draft) = {used.auth}
        /\ used.auth = "setup-key" =>
            \A key \in SetupKeys(draft) : Trim(key) = used.setupKey

\* A setting that the connection has under one name, spelled in a way the editor
\* knows, and, where several sections have it, blank in the last of them at most.
SpelledOnce(c, f) ==
    LET Spelt(s) == {k \in DOMAIN c[s] : NamesSetting(k, f)} IN
    /\ \A s, t \in Sections : \A j \in Spelt(s), k \in Spelt(t) :
        NormalKey(j) = NormalKey(k) /\ (s = t => j = k)
    /\ Spelt("data") \subseteq KnownTo(f)
    /\ Spelt("secrets") \subseteq (IF f \in Secret THEN KnownTo(f) ELSE {})
    /\ \A s \in {"data", "secrets"} : \A k \in Spelt(s) :
        Trim(c[s][k]) = <<>> => \A t \in Sections \ {s} : Spelt(t) = {}

(* To save what the editor showed first, also after changing it back and   *)
(* forth, changes nothing for an activation: what the editor shows of a    *)
(* connection is what the service reads in it.                             *)
UntouchedIsUnchanged ==
    LET before == Used(base)
        after == Used(draft)
    IN  (/\ accepted = Filled(Loaded(base))
         /\ SpelledOnce(base, "auth") /\ before.auth # "other")
            => \A f \in Field : SpelledOnce(base, f) => after[f] = before[f]

KnownData == (UNION {KnownTo(f) : f \in Field}) \cup ProfileNames
KnownSecrets == UNION {KnownTo(f) : f \in Secret}

(* Keys that the editor does not know, such as those edited by hand, stay  *)
(* with their values, whatever is edited and however often it is saved.    *)
KeepsUnknownKeys ==
    [][/\ \A k \in DOMAIN draft.data \ KnownData :
            k \in DOMAIN draft'.data /\ draft'.data[k] = draft.data[k]
       /\ \A k \in DOMAIN draft.secrets \ KnownSecrets :
            k \in DOMAIN draft'.secrets /\ draft'.secrets[k] = draft.secrets[k]]_vars

(* The copy is what the last accepted values alone would have made of the  *)
(* connection: no trace of what was entered and saved in between, such as  *)
(* a change to SSO and back, and none of a refused update.                 *)
LastAcceptedWins ==
    draft = IF accepted = NoValues THEN base ELSE Saved(base, accepted)

=============================================================================
