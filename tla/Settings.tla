------------------------------ MODULE Settings ------------------------------
(***************************************************************************)
(* How the service reads a connection's vpn.data and vpn.secrets           *)
(* (internal/nmplugin/settings.go).  A text is a sequence of words and     *)
(* marks, in lower case: the code lowers what it compares.                 *)
(***************************************************************************)
EXTENDS Naturals, Sequences, FiniteSetsExt

White == {" ", "\n"}
Mark == White \cup {"-", "_"}

\* strings.TrimSpace
Trim(text) ==
    LET ink == {i \in DOMAIN text : text[i] \notin White}
    IN  IF ink = {} THEN <<>> ELSE SubSeq(text, Min(ink), Max(ink))

\* What is left of a sequence when only the elements at some positions are kept.
Kept(s, positions) ==
    LET kept[n \in 0..Len(s)] ==
            IF n = 0 THEN <<>>
            ELSE IF n \in positions THEN Append(kept[n - 1], s[n]) ELSE kept[n - 1]
    IN  kept[Len(s)]

\* normalizeSettingKey
NormalKey(text) == Kept(text, {i \in DOMAIN text : text[i] \notin Mark})

\* The names of a setting, normalised, in the order they are looked up.
AuthKeys == << <<"auth">>, <<"auth", "mode">>, <<"authentication">>,
               <<"login", "mode">> >>
SetupKeyKeys == << <<"setup", "key">>, <<"netbird", "setup", "key">> >>
Names ==
    [auth |-> AuthKeys,
     setupKey |-> SetupKeyKeys,
     preSharedKey |-> << <<"pre", "shared", "key">> >>,
     managementURL |-> << <<"management", "url">>, <<"netbird", "management", "url">> >>,
     adminURL |-> << <<"admin", "url">>, <<"netbird", "admin", "url">> >>,
     username |-> << <<"netbird", "user", "name">>, <<"user", "name">>, <<"user">> >>,
     hostname |-> << <<"host", "name">> >>,
     interfaceName |-> << <<"interface", "name">>, <<"netbird", "interface", "name">> >>]

\* normalizeAuthMode
AuthMode(text) ==
    LET trimmed == Trim(text)
        mode == [i \in DOMAIN trimmed |-> IF trimmed[i] = "_" THEN "-" ELSE trimmed[i]]
    IN  CASE mode \in {<<"setup", "-", "key">>, <<"setup", "key">>, <<"key">>}
                -> "setup-key"
          [] mode \in {<<>>, <<"sso">>, <<"browser">>, <<"interactive">>,
                       <<"login">>, <<"force", "-", "login">>, <<"reuse">>}
                -> "sso"
          [] OTHER -> "other"

Spellings(values, n) == {k \in DOMAIN values : NormalKey(k) = n}

\* Spellings of one key in the order slices.Sort gives them.
Rank(text, i) ==
    IF i > Len(text) THEN 0
    ELSE CASE text[i] = "\n" -> 1 [] text[i] = " " -> 2
           [] text[i] = "-" -> 3 [] text[i] = "_" -> 4 [] OTHER -> 5
Precedes(a, b) ==
    \E i \in 1..Len(a) + 1 :
        Rank(a, i) < Rank(b, i) /\ \A j \in 1..i - 1 : Rank(a, j) = Rank(b, j)
LastSpelling(keys) == CHOOSE k \in keys : \A j \in keys \ {k} : Precedes(j, k)

\* flattenConnectionSettings: the secrets over the data, the data over what the
\* connection says itself (connection.interface-name, vpn.user-name), and the last
\* of the spellings of a key, an empty value included.
Flattened(details, n) ==
    LET Read(values) == Trim(values[LastSpelling(Spellings(values, n))])
    IN  IF Spellings(details.secrets, n) # {} THEN Read(details.secrets)
        ELSE IF Spellings(details.data, n) # {} THEN Read(details.data)
        ELSE IF Spellings(details.scalars, n) # {} THEN Read(details.scalars)
        ELSE <<>>

\* firstSetting
FirstSetting(details, keys) ==
    LET set == {i \in DOMAIN keys : Flattened(details, keys[i]) # <<>>}
    IN  IF set = {} THEN <<>> ELSE Flattened(details, keys[Min(set)])

\* normalizeInterfaceName: nmcli writes "--" for no interface.
NormalInterfaceName(text) == IF text = <<"-", "-">> THEN <<>> ELSE text

\* parseActivationSettings, without the profile's name and the prompts' answers.
ParseActivationSettings(details) ==
    [f \in DOMAIN Names |->
        LET value == FirstSetting(details, Names[f])
        IN  CASE f = "auth" -> AuthMode(value)
              [] f = "interfaceName" -> NormalInterfaceName(value)
              [] OTHER -> value]

\* needsSetupKeySecret, which NeedSecrets asks of the parsed settings.
NeedsSetupKeySecret(details) ==
    /\ AuthMode(FirstSetting(details, AuthKeys)) = "setup-key"
    /\ FirstSetting(details, SetupKeyKeys) = <<>>

=============================================================================
