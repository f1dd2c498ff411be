------------------------- MODULE MCConnectionEditor -------------------------
(* An instance of ConnectionEditor for TLC.                                *)
EXTENDS ConnectionEditor

Item(section, key, value) == [section |-> section, key |-> key, value |-> value]

\* What a connection may hold: the settings by several of their names, names that
\* the service understands and the editor does not, and keys unknown to both.
Items ==
    {Item("data", <<"auth">>, v) : v \in {<<"sso">>, <<"setup", "_", "key">>, <<"none">>}}
    \cup {Item("data", k, <<"setup", "-", "key">>) :
            k \in {<<"login", "-", "mode">>, <<"auth", "_", "mode">>}}
    \cup {Item("data", k, <<"k1">>) :
            k \in {<<"setup", "-", "key">>, <<"netbird", "-", "setup", "-", "key">>,
                   <<"setup", "_", "key">>}}
    \cup {Item("secrets", <<"setup", "-", "key">>, <<"k2", " ">>),
          Item("secrets", <<"setup", "key">>, <<"k1">>),
          Item("secrets", <<"setup", "key">>, <<>>)}
    \cup {Item("data", <<"netbird", "-", "user", "name">>, <<"u1">>),
          Item("data", <<"user">>, <<"u2">>),
          Item("scalars", <<"user", "-", "name">>, <<"u1">>)}
    \cup {Item("data", <<"management", "-", "url">>, <<"ftp", "://", "old">>),
          Item("data", <<"netbird", "-", "management", "-", "url">>,
               <<"http", "://", "old", "/">>)}
    \cup {Item("data", <<"interface", "-", "name">>, <<"-", "-">>),
          Item("scalars", <<"interface", "-", "name">>, <<"wt1">>)}
    \cup {Item("data", <<"host", "-", "name">>, <<"h", " ">>),
          Item("data", <<"preshared", "-", "key">>, <<"p">>),
          Item("secrets", <<"pre", "shared", "key">>, <<"p">>)}
    \cup {Item("data", <<"profile">>, <<"home">>), Item("data", <<"special">>, <<"x">>),
          Item("secrets", <<"special">>, <<"x">>)}

TextsOf(items, section) ==
    LET own == {i \in items : i.section = section}
    IN  [k \in {i.key : i \in own} |-> (CHOOSE i \in own : i.key = k).value]

SomeConnections ==
    {[data |-> TextsOf(items, "data"), secrets |-> TextsOf(items, "secrets"),
      scalars |-> TextsOf(items, "scalars")]
        : items \in {{i, j, k} : i, j, k \in Items}}

\* Entered: another key or none, a URL that is refused, a name with a blank before it.
SomeTexts ==
    [setupKey |-> {<<"k3">>, <<" ">>}, managementURL |-> {<<"https", "://">>},
     adminURL |-> {}, username |-> {}, hostname |-> {}, preSharedKey |-> {},
     interfaceName |-> {<<" ", "wt2">>}]

NoLongNames == {}

=============================================================================
