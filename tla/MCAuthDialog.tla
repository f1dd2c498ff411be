---------------------------- MODULE MCAuthDialog ----------------------------
(* An instance of AuthDialog for TLC.                                      *)
EXTENDS AuthDialog

Line(tag, target, text) == [tag |-> tag, target |-> target, text |-> text]

SomeLines ==
    {Line("key", "data", k) : k \in {<<"auth">>, <<"auth", "-", "mode">>,
                                     <<"auth", "mode">>,
                                     <<"setup", "-", "key">>}}
    \cup {Line("key", "secrets", <<"setup", "-", "key">>),
          Line("key", "secrets", <<"setup", "key">>)}
    \cup {Line("value", "data", v) : v \in {<<"setup", "-", "key">>, <<"sso">>,
                                            <<>>}}
    \cup {Line("value", "secrets", v) : v \in {<<"k1">>, <<" ">>, <<>>}}
    \cup {Line("continue", "none", <<"mode">>), Blank, Unknown}

=============================================================================
