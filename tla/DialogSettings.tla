--------------------------- MODULE DialogSettings ---------------------------
(***************************************************************************)
(* How the auth dialog (internal/nmauthdialog/dialog.go) reads the same    *)
(* texts as the service, with its own copy of the names and of the         *)
(* normalisation.  Where Go's map order decides, the result is the set of  *)
(* what the dialog may read.                                               *)
(***************************************************************************)
EXTENDS Settings

\* firstSettingValue: the values it may find, because it goes through a map
\* whose spellings of a key come in any order.
FirstValues(values, keys) ==
    LET Found(i) == {values[k] : k \in Spellings(values, keys[i])}
        Candidates(i) == IF Found(i) = {} THEN {<<>>} ELSE Found(i)
        Passed(i) == \A j \in 1..i : <<>> \in Candidates(j)
    IN  (UNION {Candidates(i) \ {<<>>} : i \in {j \in DOMAIN keys : Passed(j - 1)}})
            \cup {v \in {<<>>} : Passed(Len(keys))}

Trimmed(values) == [k \in DOMAIN values |-> Trim(values[k])]

\* Mutant: only the first of the names of the setting is known.
OneAuthName(d) ==
    {AuthMode(v) : v \in FirstValues(Trimmed(d.data), << <<"auth">> >>)}

\* setupKeyRequirement
AuthModes(d) == {AuthMode(v) : v \in FirstValues(Trimmed(d.data), AuthKeys)}

\* Mutant: the key in the data is not looked at.
SecretKeys(d) == FirstValues(d.secrets, SetupKeyKeys)

SetupKeys(d) ==
    UNION {IF v # <<>> THEN {v}
           ELSE FirstValues(Trimmed(d.data), SetupKeyKeys)
              : v \in FirstValues(d.secrets, SetupKeyKeys)}

=============================================================================
