----------------------------- MODULE AuthDialog -----------------------------
(***************************************************************************)
(* The auth dialog (internal/nmauthdialog/dialog.go): it reads the         *)
(* connection's details from NetworkManager's agent line by line and       *)
(* answers what the agent has to ask the user for, or to hand over.  The   *)
(* service asked for the secrets first (NeedSecrets), from the same        *)
(* details, or prompts for them (SecretsRequired), with hints.             *)
(***************************************************************************)
EXTENDS DialogSettings

CONSTANTS
    Lines,              \* the lines the agent may write, without "done"
    MaxLines            \* maxProtocolLines

\* The lines: [tag, target, text].  Only keys and values have a target.
Blank == [tag |-> "blank", target |-> "none", text |-> <<>>]
Done == [tag |-> "done", target |-> "none", text |-> <<>>]
Unknown == [tag |-> "unknown", target |-> "none", text |-> <<>>]

\* The options and what the service's hints ask for.
Options == [external : BOOLEAN, interaction : BOOLEAN, reprompt : BOOLEAN,
            hints : {"none", "setup-key", "sso"}]

NoOptions == [external |-> FALSE, interaction |-> FALSE, reprompt |-> FALSE,
              hints |-> "none"]

ASSUME LinesAssumption ==
    \A line \in Lines :
        /\ line \in [tag : {"blank", "unknown", "continue", "key", "value"},
                     target : {"none", "data", "secrets"}, text : Seq(STRING)]
        /\ line.tag \in {"key", "value"} <=> line.target # "none"

VARIABLES
    read,               \* the lines read so far
    status,             \* "reading", "done", "error", "failed", "answered"
    details,            \* p.details: data and secrets
    pending,            \* the key and value being read
    field,              \* currentField; "" also means that nothing is pending
    opts,               \* given at the start, first looked at by the answer
    answer

vars == <<read, status, details, pending, field, opts, answer>>

Nothing == [data |-> << >>, secrets |-> << >>]
NoPair == [target |-> "none", key |-> <<>>, value |-> <<>>]
NoAnswer == [kind |-> "none", key |-> <<>>, ask |-> FALSE]

TypeOK ==
    /\ \A i \in DOMAIN read : read[i] \in Lines \cup {Done}
    /\ status \in {"reading", "done", "error", "failed", "answered"}
    /\ DOMAIN details = {"data", "secrets"}
    /\ field \in {"", "key", "value"}
    /\ field = "" <=> pending = NoPair
    /\ opts \in Options
    /\ answer.kind \in {"none", "error", "sso", "setup-key", "no-secret"}

Init ==
    /\ read = <<>> /\ status = "reading" /\ details = Nothing
    /\ pending = NoPair /\ field = ""
    /\ opts = NoOptions /\ answer = NoAnswer

-----------------------------------------------------------------------------
(* Reading                                                                 *)

\* A key is given a value, and loses the one it had.
Put(values, key, value) ==
    [k \in DOMAIN values \cup {key} |-> IF k = key THEN value ELSE values[k]]

\* flush, of a complete pair.
Flushed ==
    IF field # "value" THEN details
    ELSE [details EXCEPT ![pending.target] = Put(@, pending.key, pending.value)]

\* Mutant: a value is taken for a key of either kind.
AcceptsEither(line) ==
    \/ line.tag = "blank"
    \/ line.tag = "done" /\ field # "key" /\ Flushed # Nothing
    \/ line.tag = "continue" /\ field # ""
    \/ line.tag = "key" /\ field # "key"
    \/ line.tag = "value" /\ field = "key"

Accepts(line) ==
    \/ line.tag = "blank"
    \/ line.tag = "done" /\ field # "key" /\ Flushed # Nothing
    \/ line.tag = "continue" /\ field # ""
    \/ line.tag = "key" /\ field # "key"
    \/ line.tag = "value" /\ field = "key" /\ line.target = pending.target

\* consume, of a line that is accepted.
Take(line) ==
    \/ /\ line.tag = "blank"
       /\ UNCHANGED <<status, details, pending, field>>
    \/ /\ line.tag = "done"
       /\ status' = "done" /\ details' = Flushed
       /\ pending' = NoPair /\ field' = ""
    \/ /\ line.tag = "continue"
       /\ pending' = [pending EXCEPT ![field] = @ \o <<"\n">> \o line.text]
       /\ UNCHANGED <<status, details, field>>
    \/ /\ line.tag = "key"
       /\ details' = Flushed
       /\ pending' = [target |-> line.target, key |-> line.text, value |-> <<>>]
       /\ field' = "key" /\ UNCHANGED status
    \/ /\ line.tag = "value"
       /\ pending' = [pending EXCEPT !.value = line.text]
       /\ field' = "value" /\ UNCHANGED <<status, details>>

\* Mutant: what was pending is kept.
KeepPair(as) ==
    status' = as /\ details' = Nothing /\ field' = "" /\ UNCHANGED pending

\* An error throws away what was read.
GiveUp(as) ==
    /\ status' = as /\ details' = Nothing /\ pending' = NoPair /\ field' = ""

Consume(line) ==
    /\ status = "reading" /\ Len(read) < MaxLines
    /\ read' = Append(read, line)
    /\ IF Accepts(line) THEN Take(line) ELSE GiveUp("error")
    /\ UNCHANGED <<opts, answer>>

\* The input ends without "done", or there are too many lines.
EndOfInput ==
    /\ status = "reading"
    /\ GiveUp("failed")
    /\ UNCHANGED <<read, opts, answer>>

-----------------------------------------------------------------------------
(* Answering                                                               *)

Error == [kind |-> "error", key |-> <<>>, ask |-> FALSE]
NoSecret == [kind |-> "no-secret", key |-> <<>>, ask |-> FALSE]

\* writeSSOResponse
SSOAnswer(o) ==
    IF o.interaction THEN [kind |-> "sso", key |-> <<>>, ask |-> FALSE]
    ELSE Error

\* A setup key is asked for, or handed over.  The standard output has lines.
KeyAnswer(o, key) ==
    LET ask == o.reprompt \/ Trim(key) = <<>>
    IN  IF \/ ask /\ ~(o.external /\ o.interaction)
           \/ ~o.external /\ \E i \in DOMAIN key : key[i] = "\n"
        THEN Error
        ELSE [kind |-> "setup-key", key |-> key, ask |-> ask]

\* writeResponse
WriteResponse(o) ==
    /\ status = "done" /\ status' = "answered" /\ opts' = o
    /\ \/ o.hints = "sso" /\ answer' = SSOAnswer(o)
       \/ /\ o.hints # "sso"
          /\ \E mode \in AuthModes(details), key \in SetupKeys(details) :
                answer' = IF mode = "setup-key" \/ o.hints = "setup-key"
                          THEN KeyAnswer(o, key) ELSE NoSecret
    /\ UNCHANGED <<read, details, pending, field>>

Next ==
    \/ \E line \in Lines \cup {Done} : Consume(line)
    \/ EndOfInput
    \/ \E o \in Options : WriteResponse(o)

Spec == Init /\ [][Next]_vars

-----------------------------------------------------------------------------
(* Properties *)

\* What the lines mean: pairs of a key and a value, each continued.
Said == Kept(read, {i \in DOMAIN read : read[i].tag # "blank"})
Begun(lines) == Kept(lines, {i \in DOMAIN lines : lines[i].tag # "continue"})

WellFormed(lines) ==
    /\ lines # <<>> => lines[1].tag # "continue"
    /\ \A i \in DOMAIN Begun(lines) :
        LET line == Begun(lines)[i]
            last == Begun(lines)[i - 1]
        IN  IF i > 1 /\ last.tag = "key"
            THEN line.tag = "value" /\ line.target = last.target
            ELSE line.tag = "key" \/ (line.tag = "done" /\ i > 1)
    /\ \A i \in DOMAIN lines : lines[i].tag = "done" => i = Len(lines)

\* A text as far as some line, and with all the lines that continue it.
UpTo(lines) ==
    LET text[i \in DOMAIN lines] ==
            IF i > 1 /\ lines[i].tag = "continue"
            THEN text[i - 1] \o <<"\n">> \o lines[i].text ELSE lines[i].text
    IN  text
End(lines, i) ==
    Min({j \in DOMAIN lines :
            j >= i /\ (j = Len(lines) \/ lines[j + 1].tag # "continue")})
Joined(lines, i) == UpTo(lines)[End(lines, i)]

Meaning(lines, target) ==
    LET Keys == {i \in DOMAIN lines : lines[i].tag = "key" /\ lines[i].target = target}
        ValueOf(i) == Min({j \in DOMAIN lines : j > i /\ lines[j].tag = "value"})
        LastOf(k) == Max({i \in Keys : Joined(lines, i) = k})
    IN  [k \in {Joined(lines, i) : i \in Keys} |-> Joined(lines, ValueOf(LastOf(k)))]

(* The dialog accepts exactly the inputs of the protocol, never one that   *)
(* ends early, and reads from them what they say: a value never comes      *)
(* under another key, or among the data when it is secret (consume).       *)
ReadsProtocol ==
    /\ status \in {"reading", "done", "answered"} => WellFormed(Said)
    /\ status = "error" => ~WellFormed(Said)
    /\ status \in {"done", "answered"} =>
        /\ Said[Len(Said)] = Done
        /\ details = [data |-> Meaning(Said, "data"), secrets |-> Meaning(Said, "secrets")]

\* What the service is given by the same connection.
Given == [data |-> details.data, secrets |-> details.secrets, scalars |-> << >>]

\* The documented use: a setting is spelled once, the auth mode is no secret,
\* and a value is one line without blanks around it.
Plain ==
    /\ \A t \in {"data", "secrets"} :
        /\ \A j, k \in DOMAIN details[t] : NormalKey(j) = NormalKey(k) => j = k
        /\ \A k \in DOMAIN details[t] :
            LET v == details[t][k] IN v = Trim(v) /\ \A i \in DOMAIN v : v[i] # "\n"
    /\ \A i \in DOMAIN AuthKeys : Spellings(details.secrets, AuthKeys[i]) = {}

(* When the service needs a setup key (NeedSecrets), the dialog for the    *)
(* same details asks for it, hands over one that is not blank, or fails    *)
(* because it may not ask; it never says that no secret is needed.         *)
AnswersNeedSecrets ==
    (/\ status = "answered" /\ Plain
     /\ NeedsSetupKeySecret(Given) /\ opts.hints # "sso")
        => \/ answer.kind = "setup-key" /\ (answer.ask \/ Trim(answer.key) # <<>>)
           \/ answer = Error /\ ~(opts.external /\ opts.interaction)

(* When the service needs none, and does not prompt, the dialog neither    *)
(* fails nor asks: a connection with its key is activated unattended.      *)
NoNeedlessQuestion ==
    (/\ status = "answered" /\ Plain
     /\ ~NeedsSetupKeySecret(Given) /\ opts.hints = "none" /\ ~opts.reprompt)
        => answer.kind \in {"setup-key", "no-secret"} /\ ~answer.ask

=============================================================================
