-------------------------- MODULE AuthDialogProofs --------------------------
(***************************************************************************)
(* The auth dialog reads what the agent's lines say, and reads in the      *)
(* settings they carry what the service reads.                             *)
(***************************************************************************)
EXTENDS AuthDialog, SettingsProofs, SequenceTheorems

\* The words of the texts (the provers do not know that "\n" is a string).
Word == STRING \cup {"\n"}
Text == Seq(Word)
Target == {"data", "secrets"}

\* What is kept of a connection: texts under texts.
Values(values) ==
    /\ values = [k \in DOMAIN values |-> values[k]]
    /\ \A k \in DOMAIN values : k \in Text /\ values[k] \in Text

Typed ==
    /\ read \in Seq(Lines \cup {Done})
    /\ status \in {"reading", "done", "error", "failed", "answered"}
    /\ details = [t \in Target |-> details[t]]
    /\ \A t \in Target : Values(details[t])
    /\ field \in {"", "key", "value"}
    /\ field = "" <=> pending = NoPair
    /\ field # "" => pending \in [target : Target, key : Text, value : Text]
    /\ opts \in Options
    /\ answer.kind \in {"none", "error", "sso", "setup-key", "no-secret"}

\* A line has the target and the text of its kind.
LEMMA LineTyped ==
    ASSUME NEW line \in Lines \cup {Done}
    PROVE  /\ line.text \in Text
           /\ line.tag \in {"key", "value"} => line.target \in Target
<1>1. CASE line = Done
  BY <1>1, EmptySeq DEF Done, Text
<1>2. CASE line \in Lines
  <2>1. line.text \in Seq(STRING)
    BY <1>2, LinesAssumption
  <2>2. line.text \in Text
    BY <2>1 DEF Text, Word
  <2> QED
    BY <1>2, <2>2, LinesAssumption DEF Target
<1> QED
  BY <1>1, <1>2

\* A pair that is put among values makes values.
LEMMA PutTyped ==
    ASSUME NEW values, Values(values), NEW k \in Text, NEW v \in Text
    PROVE  Values(Put(values, k, v))
BY DEF Values, Put

\* What is flushed is typed.
LEMMA FlushedTyped ==
    ASSUME Typed
    PROVE  /\ Flushed = [t \in Target |-> Flushed[t]]
           /\ \A t \in Target : Values(Flushed[t])
<1>1. /\ details = [t \in Target |-> details[t]]
      /\ \A t \in Target : Values(details[t])
  BY DEF Typed
<1>2. CASE field # "value"
  BY <1>1, <1>2 DEF Flushed
<1>3. CASE field = "value"
  <2>1. pending.target \in Target /\ pending.key \in Text
        /\ pending.value \in Text
    BY <1>3 DEF Typed
  <2> DEFINE new == Put(details[pending.target], pending.key, pending.value)
  <2>2. Values(new)
    BY <1>1, <2>1, PutTyped
  <2>3. Flushed = [details EXCEPT ![pending.target] = new]
    BY <1>3 DEF Flushed
  <2> HIDE DEF new
  <2>4. Flushed = [t \in Target |-> IF t = pending.target THEN new
                                    ELSE details[t]]
    BY <1>1, <2>1, <2>3
  <2> QED
    BY <1>1, <2>2, <2>4
<1> QED
  BY <1>2, <1>3

\* An empty input leaves no details.
LEMMA NothingTyped ==
    /\ Nothing = [t \in Target |-> Nothing[t]]
    /\ \A t \in Target : Values(Nothing[t])
BY DEF Nothing, Target, Values

\* The dialog starts with nothing read.
LEMMA InitTyped == Init => Typed
<1>1. read = <<>> => read \in Seq(Lines \cup {Done})
  BY EmptySeq
<1>2. NoOptions \in Options
  BY Zenon DEF NoOptions, Options
<1> SUFFICES ASSUME Init PROVE Typed
  OBVIOUS
<1>3. read \in Seq(Lines \cup {Done}) /\ opts \in Options
  BY <1>1, <1>2 DEF Init
<1>4. details = [t \in Target |-> details[t]] /\ \A t \in Target : Values(details[t])
  BY NothingTyped, Zenon DEF Init
<1>5. field = "" /\ pending = NoPair /\ status = "reading" /\ answer.kind = "none"
  BY DEF Init, NoAnswer
<1> QED
  BY <1>3, <1>4, <1>5 DEF Typed

\* A line keeps the types, whatever it does to the pending pair.
LEMMA ConsumeTyped ==
    ASSUME Typed, NEW line \in Lines \cup {Done}, Consume(line)
    PROVE  Typed'
<1>1. /\ read' \in Seq(Lines \cup {Done})
      /\ UNCHANGED <<opts, answer>>
  BY AppendProperties DEF Consume, Typed
<1>2. line.text \in Text /\ (line.tag \in {"key", "value"} => line.target \in Target)
  BY LineTyped
<1>3. CASE GiveUp("error")
  BY <1>1, <1>3, NothingTyped DEF GiveUp, Typed
<1>4. CASE Take(line) /\ Accepts(line)
  <2>1. CASE line.tag = "blank"
    BY <1>1, <1>4, <2>1 DEF Take, Typed
  <2>2. CASE line.tag = "done"
    BY <1>1, <1>4, <2>2, FlushedTyped DEF Take, Typed
  <2>3. CASE line.tag = "continue"
    <3>1. /\ pending' = [pending EXCEPT ![field] = @ \o <<"\n">> \o line.text]
          /\ UNCHANGED <<status, details, field>>
          /\ field \in {"key", "value"}
      BY <1>4, <2>3 DEF Take, Accepts, Typed
    <3>2. pending \in [target : Target, key : Text, value : Text]
      BY <3>1 DEF Typed
    <3>3. pending[field] \o <<"\n">> \o line.text \in Text
      <4>1. pending[field] \in Text
        BY <3>1, <3>2
      <4>2. <<"\n">> \in Text
        BY SMT DEF Text, Word
      <4> QED
        BY <1>2, <4>1, <4>2, ConcatProperties DEF Text
    <3> DEFINE joined == pending[field] \o <<"\n">> \o line.text
    <3>4. pending' = [pending EXCEPT ![field] = joined] /\ joined \in Text
      BY <3>1, <3>3
    <3> HIDE DEF joined
    <3>5. pending' \in [target : Target, key : Text, value : Text]
      BY <3>1, <3>2, <3>4
    <3>6. pending' # NoPair
      BY <3>5 DEF NoPair, Target
    <3> QED
      BY <1>1, <3>1, <3>5, <3>6 DEF Typed
  <2>4. CASE line.tag = "key"
    <3> DEFINE new == [target |-> line.target, key |-> line.text, value |-> <<>>]
    <3>0. <<>> \in Text
      BY EmptySeq DEF Text
    <3>1. new \in [target : Target, key : Text, value : Text] /\ new # NoPair
      BY <1>2, <2>4, <3>0 DEF NoPair, Target
    <3>2. pending' = new
      BY <1>4, <2>4 DEF Take
    <3> HIDE DEF new
    <3> QED
      BY <1>1, <1>4, <2>4, <3>1, <3>2, FlushedTyped DEF Take, Typed
  <2>5. CASE line.tag = "value"
    <3>1. pending \in [target : Target, key : Text, value : Text]
      BY <1>4, <2>5 DEF Accepts, Typed
    <3>2. pending' \in [target : Target, key : Text, value : Text]
          /\ pending' # NoPair
      BY <1>2, <1>4, <2>5, <3>1 DEF Take, NoPair, Target
    <3> QED
      BY <1>1, <1>4, <2>5, <3>2 DEF Take, Typed
  <2> QED
    BY <1>4, <2>1, <2>2, <2>3, <2>4, <2>5 DEF Take
<1> QED
  BY <1>3, <1>4 DEF Consume

\* An answer changes nothing that was read.
LEMMA WriteTyped ==
    ASSUME Typed, NEW o \in Options, WriteResponse(o)
    PROVE  Typed'
<1>1. answer'.kind \in {"none", "error", "sso", "setup-key", "no-secret"}
  BY DEF WriteResponse, SSOAnswer, KeyAnswer, Error, NoSecret
<1> QED
  BY <1>1 DEF WriteResponse, Typed

\* Every step keeps the types.
LEMMA NextTyped == Typed /\ [Next]_vars => Typed'
<1> SUFFICES ASSUME Typed, [Next]_vars PROVE Typed'
  OBVIOUS
<1>1. CASE EndOfInput
  BY <1>1, NothingTyped DEF EndOfInput, GiveUp, Typed
<1>2. CASE UNCHANGED vars
  BY <1>2 DEF vars, Typed
<1> QED
  BY <1>1, <1>2, ConsumeTyped, WriteTyped DEF Next

(* Whatever lines come, and however many, a pair is pending exactly while  *)
(* one is being read (consume, flush).                                     *)
THEOREM TypeCorrect == Spec => []TypeOK
<1>1. Typed => TypeOK
  <2> SUFFICES ASSUME Typed PROVE TypeOK
    OBVIOUS
  <2>1. \A i \in DOMAIN read : read[i] \in Lines \cup {Done}
    BY LenProperties, ElementOfSeq DEF Typed
  <2>2. DOMAIN details = {"data", "secrets"}
    BY DEF Typed, Target
  <2> QED
    BY <2>1, <2>2 DEF Typed, TypeOK
<1> QED
  BY InitTyped, NextTyped, <1>1, PTL DEF Spec

-----------------------------------------------------------------------------
(* Settings as they are documented.                                        *)

\* What an answer is made from; nothing changes after it.
AnsweredFromDetails ==
    (status = "answered" /\ opts.hints # "sso") =>
        \E mode \in AuthModes(details), key \in SetupKeys(details) :
            answer = IF mode = "setup-key" \/ opts.hints = "setup-key"
                     THEN KeyAnswer(opts, key) ELSE NoSecret

\* What was answered stays the answer to the details that were read.
LEMMA AnsweredStep == AnsweredFromDetails /\ [Next]_vars => AnsweredFromDetails'
<1> SUFFICES ASSUME AnsweredFromDetails, [Next]_vars PROVE AnsweredFromDetails'
  OBVIOUS
<1>1. ASSUME NEW line \in Lines \cup {Done}, Consume(line)
      PROVE  status' # "answered"
  BY <1>1 DEF Consume, Take, GiveUp
<1>2. ASSUME EndOfInput PROVE status' # "answered"
  BY <1>2 DEF EndOfInput, GiveUp
<1>3. ASSUME NEW o \in Options, WriteResponse(o) PROVE AnsweredFromDetails'
  <2>1. details' = details /\ opts' = o
    BY <1>3 DEF WriteResponse
  <2>2. AuthModes(details)' = AuthModes(details) /\ SetupKeys(details)' = SetupKeys(details)
    BY <2>1
  <2>3. ASSUME NEW key PROVE KeyAnswer(opts, key)' = KeyAnswer(o, key)
    BY <2>1
  <2> QED
    BY <1>3, <2>1, <2>2, <2>3 DEF WriteResponse, AnsweredFromDetails
<1>4. CASE UNCHANGED vars
  BY <1>4 DEF vars, AnsweredFromDetails
<1> QED
  BY <1>1, <1>2, <1>3, <1>4 DEF Next, AnsweredFromDetails

\* What Plain says of one section.
Clean(values) ==
    /\ SpeltOnce(values)
    /\ \A k \in DOMAIN values :
        values[k] = Trim(values[k]) /\ \A i \in DOMAIN values[k] : values[k][i] # "\n"

\* Details in the documented form are trimmed and spelled once.
LEMMA PlainIsClean ==
    ASSUME Plain
    PROVE  Clean(details.data) /\ Clean(details.secrets)
BY DEF Plain, Clean, SpeltOnce

\* The one value of a name among clean ones.
LEMMA CleanCandidate ==
    ASSUME NEW values, Clean(values), NEW n, NEW k \in Spellings(values, n)
    PROVE  /\ Spellings(values, n) = {k}
           /\ Candidates(values, n) = {values[k]}
           /\ Candidates(Trimmed(values), n) = {values[k]}
           /\ Trim(values[LastSpelling(Spellings(values, n))]) = values[k]
<1>1. Spellings(values, n) = {k} /\ k \in DOMAIN values
  BY OneSpelling DEF Clean, Spellings
<1>2. Spellings(Trimmed(values), n) = {k} /\ Trimmed(values)[k] = values[k]
  BY <1>1 DEF Trimmed, Spellings, Clean
<1> QED
  BY <1>1, <1>2, LastOfOne DEF Candidates, Clean

\* What the service reads under a name in clean details.
LEMMA CleanFlattened ==
    ASSUME Plain, NEW n
    PROVE  /\ Spellings(details.secrets, n) # {}
                => Candidates(details.secrets, n) = {Flattened(Given, n)}
           /\ Spellings(details.secrets, n) = {}
                => Candidates(Trimmed(details.data), n) = {Flattened(Given, n)}
<1>1. /\ Given.data = details.data /\ Given.secrets = details.secrets
      /\ Spellings(Given.scalars, n) = {}
  BY DEF Given, Spellings
<1>2. CASE Spellings(details.secrets, n) # {}
  <2>1. PICK k \in Spellings(details.secrets, n) : TRUE
    BY <1>2
  <2> QED
    BY <1>1, <1>2, <2>1, PlainIsClean, CleanCandidate DEF Flattened
<1>3. CASE Spellings(details.secrets, n) = {} /\ Spellings(details.data, n) # {}
  <2>1. PICK k \in Spellings(details.data, n) : TRUE
    BY <1>3
  <2> QED
    BY <1>1, <1>3, <2>1, PlainIsClean, CleanCandidate DEF Flattened
<1>4. CASE Spellings(details.secrets, n) = {} /\ Spellings(details.data, n) = {}
  <2>1. Spellings(Trimmed(details.data), n) = {}
    BY <1>4 DEF Trimmed, Spellings
  <2> QED
    BY <1>1, <1>4, <2>1 DEF Flattened, Candidates
<1> QED
  BY <1>2, <1>3, <1>4

\* The dialog and the service find the same auth mode.
LEMMA SameAuthMode ==
    ASSUME Plain
    PROVE  AuthModes(details) = {AuthMode(FirstSetting(Given, AuthKeys))}
<1>1. \A i \in DOMAIN AuthKeys :
        Candidates(Trimmed(details.data), AuthKeys[i]) = {Flattened(Given, AuthKeys[i])}
  BY CleanFlattened DEF Plain
<1>2. FirstValues(Trimmed(details.data), AuthKeys) = {FirstSetting(Given, AuthKeys)}
  BY <1>1, KeysAreSequences, SameFirstValue
<1> QED
  BY <1>2 DEF AuthModes

\* When the service has a setup key, any that the dialog may find can be handed
\* over.
LEMMA KeyIsUsable ==
    ASSUME Plain, FirstSetting(Given, SetupKeyKeys) # <<>>,
           NEW key \in SetupKeys(details)
    PROVE  /\ key # <<>> /\ key = Trim(key)
           /\ \A i \in DOMAIN key : key[i] # "\n"
<1>1. PICK v \in FirstValues(details.secrets, SetupKeyKeys) :
        key \in IF v # <<>> THEN {v}
                ELSE FirstValues(Trimmed(details.data), SetupKeyKeys)
  BY DEF SetupKeys
<1>2. CASE v # <<>>
  <2>1. PICK k \in DOMAIN details.secrets : v = details.secrets[k]
    BY <1>2, FirstValuesAre
  <2> QED
    BY <1>1, <1>2, <2>1, PlainIsClean DEF Clean
<1>3. CASE v = <<>> /\ key # <<>>
  <2>1. PICK k \in DOMAIN Trimmed(details.data) : key = Trimmed(details.data)[k]
    BY <1>1, <1>3, FirstValuesAre
  <2>2. key = details.data[k] /\ k \in DOMAIN details.data
    BY <2>1, PlainIsClean DEF Clean, Trimmed
  <2> QED
    BY <1>3, <2>2, PlainIsClean DEF Clean
<1>4. CASE v = <<>> /\ key = <<>>
  <2>1. ASSUME NEW i \in DOMAIN SetupKeyKeys
        PROVE  Flattened(Given, SetupKeyKeys[i]) = <<>>
    <3>1. /\ <<>> \in Candidates(details.secrets, SetupKeyKeys[i])
          /\ <<>> \in Candidates(Trimmed(details.data), SetupKeyKeys[i])
      BY <1>1, <1>4, FirstValuesAre, KeysAreSequences
    <3> QED
      BY <3>1, CleanFlattened
  <2> QED
    BY <2>1, NoFirstSetting, KeysAreSequences
<1> QED
  BY <1>1, <1>2, <1>3, <1>4

(* Whatever the lines are, and whichever spelling the dialog happens to    *)
(* find first: when the service needs a setup key, the dialog never        *)
(* answers that none is needed, nor hands over a blank one                 *)
(* (setupKeyRequirement, against needsSetupKeySecret).                     *)
THEOREM AnswersNeedSecretsCorrect == Spec => []AnswersNeedSecrets
<1>1. Init => AnsweredFromDetails
  BY DEF Init, AnsweredFromDetails
<1>2. AnsweredFromDetails => AnswersNeedSecrets
  <2> SUFFICES ASSUME AnsweredFromDetails, status = "answered", Plain,
                      NeedsSetupKeySecret(Given), opts.hints # "sso"
               PROVE  \/ answer.kind = "setup-key" /\ (answer.ask \/ Trim(answer.key) # <<>>)
                      \/ answer = Error /\ ~(opts.external /\ opts.interaction)
    BY DEF AnswersNeedSecrets
  <2>1. PICK key \in SetupKeys(details) : answer = KeyAnswer(opts, key)
    BY SameAuthMode DEF AnsweredFromDetails, NeedsSetupKeySecret
  <2> QED
    BY <2>1 DEF KeyAnswer
<1> QED
  BY <1>1, <1>2, AnsweredStep, PTL DEF Spec

(* And when the service needs none, the dialog does not disturb the user:  *)
(* it neither asks nor fails (setupKeyRequirement, against                 *)
(* needsSetupKeySecret).                                                   *)
THEOREM NoNeedlessQuestionCorrect == Spec => []NoNeedlessQuestion
<1>1. Init => AnsweredFromDetails
  BY DEF Init, AnsweredFromDetails
<1>2. AnsweredFromDetails => NoNeedlessQuestion
  <2> SUFFICES ASSUME AnsweredFromDetails, status = "answered", Plain,
                      ~NeedsSetupKeySecret(Given), opts.hints = "none", ~opts.reprompt
               PROVE  answer.kind \in {"setup-key", "no-secret"} /\ ~answer.ask
    BY DEF NoNeedlessQuestion
  <2>1. PICK mode \in AuthModes(details), key \in SetupKeys(details) :
            answer = IF mode = "setup-key" THEN KeyAnswer(opts, key) ELSE NoSecret
    BY DEF AnsweredFromDetails
  <2>2. CASE mode # "setup-key"
    BY <2>1, <2>2 DEF NoSecret
  <2>3. CASE mode = "setup-key"
    <3>1. FirstSetting(Given, SetupKeyKeys) # <<>>
      BY <2>3, SameAuthMode DEF NeedsSetupKeySecret
    <3>2. /\ Trim(key) # <<>>
          /\ \A i \in DOMAIN key : key[i] # "\n"
      BY <3>1, KeyIsUsable
    <3> QED
      BY <2>1, <2>3, <3>2 DEF KeyAnswer
  <2> QED
    BY <2>2, <2>3
<1> QED
  BY <1>1, <1>2, AnsweredStep, PTL DEF Spec

-----------------------------------------------------------------------------
(* The texts of the lines.                                                 *)

Line == Lines \cup {Done}

\* The text at a line, with the lines that it continues.
TextAt(lines, text, i) ==
    IF i > 1 /\ lines[i].tag = "continue"
    THEN text[i - 1] \o <<"\n">> \o lines[i].text ELSE lines[i].text

\* The function that defines UpTo, as far as a line.
Joins(lines, m, text) == text = [i \in 1..m |-> TextAt(lines, text, i)]

\* There is such a function: it can be built line by line.
LEMMA JoinsExist ==
    ASSUME NEW lines, NEW m \in Nat
    PROVE  \E text : Joins(lines, m, text)
<1> DEFINE none == {l \in Nat : ~ \E text : Joins(lines, l, text)}
<1> SUFFICES ASSUME none # {} PROVE FALSE
  OBVIOUS
<1> DEFINE least == Min(none)
<1>1. least \in none /\ \A l \in none : least <= l
  BY MinIsFirst
<1> HIDE DEF least
<1>2. least # 0
  <2>1. Joins(lines, 0, [i \in 1..0 |-> <<>>])
    BY DEF Joins
  <2> QED
    BY <1>1, <2>1
<1>3. least \in Nat /\ least - 1 \in Nat /\ least - 1 \notin none
  BY <1>1, <1>2
<1>4. PICK text : Joins(lines, least - 1, text)
  BY <1>3
<1> DEFINE last == TextAt(lines, text, least)
           longer == [i \in 1..least |-> IF i = least THEN last ELSE text[i]]
<1> HIDE DEF none
<1>5. ASSUME NEW i \in 1..least PROVE longer[i] = TextAt(lines, longer, i)
  <2>1. i > 1 => longer[i - 1] = text[i - 1]
    BY <1>3
  <2>2. TextAt(lines, longer, i) = TextAt(lines, text, i)
    BY <2>1 DEF TextAt
  <2>3. CASE i = least
    BY <2>2, <2>3
  <2>4. CASE i # least
    <3>1. i \in 1..least - 1
      BY <1>3, <2>4
    <3>2. text[i] = TextAt(lines, text, i)
      BY <1>4, <3>1 DEF Joins
    <3> QED
      BY <2>2, <2>4, <3>2
  <2> QED
    BY <2>3, <2>4
<1>6. Joins(lines, least, longer)
  <2>1. longer = [i \in 1..least |-> longer[i]]
    OBVIOUS
  <2> HIDE DEF longer
  <2> QED
    BY <1>5, <2>1 DEF Joins
<1> QED
  BY <1>1, <1>6 DEF none

\* UpTo is that function.
LEMMA UpToStep ==
    ASSUME NEW lines \in Seq(Line)
    PROVE  \A i \in 1..Len(lines) : UpTo(lines)[i] = TextAt(lines, UpTo(lines), i)
<1>1. Len(lines) \in Nat /\ DOMAIN lines = 1..Len(lines)
  BY LenProperties
<1>2. PICK text : Joins(lines, Len(lines), text)
  BY <1>1, JoinsExist
<1>3. Joins(lines, Len(lines), UpTo(lines))
  BY <1>1, <1>2 DEF UpTo, Joins, TextAt
<1> QED
  BY <1>3 DEF Joins

\* The lines that follow leave the texts before them.
LEMMA UpToAppend ==
    ASSUME NEW lines \in Seq(Line), NEW x \in Line
    PROVE  \A i \in 1..Len(lines) : UpTo(Append(lines, x))[i] = UpTo(lines)[i]
<1> DEFINE m == Len(lines)
           longer == Append(lines, x)
           f == UpTo(lines)
           g == UpTo(longer)
           apart == {i \in 1..m : g[i] # f[i]}
<1>1. /\ m \in Nat /\ longer \in Seq(Line) /\ Len(longer) = m + 1
      /\ \A i \in 1..m : longer[i] = lines[i]
  BY AppendProperties, LenProperties
<1>2. /\ \A i \in 1..m : f[i] = TextAt(lines, f, i)
      /\ \A i \in 1..m : g[i] = TextAt(longer, g, i)
  <2>1. \A i \in 1..m : f[i] = TextAt(lines, f, i)
    BY UpToStep, Zenon
  <2>2. \A i \in 1..Len(longer) : g[i] = TextAt(longer, g, i)
    BY <1>1, UpToStep, Zenon
  <2> HIDE DEF m, longer, f, g
  <2> QED
    BY <1>1, <2>1, <2>2
<1> HIDE DEF m, longer, f, g
<1> SUFFICES ASSUME apart # {} PROVE FALSE
  BY DEF m, longer, f, g
<1> DEFINE l == Min(apart)
<1>3. l \in apart /\ \A i \in apart : l <= i
  <2>1. apart \in SUBSET Nat
    BY <1>1
  <2> HIDE DEF apart
  <2> QED
    BY <2>1, MinIsFirst
<1> HIDE DEF l
<1>4. l \in 1..m /\ g[l] # f[l] /\ (l > 1 => g[l - 1] = f[l - 1])
  BY <1>1, <1>3
<1>5. longer[l] = lines[l]
  BY <1>1, <1>4
<1>6. TextAt(longer, g, l) = TextAt(lines, f, l)
  BY <1>4, <1>5 DEF TextAt
<1> QED
  BY <1>2, <1>4, <1>6

-----------------------------------------------------------------------------
(* What closed pairs mean, as later lines come.                            *)

\* Positions that are the same as far as one of them have the same first one.
LEMMA SameMin ==
    ASSUME NEW S \in SUBSET Nat, NEW T \in SUBSET Nat, NEW b \in S, b \in T,
           \A j \in 0..b : j \in S <=> j \in T
    PROVE  Min(S) = Min(T) /\ Min(S) \in S /\ Min(S) <= b
<1>1. /\ Min(S) \in S /\ \A i \in S : Min(S) <= i
      /\ Min(T) \in T /\ \A i \in T : Min(T) <= i
  BY MinIsFirst
<1>2. Min(S) \in Nat /\ Min(T) \in Nat /\ b \in Nat
  BY <1>1
<1>3. Min(S) <= b /\ Min(T) <= b
  BY <1>1
<1>4. Min(S) \in T /\ Min(T) \in S
  BY <1>1, <1>2, <1>3
<1> QED
  BY <1>1, <1>2, <1>3, <1>4

\* The lines after one continue it as far as another, and no further.
EndsAt(lines, i, j) ==
    /\ i \in Nat /\ j \in Nat /\ 1 <= i /\ i <= j /\ j <= Len(lines)
    /\ \A k \in i + 1..j : lines[k].tag = "continue"
    /\ j = Len(lines) \/ lines[j + 1].tag # "continue"

\* The last line of a text is the one before the next that continues none.
LEMMA EndIs ==
    ASSUME NEW lines \in Seq(Line), NEW i, NEW j, EndsAt(lines, i, j)
    PROVE  End(lines, i) = j
<1> DEFINE S == {l \in DOMAIN lines :
                    l >= i /\ (l = Len(lines) \/ lines[l + 1].tag # "continue")}
<1>1. Len(lines) \in Nat /\ DOMAIN lines = 1..Len(lines)
  BY LenProperties
<1>2. i \in Nat /\ j \in Nat /\ 1 <= i /\ i <= j /\ j <= Len(lines)
  BY Zenon DEF EndsAt
<1>3. /\ \A k \in i + 1..j : lines[k].tag = "continue"
      /\ j = Len(lines) \/ lines[j + 1].tag # "continue"
  BY Zenon DEF EndsAt
<1>4. S \in SUBSET Nat
  BY <1>1
<1>5. j \in S
  <2>1. j \in DOMAIN lines
    BY <1>1, <1>2
  <2>2. j >= i
    BY <1>2
  <2> QED
    BY <1>3, <2>1, <2>2, Zenon
<1>6. ASSUME NEW l \in S, l < j PROVE FALSE
  <2>1. l \in 1..Len(lines) /\ l >= i
    BY <1>1
  <2>2. l = Len(lines) \/ lines[l + 1].tag # "continue"
    OBVIOUS
  <2>3. l < j
    BY <1>6
  <2> HIDE DEF S
  <2>4. l \in Nat /\ l >= i
    BY <2>1
  <2>5. l + 1 \in i + 1..j /\ l # Len(lines)
    BY <1>2, <2>3, <2>4
  <2> QED
    BY <1>3, <2>2, <2>5, Zenon
<1>7. End(lines, i) = Min(S)
  BY DEF End
<1> HIDE DEF S
<1>8. Min(S) \in S /\ Min(S) <= j
  BY <1>4, <1>5, MinIsFirst
<1>9. Min(S) \in Nat /\ ~(Min(S) < j)
  BY <1>4, <1>6, <1>8
<1> QED
  BY <1>2, <1>7, <1>8, <1>9

\* The first value after a line (Meaning).
ValueAfter(lines, i) == Min({j \in DOMAIN lines : j > i /\ lines[j].tag = "value"})

\* A line after which a new text begins keeps its text.
LEMMA JoinedKept ==
    ASSUME NEW lines \in Seq(Line), NEW x \in Line,
           NEW p \in 1..Len(lines), lines[p].tag # "continue", NEW i \in 1..p - 1
    PROVE  Joined(Append(lines, x), i) = Joined(lines, i)
<1> DEFINE m == Len(lines)
           longer == Append(lines, x)
           S == {l \in DOMAIN lines :
                    l >= i /\ (l = Len(lines) \/ lines[l + 1].tag # "continue")}
           T == {l \in DOMAIN longer :
                    l >= i /\ (l = Len(longer) \/ longer[l + 1].tag # "continue")}
<1>1. /\ m \in Nat /\ DOMAIN lines = 1..m
      /\ longer \in Seq(Line) /\ Len(longer) = m + 1 /\ DOMAIN longer = 1..m + 1
      /\ \A l \in 1..m : longer[l] = lines[l]
  BY AppendProperties, LenProperties
<1>2. UpTo(longer) = UpTo(longer) /\ \A l \in 1..m : UpTo(longer)[l] = UpTo(lines)[l]
  BY UpToAppend
<1>3. End(lines, i) = Min(S) /\ End(longer, i) = Min(T)
  BY DEF End
<1> HIDE DEF longer, m
<1>4. p - 1 \in S /\ p - 1 \in T
  BY <1>1
<1>5. ASSUME NEW j \in 0..p - 1 PROVE j \in S <=> j \in T
  <2>1. CASE j = 0
    BY <1>1, <2>1
  <2>2. CASE j # 0
    <3>1. j \in 1..m /\ j + 1 \in 1..m /\ j # m /\ j # m + 1
      BY <1>1, <2>2
    <3>2. longer[j + 1] = lines[j + 1]
      BY <1>1, <3>1
    <3> QED
      BY <1>1, <3>1, <3>2
  <2> QED
    BY <2>1, <2>2
<1>6. S \in SUBSET Nat /\ T \in SUBSET Nat /\ S \in SUBSET (1..m)
  BY <1>1
<1> HIDE DEF S, T
<1>7. Min(S) = Min(T) /\ Min(S) \in S
  BY <1>4, <1>5, <1>6, SameMin
<1> QED
  BY <1>2, <1>3, <1>6, <1>7 DEF Joined, longer, m

\* So does the value of a key that has one.
LEMMA ValueKept ==
    ASSUME NEW lines \in Seq(Line), NEW x \in Line, NEW i \in Nat,
           NEW b \in 1..Len(lines), b > i, lines[b].tag = "value"
    PROVE  /\ ValueAfter(Append(lines, x), i) = ValueAfter(lines, i)
           /\ ValueAfter(lines, i) \in 1..b
<1> DEFINE m == Len(lines)
           longer == Append(lines, x)
           S == {j \in DOMAIN lines : j > i /\ lines[j].tag = "value"}
           T == {j \in DOMAIN longer : j > i /\ longer[j].tag = "value"}
<1>1. /\ m \in Nat /\ DOMAIN lines = 1..m
      /\ DOMAIN longer = 1..m + 1 /\ \A l \in 1..m : longer[l] = lines[l]
  BY AppendProperties, LenProperties
<1>2. ValueAfter(lines, i) = Min(S) /\ ValueAfter(longer, i) = Min(T)
  BY DEF ValueAfter
<1> HIDE DEF longer, m
<1>3. b \in S /\ b \in T
  BY <1>1 DEF m
<1>4. \A j \in 0..b : j \in S <=> j \in T
  BY <1>1 DEF m
<1>5. S \in SUBSET Nat /\ T \in SUBSET Nat /\ S \in SUBSET (1..m)
  BY <1>1
<1> HIDE DEF S, T
<1>6. Min(S) = Min(T) /\ Min(S) \in S /\ Min(S) <= b
  BY <1>3, <1>4, <1>5, SameMin
<1>7. Min(S) \in 1..m
  BY <1>5, <1>6
<1>8. Min(S) \in 1..b
  BY <1>1, <1>6, <1>7 DEF m
<1> QED
  BY <1>2, <1>6, <1>8 DEF longer

\* The keys of a target before a line, and what they and their values mean
\* (Meaning, of the lines before).
KeysTo(lines, p, target) ==
    {i \in 1..p - 1 : lines[i].tag = "key" /\ lines[i].target = target}
SameKey(lines, p, target, k) == {i \in KeysTo(lines, p, target) : Joined(lines, i) = k}
KeyTexts(lines, p, target) == {Joined(lines, i) : i \in KeysTo(lines, p, target)}
ValueUnder(lines, p, target, k) ==
    Joined(lines, ValueAfter(lines, Max(SameKey(lines, p, target, k))))
MeaningTo(lines, p, target) ==
    [k \in KeyTexts(lines, p, target) |-> ValueUnder(lines, p, target, k)]

\* The keys before a line have their values there.
Paired(lines, p) ==
    \A i \in 1..p - 1 :
        lines[i].tag = "key" => \E j \in i + 1..p - 1 : lines[j].tag = "value"

\* What closed pairs mean does not change as lines are added.
LEMMA MeaningKept ==
    ASSUME NEW lines \in Seq(Line), NEW x \in Line, NEW p \in 1..Len(lines),
           lines[p].tag # "continue", Paired(lines, p), NEW t
    PROVE  MeaningTo(Append(lines, x), p, t) = MeaningTo(lines, p, t)
<1> DEFINE longer == Append(lines, x)
<1>1. Len(lines) \in Nat /\ \A i \in 1..Len(lines) : longer[i] = lines[i]
  BY AppendProperties, LenProperties
<1>2. p \in Nat /\ p - 1 \in Nat /\ \A i \in 1..p - 1 : i \in 1..Len(lines)
  BY <1>1
<1>3. \A i \in 1..p - 1 : Joined(longer, i) = Joined(lines, i)
  BY JoinedKept
<1>4. ASSUME NEW i \in KeysTo(lines, p, t)
      PROVE  /\ ValueAfter(longer, i) = ValueAfter(lines, i)
             /\ ValueAfter(lines, i) \in 1..p - 1
  <2>1. i \in 1..p - 1 /\ lines[i].tag = "key"
    BY DEF KeysTo
  <2>2. PICK j \in i + 1..p - 1 : lines[j].tag = "value"
    BY <2>1 DEF Paired
  <2>3. i \in Nat /\ j \in 1..Len(lines) /\ j > i /\ j <= p - 1
    BY <1>1, <1>2, <2>1
  <2>4. ValueAfter(longer, i) = ValueAfter(lines, i) /\ ValueAfter(lines, i) \in 1..j
    BY <2>2, <2>3, ValueKept
  <2> QED
    BY <1>2, <2>3, <2>4
<1> HIDE DEF longer
<1>5. KeysTo(longer, p, t) = KeysTo(lines, p, t)
  BY <1>1, <1>2 DEF KeysTo
<1>6. \A i \in KeysTo(lines, p, t) : i \in 1..p - 1
  BY DEF KeysTo
<1>7. KeyTexts(longer, p, t) = KeyTexts(lines, p, t)
  BY <1>3, <1>5, <1>6 DEF KeyTexts
<1>8. ASSUME NEW k \in KeyTexts(lines, p, t)
      PROVE  ValueUnder(longer, p, t, k) = ValueUnder(lines, p, t, k)
  <2>1. SameKey(longer, p, t, k) = SameKey(lines, p, t, k)
    BY <1>3, <1>5, <1>6 DEF SameKey
  <2>2. SameKey(lines, p, t, k) # {} /\ SameKey(lines, p, t, k) \in SUBSET (1..p - 1)
    BY <1>6 DEF SameKey, KeyTexts
  <2> DEFINE l == Max(SameKey(lines, p, t, k))
  <2>3. l \in SameKey(lines, p, t, k)
    BY <1>2, <2>2, MaxIsLast
  <2>4. l \in KeysTo(lines, p, t)
    BY <2>3 DEF SameKey
  <2>5. /\ ValueAfter(longer, l) = ValueAfter(lines, l)
        /\ Joined(longer, ValueAfter(lines, l)) = Joined(lines, ValueAfter(lines, l))
    <3> HIDE DEF l
    <3> QED
      BY <1>3, <1>4, <2>4
  <2> QED
    BY <2>1, <2>5 DEF ValueUnder
<1> QED
  BY <1>7, <1>8 DEF MeaningTo, longer

\* Some lines continue the one before, and have a text with it.
HasText(lines, i, j, text) ==
    /\ \A k \in i + 1..j : lines[k].tag = "continue"
    /\ UpTo(lines)[j] = text

\* A pair after the ones before it.
WithPair(lines, p, target, key, value) ==
    IF lines[p].target = target THEN Put(MeaningTo(lines, p, target), key, value)
    ELSE MeaningTo(lines, p, target)

\* A key and its value, with their texts, as far as a line where a new text begins.
PairAt(lines, p, v, m, key, value) ==
    /\ lines \in Seq(Line)
    /\ m \in 1..Len(lines) /\ lines[m].tag # "continue"
    /\ p \in 1..m - 1 /\ lines[p].tag = "key" /\ Paired(lines, p)
    /\ v \in p + 1..m - 1 /\ lines[v].tag = "value"
    /\ HasText(lines, p, v - 1, key) /\ HasText(lines, v, m - 1, value)

\* A pair that is closed by a new text is put among the ones before.
LEMMA MeaningGrows ==
    ASSUME NEW lines, NEW p, NEW v, NEW m, NEW key, NEW value,
           PairAt(lines, p, v, m, key, value), NEW t
    PROVE  /\ MeaningTo(lines, m, t) = WithPair(lines, p, t, key, value)
           /\ Paired(lines, m)
<1>0. /\ lines \in Seq(Line)
      /\ m \in 1..Len(lines) /\ lines[m].tag # "continue"
      /\ p \in 1..m - 1 /\ lines[p].tag = "key" /\ Paired(lines, p)
      /\ v \in p + 1..m - 1 /\ lines[v].tag = "value"
      /\ HasText(lines, p, v - 1, key) /\ HasText(lines, v, m - 1, value)
  BY DEF PairAt
<1>1. /\ Len(lines) \in Nat /\ m \in Nat /\ p \in Nat /\ v \in Nat
      /\ 1 <= p /\ p < v /\ v < m /\ m <= Len(lines)
      /\ DOMAIN lines = 1..Len(lines)
  BY <1>0, LenProperties
<1>2. /\ \A k \in p + 1..v - 1 : lines[k].tag = "continue"
      /\ \A k \in v + 1..m - 1 : lines[k].tag = "continue"
      /\ UpTo(lines)[v - 1] = key /\ UpTo(lines)[m - 1] = value
  BY <1>0 DEF HasText
<1>3. Joined(lines, p) = key
  <2>1. v - 1 \in 1..Len(lines) /\ p \in 1..v - 1 /\ v - 1 + 1 = v
    BY <1>1
  <2>2. EndsAt(lines, p, v - 1)
    BY <1>0, <1>2, <2>1 DEF EndsAt
  <2>3. End(lines, p) = v - 1
    BY <1>0, <2>2, EndIs
  <2> QED
    BY <1>2, <2>3 DEF Joined
<1>4. Joined(lines, v) = value
  <2>1. m - 1 \in 1..Len(lines) /\ v \in 1..m - 1 /\ m - 1 + 1 = m
    BY <1>1
  <2>2. EndsAt(lines, v, m - 1)
    BY <1>0, <1>2, <2>1 DEF EndsAt
  <2>3. End(lines, v) = m - 1
    BY <1>0, <2>2, EndIs
  <2> QED
    BY <1>2, <2>3 DEF Joined
<1>5. ValueAfter(lines, p) = v
  <2> DEFINE S == {j \in DOMAIN lines : j > p /\ lines[j].tag = "value"}
  <2>1. S \in SUBSET Nat /\ v \in S
    BY <1>0, <1>1
  <2>2. ASSUME NEW j \in S PROVE v <= j
    <3>1. j \in Nat /\ j > p /\ lines[j].tag = "value"
      BY <1>1
    <3>2. j \notin p + 1..v - 1
      BY <1>2, <3>1
    <3> QED
      BY <1>0, <1>1, <3>1, <3>2
  <2>3. ValueAfter(lines, p) = Min(S)
    BY DEF ValueAfter
  <2> HIDE DEF S
  <2>4. Min(S) \in S /\ Min(S) <= v
    BY <2>1, MinIsFirst
  <2>5. v <= Min(S) /\ Min(S) \in Nat
    BY <2>1, <2>2, <2>4
  <2> QED
    BY <1>1, <2>3, <2>4, <2>5
<1>6. \A i \in 1..m - 1 : lines[i].tag = "key" => i = p \/ i \in 1..p - 1
  <2> SUFFICES ASSUME NEW i \in 1..m - 1, lines[i].tag = "key", i > p
               PROVE  FALSE
    BY <1>1
  <2>1. i \in p + 1..v - 1 \/ i = v \/ i \in v + 1..m - 1
    BY <1>1
  <2> QED
    BY <1>0, <1>2, <2>1
<1>7. Paired(lines, m)
  <2> SUFFICES ASSUME NEW i \in 1..m - 1, lines[i].tag = "key"
               PROVE  \E j \in i + 1..m - 1 : lines[j].tag = "value"
    BY DEF Paired
  <2>1. CASE i = p
    <3>1. v \in i + 1..m - 1
      BY <1>1, <2>1
    <3> QED
      BY <1>0, <3>1
  <2>2. CASE i # p
    <3>1. PICK j \in i + 1..p - 1 : lines[j].tag = "value"
      BY <1>0, <1>6, <2>2 DEF Paired
    <3>2. j \in i + 1..m - 1
      BY <1>1
    <3> QED
      BY <3>1, <3>2
  <2> QED
    BY <2>1, <2>2
<1>8. CASE lines[p].target # t
  <2>1. KeysTo(lines, m, t) = KeysTo(lines, p, t)
    BY <1>1, <1>6, <1>8 DEF KeysTo
  <2>2. MeaningTo(lines, m, t) = MeaningTo(lines, p, t)
    BY <2>1, Zenon DEF MeaningTo, KeyTexts, ValueUnder, SameKey
  <2> QED
    BY <1>7, <1>8, <2>2 DEF WithPair
<1>9. CASE lines[p].target = t
  <2>1. KeysTo(lines, m, t) = KeysTo(lines, p, t) \cup {p}
    BY <1>0, <1>1, <1>6, <1>9 DEF KeysTo
  <2>2. KeyTexts(lines, m, t) = KeyTexts(lines, p, t) \cup {key}
    BY <1>3, <2>1 DEF KeyTexts
  <2>3. ASSUME NEW k, k # key
        PROVE  ValueUnder(lines, m, t, k) = ValueUnder(lines, p, t, k)
    <3>1. SameKey(lines, m, t, k) = SameKey(lines, p, t, k)
      BY <1>3, <2>1, <2>3 DEF SameKey
    <3> QED
      BY <3>1 DEF ValueUnder
  <2>4. ValueUnder(lines, m, t, key) = value
    <3> DEFINE S == SameKey(lines, m, t, key)
    <3>1. S \in SUBSET (1..p) /\ p \in S
      BY <1>1, <1>3, <2>1 DEF SameKey, KeysTo
    <3>2. Max(S) \in S /\ p <= Max(S)
      <4> HIDE DEF S
      <4> QED
        BY <1>1, <3>1, MaxIsLast
    <3>3. Max(S) = p
      <4> DEFINE last == Max(S)
      <4>1. last \in 1..p /\ p <= last
        BY <3>1, <3>2
      <4> HIDE DEF last
      <4>2. last = p
        BY <1>1, <4>1
      <4> QED
        BY <4>2 DEF last
    <3> QED
      BY <1>4, <1>5, <3>3 DEF ValueUnder
  <2>5. DOMAIN MeaningTo(lines, p, t) = KeyTexts(lines, p, t)
        /\ \A k \in KeyTexts(lines, p, t) :
              MeaningTo(lines, p, t)[k] = ValueUnder(lines, p, t, k)
    BY DEF MeaningTo
  <2>6. MeaningTo(lines, m, t) = Put(MeaningTo(lines, p, t), key, value)
    BY <2>2, <2>3, <2>4, <2>5 DEF MeaningTo, Put
  <2> QED
    BY <1>7, <1>9, <2>6 DEF WithPair
<1> QED
  BY <1>8, <1>9

-----------------------------------------------------------------------------
(* What is accepted.                                                       *)

\* The lines that begin a text, when there is one more line.
LEMMA BegunAppend ==
    ASSUME NEW lines \in Seq(Line), NEW x \in Line
    PROVE  /\ Begun(lines) \in Seq(Line)
           /\ x.tag = "continue" => Begun(Append(lines, x)) = Begun(lines)
           /\ x.tag # "continue" => Begun(Append(lines, x)) = Append(Begun(lines), x)
<1> DEFINE longer == Append(lines, x)
           P == {i \in DOMAIN lines : lines[i].tag # "continue"}
           Q == {i \in DOMAIN longer : longer[i].tag # "continue"}
<1>1. /\ Len(lines) \in Nat /\ DOMAIN lines = 1..Len(lines)
      /\ DOMAIN longer = 1..Len(lines) + 1 /\ longer[Len(lines) + 1] = x
      /\ \A i \in 1..Len(lines) : longer[i] = lines[i]
  BY AppendProperties, LenProperties
<1>2. Begun(lines) = Kept(lines, P) /\ Begun(longer) = Kept(longer, Q)
  BY DEF Begun
<1> HIDE DEF longer
<1>3. \A i \in 1..Len(lines) : i \in P <=> i \in Q
  BY <1>1
<1>4. Len(lines) + 1 \in Q <=> x.tag # "continue"
  BY <1>1
<1> HIDE DEF P, Q
<1>5. Kept(lines, P) \in Seq(Line)
  BY KeptTyped
<1>6. /\ Len(lines) + 1 \in Q => Kept(longer, Q) = Append(Kept(lines, P), x)
      /\ Len(lines) + 1 \notin Q => Kept(longer, Q) = Kept(lines, P)
  BY <1>3, KeptAppend DEF longer
<1> QED
  BY <1>2, <1>4, <1>5, <1>6 DEF longer

\* What is said, when one more line is read: no blank line counts.
LEMMA SaidAppend ==
    ASSUME read \in Seq(Line), NEW x \in Line, read' = Append(read, x)
    PROVE  /\ Said \in Seq(Line)
           /\ x.tag = "blank" => Said' = Said
           /\ x.tag # "blank" => Said' = Append(Said, x)
<1> DEFINE P == {i \in DOMAIN read : read[i].tag # "blank"}
           Q == {i \in DOMAIN read' : read'[i].tag # "blank"}
<1>1. /\ Len(read) \in Nat /\ DOMAIN read = 1..Len(read)
      /\ DOMAIN read' = 1..Len(read) + 1 /\ read'[Len(read) + 1] = x
      /\ \A i \in 1..Len(read) : read'[i] = read[i]
  BY AppendProperties, LenProperties
<1>2. Said = Kept(read, P) /\ Said' = Kept(read', Q)
  BY DEF Said
<1>3. \A i \in 1..Len(read) : i \in P <=> i \in Q
  BY <1>1
<1>4. Len(read) + 1 \in Q <=> x.tag # "blank"
  BY <1>1
<1> HIDE DEF P, Q
<1>5. Kept(read, P) \in Seq(Line)
  BY KeptTyped
<1>6. /\ Len(read) + 1 \in Q => Kept(Append(read, x), Q) = Append(Kept(read, P), x)
      /\ Len(read) + 1 \notin Q => Kept(Append(read, x), Q) = Kept(read, P)
  BY <1>3, KeptAppend
<1> QED
  BY <1>2, <1>4, <1>5, <1>6

\* What WellFormed asks of a text's first line, after the ones before it.
Fits(begun, i) ==
    LET line == begun[i]
        last == begun[i - 1]
    IN  IF i > 1 /\ last.tag = "key"
        THEN line.tag = "value" /\ line.target = last.target
        ELSE line.tag = "key" \/ (line.tag = "done" /\ i > 1)

\* What it asks of one more line.
Follows(begun, x) ==
    IF begun # <<>> /\ begun[Len(begun)].tag = "key"
    THEN x.tag = "value" /\ x.target = begun[Len(begun)].target
    ELSE x.tag = "key" \/ (x.tag = "done" /\ begun # <<>>)

\* A line that begins a text keeps the lines well formed exactly when it follows.
LEMMA WellFormedStep ==
    ASSUME NEW lines \in Seq(Line), \A i \in 1..Len(lines) : lines[i].tag # "done",
           WellFormed(lines), NEW x \in Line, x.tag # "continue"
    PROVE  WellFormed(Append(lines, x)) <=> Follows(Begun(lines), x)
<1> DEFINE longer == Append(lines, x)
           B == Begun(lines)
           C == Begun(longer)
           n == Len(B)
<1>1. /\ Len(lines) \in Nat /\ DOMAIN longer = 1..Len(lines) + 1
      /\ Len(longer) = Len(lines) + 1 /\ longer # <<>>
      /\ \A i \in 1..Len(lines) : longer[i] = lines[i]
      /\ longer[Len(lines) + 1] = x
  BY AppendProperties, LenProperties
<1>2. B \in Seq(Line) /\ C = Append(B, x)
  BY BegunAppend
<1> HIDE DEF B, C, longer
<1>3. /\ n \in Nat /\ DOMAIN B = 1..n /\ DOMAIN C = 1..n + 1
      /\ C[n + 1] = x /\ \A i \in 1..n : C[i] = B[i]
  BY <1>2, AppendProperties, LenProperties
<1>4. B = <<>> <=> n = 0
  BY <1>2, EmptySeq
<1> HIDE DEF n
<1>5. longer[1].tag # "continue"
  <2>1. CASE lines = <<>>
    BY <1>1, <2>1, EmptySeq
  <2>2. CASE lines # <<>>
    <3>1. 1 \in 1..Len(lines)
      BY <1>1, <2>2, EmptySeq
    <3> QED
      BY <1>1, <2>2, <3>1 DEF WellFormed
  <2> QED
    BY <2>1, <2>2
<1>6. \A i \in DOMAIN longer : longer[i].tag = "done" => i = Len(longer)
  BY <1>1
<1>7. \A i \in 1..n : Fits(B, i)
  BY <1>3 DEF WellFormed, Fits, B
<1>8. \A i \in 1..n : Fits(C, i) <=> Fits(B, i)
  BY <1>3 DEF Fits
<1>9. Fits(C, n + 1) <=> Follows(B, x)
  <2>1. n + 1 > 1 <=> B # <<>>
    BY <1>3, <1>4
  <2>2. B # <<>> => C[n + 1 - 1] = B[Len(B)]
    BY <1>3, <1>4 DEF n
  <2> QED
    BY <1>3, <2>1, <2>2 DEF Fits, Follows
<1>10. WellFormed(longer) <=> \A i \in DOMAIN C : Fits(C, i)
  BY <1>1, <1>5, <1>6 DEF WellFormed, Fits, C
<1>11. (\A i \in DOMAIN C : Fits(C, i)) <=> Fits(C, n + 1)
  BY <1>3, <1>7, <1>8
<1> QED
  BY <1>9, <1>10, <1>11 DEF B, longer

\* One that continues a text needs one to continue.
LEMMA WellFormedContinued ==
    ASSUME NEW lines \in Seq(Line), \A i \in 1..Len(lines) : lines[i].tag # "done",
           WellFormed(lines), NEW x \in Line, x.tag = "continue"
    PROVE  WellFormed(Append(lines, x)) <=> lines # <<>>
<1> DEFINE longer == Append(lines, x)
<1>1. /\ Len(lines) \in Nat /\ DOMAIN longer = 1..Len(lines) + 1
      /\ Len(longer) = Len(lines) + 1 /\ longer # <<>>
      /\ \A i \in 1..Len(lines) : longer[i] = lines[i]
      /\ longer[Len(lines) + 1] = x
  BY AppendProperties, LenProperties
<1>2. Begun(longer) = Begun(lines)
  BY BegunAppend
<1> HIDE DEF longer
<1>3. CASE lines = <<>>
  <2>1. longer[1] = x
    BY <1>1, <1>3
  <2> QED
    BY <1>1, <1>3, <2>1 DEF WellFormed, longer
<1>4. CASE lines # <<>>
  <2>1. longer[1].tag # "continue"
    <3>1. 1 \in 1..Len(lines)
      BY <1>1, <1>4, EmptySeq
    <3> QED
      BY <1>1, <1>4, <3>1 DEF WellFormed
  <2>2. \A i \in DOMAIN longer : longer[i].tag = "done" => i = Len(longer)
    BY <1>1
  <2>3. \A i \in DOMAIN Begun(longer) : Fits(Begun(longer), i)
    BY <1>2 DEF WellFormed, Fits
  <2>4. WellFormed(longer)
    BY <2>1, <2>2, <2>3 DEF WellFormed, Fits
  <2> QED
    BY <1>4, <2>4 DEF longer
<1> QED
  BY <1>3, <1>4

-----------------------------------------------------------------------------
(* What is read while the lines come.                                      *)

\* The field when nothing is pending, by a name (the SMT solver does not take an
\* empty string).
NoField == ""

\* It is neither of the fields.
LEMMA NoFieldIs == NoField # "key" /\ NoField # "value"
BY Zenon DEF NoField

\* A key begins at a line, the pairs before it have been put among the details.
KeyAt(lines, d, pair, p) ==
    /\ lines[p].tag = "key" /\ lines[p].target = pair.target
    /\ Paired(lines, p)
    /\ \A t \in Target : d[t] = MeaningTo(lines, p, t)

\* What the dialog keeps of well-formed lines: details, and the pair it reads.
ReadSo(lines, d, pair, f) ==
    /\ lines \in Seq(Line) /\ WellFormed(lines)
    /\ \A i \in 1..Len(lines) : lines[i].tag # "done"
    /\ f = NoField => lines = <<>> /\ d = Nothing
    /\ f # NoField => /\ Begun(lines) # <<>>
                 /\ Begun(lines)[Len(Begun(lines))].tag = f
    /\ f = "key" =>
        /\ Begun(lines)[Len(Begun(lines))].target = pair.target
        /\ \E p \in 1..Len(lines) :
            KeyAt(lines, d, pair, p) /\ HasText(lines, p, Len(lines), pair.key)
    /\ f = "value" =>
        \E p, v \in 1..Len(lines) :
            /\ p < v /\ KeyAt(lines, d, pair, p) /\ HasText(lines, p, v - 1, pair.key)
            /\ lines[v].tag = "value" /\ HasText(lines, v, Len(lines), pair.value)

\* When something is pending, something was said.
LEMMA PendingSaid ==
    ASSUME NEW lines, NEW d, NEW pair, NEW f \in {"key", "value"},
           ReadSo(lines, d, pair, f)
    PROVE  lines # <<>>
<1>1. Len(<<>>) = 0
  OBVIOUS
<1>2. \E p \in 1..Len(lines) : TRUE
  BY DEF ReadSo
<1> QED
  BY <1>1, <1>2

\* The key that is pending stays where it is as one more line comes.
LEMMA KeyStays ==
    ASSUME NEW lines \in Seq(Line), NEW x \in Line, NEW d, NEW pair, NEW pair2,
           NEW p \in 1..Len(lines), KeyAt(lines, d, pair, p), pair2.target = pair.target
    PROVE  KeyAt(Append(lines, x), d, pair2, p)
<1> DEFINE longer == Append(lines, x)
<1>1. Len(lines) \in Nat /\ \A i \in 1..Len(lines) : longer[i] = lines[i]
  BY AppendProperties, LenProperties
<1>2. \A t \in Target : MeaningTo(longer, p, t) = MeaningTo(lines, p, t)
  BY MeaningKept DEF KeyAt
<1> HIDE DEF longer
<1>3. Paired(longer, p)
  <2> SUFFICES ASSUME NEW i \in 1..p - 1, longer[i].tag = "key"
               PROVE  \E j \in i + 1..p - 1 : longer[j].tag = "value"
    BY DEF Paired
  <2>1. p \in Nat /\ i \in Nat /\ i \in 1..Len(lines)
    BY <1>1
  <2>2. PICK j \in i + 1..p - 1 : lines[j].tag = "value"
    BY <1>1, <2>1 DEF KeyAt, Paired
  <2>3. j \in 1..Len(lines)
    BY <1>1, <2>1
  <2> QED
    BY <1>1, <2>2, <2>3
<1> QED
  BY <1>1, <1>2, <1>3 DEF KeyAt, longer

\* So do the texts before it.
LEMMA TextStays ==
    ASSUME NEW lines \in Seq(Line), NEW x \in Line, NEW i \in 1..Len(lines),
           NEW j \in 1..Len(lines), NEW text, HasText(lines, i, j, text)
    PROVE  HasText(Append(lines, x), i, j, text)
<1> DEFINE longer == Append(lines, x)
<1>1. Len(lines) \in Nat /\ \A k \in 1..Len(lines) : longer[k] = lines[k]
  BY AppendProperties, LenProperties
<1>2. UpTo(longer)[j] = UpTo(lines)[j]
  BY UpToAppend
<1> HIDE DEF longer
<1>3. \A k \in i + 1..j : k \in 1..Len(lines)
  BY <1>1
<1> QED
  BY <1>1, <1>2, <1>3 DEF HasText, longer

\* The text at a line that continues another.
LEMMA TextContinues ==
    ASSUME NEW lines, NEW f, NEW i, i > 1, lines[i].tag = "continue"
    PROVE  TextAt(lines, f, i) = f[i - 1] \o <<"\n">> \o lines[i].text
BY DEF TextAt

\* One more line is part of the last text, when it continues.
LEMMA TextGrows ==
    ASSUME NEW lines \in Seq(Line), NEW x \in Line, x.tag = "continue",
           NEW i \in 1..Len(lines), NEW text, HasText(lines, i, Len(lines), text)
    PROVE  HasText(Append(lines, x), i, Len(lines) + 1, text \o <<"\n">> \o x.text)
<1> DEFINE longer == Append(lines, x)
           n == Len(lines)
<1>1. /\ n \in Nat /\ longer \in Seq(Line) /\ Len(longer) = n + 1
      /\ \A k \in 1..n : longer[k] = lines[k]
      /\ longer[n + 1] = x
  BY AppendProperties, LenProperties
<1>2. n \in 1..n /\ n + 1 > 1 /\ n + 1 - 1 = n /\ i \in Nat
  BY <1>1
<1>3. UpTo(longer)[n] = UpTo(lines)[n]
  BY <1>2, UpToAppend
<1>4. UpTo(longer)[n + 1] = TextAt(longer, UpTo(longer), n + 1)
  <2>1. n + 1 \in 1..Len(longer)
    BY <1>1
  <2> HIDE DEF longer, n
  <2> QED
    BY <1>1, <2>1, UpToStep
<1>5. TextAt(longer, UpTo(longer), n + 1) = UpTo(longer)[n] \o <<"\n">> \o x.text
  <2> DEFINE l == n + 1
             f == UpTo(longer)
  <2>1. l > 1 /\ longer[l].tag = "continue" /\ l - 1 = n /\ longer[l] = x
    BY <1>1, <1>2
  <2> HIDE DEF longer, n, f, l
  <2>2. TextAt(longer, f, l) = f[l - 1] \o <<"\n">> \o longer[l].text
    BY <2>1, TextContinues
  <2>3. TextAt(longer, f, l) = f[n] \o <<"\n">> \o x.text
    BY <2>1, <2>2
  <2> QED
    BY <2>3 DEF f, l
<1>6. UpTo(lines)[n] = text
  BY DEF HasText
<1>7. \A k \in i + 1..n + 1 : longer[k].tag = "continue"
  <2> SUFFICES ASSUME NEW k \in i + 1..n + 1 PROVE longer[k].tag = "continue"
    OBVIOUS
  <2> HIDE DEF longer
  <2>1. CASE k = n + 1
    BY <1>1, <2>1
  <2>2. CASE k # n + 1
    <3>1. k \in i + 1..n /\ k \in 1..n
      BY <1>1, <1>2, <2>2
    <3> QED
      BY <1>1, <3>1 DEF HasText
  <2> QED
    BY <2>1, <2>2
<1>8. UpTo(longer)[n + 1] = text \o <<"\n">> \o x.text
  <2> HIDE DEF longer, n
  <2> QED
    BY <1>3, <1>4, <1>5, <1>6
<1> HIDE DEF longer
<1> QED
  BY <1>7, <1>8 DEF HasText, longer

\* It is the whole of a new text otherwise.
LEMMA TextBegins ==
    ASSUME NEW lines \in Seq(Line), NEW x \in Line, x.tag # "continue"
    PROVE  HasText(Append(lines, x), Len(lines) + 1, Len(lines) + 1, x.text)
<1> DEFINE longer == Append(lines, x)
           n == Len(lines)
<1>1. /\ n \in Nat /\ longer \in Seq(Line) /\ Len(longer) = n + 1
      /\ longer[n + 1] = x
  BY AppendProperties, LenProperties
<1> HIDE DEF longer, n
<1>2. UpTo(longer)[n + 1] = TextAt(longer, UpTo(longer), n + 1)
  <2>1. n + 1 \in 1..Len(longer)
    BY <1>1
  <2> QED
    BY <1>1, <2>1, UpToStep
<1>3. TextAt(longer, UpTo(longer), n + 1) = x.text
  BY <1>1 DEF TextAt
<1>4. \A k \in n + 1 + 1..n + 1 : longer[k].tag = "continue"
  BY <1>1
<1> QED
  BY <1>2, <1>3, <1>4 DEF HasText, longer, n

\* A line that continues is read into the text that is pending.
LEMMA ContinueRead ==
    ASSUME NEW lines, NEW x \in Line, x.tag = "continue",
           NEW d, NEW pair, NEW pair2, NEW f \in {"key", "value"},
           ReadSo(lines, d, pair, f), pair2.target = pair.target,
           f = "key" => pair2.key = pair.key \o <<"\n">> \o x.text,
           f = "value" => /\ pair2.key = pair.key
                          /\ pair2.value = pair.value \o <<"\n">> \o x.text
    PROVE  ReadSo(Append(lines, x), d, pair2, f)
<1> DEFINE longer == Append(lines, x)
           n == Len(lines)
<1>1. lines \in Seq(Line) /\ WellFormed(lines)
      /\ \A i \in 1..n : lines[i].tag # "done"
  BY DEF ReadSo
<1>2. /\ n \in Nat /\ longer \in Seq(Line) /\ Len(longer) = n + 1
      /\ \A i \in 1..n : longer[i] = lines[i]
      /\ longer[n + 1] = x
  BY <1>1, AppendProperties, LenProperties
<1>3. WellFormed(longer) /\ Begun(longer) = Begun(lines)
  BY <1>1, PendingSaid, WellFormedContinued, BegunAppend
<1> HIDE DEF longer
<1>4. \A i \in 1..n + 1 : longer[i].tag # "done"
  BY <1>1, <1>2
<1>5. CASE f = "key"
  <2>1. PICK p \in 1..n : KeyAt(lines, d, pair, p) /\ HasText(lines, p, n, pair.key)
    BY <1>5, NoFieldIs DEF ReadSo
  <2>2. KeyAt(longer, d, pair2, p)
    BY <1>1, <2>1, KeyStays DEF longer
  <2>3. HasText(longer, p, n + 1, pair2.key)
    BY <1>1, <1>5, <2>1, TextGrows DEF longer
  <2>4. /\ Begun(lines)[Len(Begun(lines))].target = pair.target
        /\ Begun(lines) # <<>> /\ Begun(lines)[Len(Begun(lines))].tag = f
    BY <1>5, NoFieldIs DEF ReadSo
  <2>5. p \in 1..Len(longer)
    BY <1>2
  <2> HIDE DEF n
  <2>6. ReadSo(longer, d, pair2, f)
    BY <1>2, <1>3, <1>4, <1>5, <2>2, <2>3, <2>4, <2>5, NoFieldIs DEF ReadSo
  <2> QED
    BY <2>6 DEF longer
<1>6. CASE f = "value"
  <2>1. PICK p, v \in 1..n :
            /\ p < v /\ KeyAt(lines, d, pair, p) /\ HasText(lines, p, v - 1, pair.key)
            /\ lines[v].tag = "value" /\ HasText(lines, v, n, pair.value)
    BY <1>6, NoFieldIs DEF ReadSo
  <2>2. KeyAt(longer, d, pair2, p)
    BY <1>1, <2>1, KeyStays DEF longer
  <2>3. HasText(longer, p, v - 1, pair2.key)
    <3>1. v - 1 \in 1..n
      BY <1>2, <2>1
    <3> QED
      BY <1>1, <1>6, <2>1, <3>1, TextStays DEF longer
  <2>4. HasText(longer, v, n + 1, pair2.value)
    BY <1>1, <1>6, <2>1, TextGrows DEF longer
  <2>5. Begun(lines) # <<>> /\ Begun(lines)[Len(Begun(lines))].tag = f
    BY <1>6, NoFieldIs DEF ReadSo
  <2>6. p \in 1..Len(longer) /\ v \in 1..Len(longer) /\ longer[v].tag = "value" /\ p < v
    BY <1>2, <2>1
  <2> HIDE DEF n
  <2>7. ReadSo(longer, d, pair2, f)
    BY <1>2, <1>3, <1>4, <1>6, <2>2, <2>3, <2>4, <2>5, <2>6, NoFieldIs DEF ReadSo
  <2> QED
    BY <2>7 DEF longer
<1> QED
  BY <1>5, <1>6

\* A line that begins a text is the last that began one.
LEMMA BegunLast ==
    ASSUME NEW lines \in Seq(Line), NEW x \in Line, x.tag # "continue"
    PROVE  /\ Begun(Append(lines, x)) # <<>>
           /\ Begun(Append(lines, x))[Len(Begun(Append(lines, x)))] = x
<1> DEFINE B == Begun(lines)
           C == Begun(Append(lines, x))
<1>1. B \in Seq(Line) /\ C = Append(B, x)
  BY BegunAppend
<1> HIDE DEF B, C
<1>2. C # <<>> /\ C[Len(C)] = x
  BY <1>1, AppendProperties, LenProperties
<1> QED
  BY <1>2 DEF C

\* A value is read for the key that is pending.
LEMMA ValueRead ==
    ASSUME NEW lines, NEW x \in Line, x.tag = "value",
           NEW d, NEW pair, NEW pair2,
           ReadSo(lines, d, pair, "key"), WellFormed(Append(lines, x)),
           pair2.target = pair.target, pair2.key = pair.key, pair2.value = x.text
    PROVE  ReadSo(Append(lines, x), d, pair2, "value")
<1> DEFINE longer == Append(lines, x)
           n == Len(lines)
<1>1. lines \in Seq(Line) /\ \A i \in 1..n : lines[i].tag # "done"
  BY DEF ReadSo
<1>2. /\ n \in Nat /\ longer \in Seq(Line) /\ Len(longer) = n + 1
      /\ \A i \in 1..n : longer[i] = lines[i]
      /\ longer[n + 1] = x
  BY <1>1, AppendProperties, LenProperties
<1>3. Begun(longer) # <<>> /\ Begun(longer)[Len(Begun(longer))].tag = "value"
  BY <1>1, BegunLast
<1>4. PICK p \in 1..n : KeyAt(lines, d, pair, p) /\ HasText(lines, p, n, pair.key)
  BY DEF ReadSo
<1>5. KeyAt(longer, d, pair2, p)
  BY <1>1, <1>4, KeyStays
<1>6. HasText(longer, p, n, pair2.key)
  <2>1. n \in 1..n
    BY <1>2, <1>4
  <2> QED
    BY <1>1, <1>4, <2>1, TextStays
<1>7. HasText(longer, n + 1, n + 1, pair2.value)
  BY <1>1, TextBegins
<1>8. WellFormed(longer)
  OBVIOUS
<1> HIDE DEF longer
<1>9. \A i \in 1..n + 1 : longer[i].tag # "done"
  BY <1>1, <1>2
<1>10. p \in 1..Len(longer) /\ n + 1 \in 1..Len(longer) /\ p < n + 1 /\ n + 1 - 1 = n
  BY <1>2
<1> HIDE DEF n
<1>11. ReadSo(longer, d, pair2, "value")
  BY <1>2, <1>3, <1>5, <1>6, <1>7, <1>8, <1>9, <1>10, NoFieldIs DEF ReadSo
<1> QED
  BY <1>11 DEF longer

\* A pair that is complete is put among the details of its target.
PutInto(d, pair, f, d2) ==
    \A t \in Target :
        d2[t] = IF f = "value" /\ pair.target = t
                THEN Put(d[t], pair.key, pair.value) ELSE d[t]

\* What a new text leaves, once the pair before it has been put among the
\* details, is what the lines before it mean.
LEMMA NewText ==
    ASSUME NEW lines, NEW x \in Line, x.tag # "continue",
           NEW d, NEW pair, NEW f \in {NoField, "value"}, ReadSo(lines, d, pair, f), NEW d2,
           PutInto(d, pair, f, d2)
    PROVE  /\ Paired(Append(lines, x), Len(lines) + 1)
           /\ \A t \in Target :
                d2[t] = MeaningTo(Append(lines, x), Len(lines) + 1, t)
<1> DEFINE longer == Append(lines, x)
           n == Len(lines)
<1>1. lines \in Seq(Line)
  BY DEF ReadSo
<1>2. /\ n \in Nat /\ longer \in Seq(Line) /\ Len(longer) = n + 1
      /\ \A i \in 1..n : longer[i] = lines[i]
      /\ longer[n + 1] = x
  BY <1>1, AppendProperties, LenProperties
<1>3. CASE f = NoField
  <2>1. n = 0 /\ d = Nothing
    BY <1>3 DEF ReadSo
  <2> HIDE DEF longer, n
  <2>2. Paired(longer, n + 1)
    BY <2>1 DEF Paired
  <2>3. ASSUME NEW t \in Target PROVE d2[t] = MeaningTo(longer, n + 1, t)
    <3>1. KeysTo(longer, n + 1, t) = {}
      BY <2>1 DEF KeysTo
    <3>2. KeyTexts(longer, n + 1, t) = {}
      BY <3>1 DEF KeyTexts
    <3>3. MeaningTo(longer, n + 1, t) = << >>
      BY <3>2 DEF MeaningTo
    <3>4. d2[t] = << >>
      BY <1>3, <2>1, NoFieldIs DEF Nothing, Target, PutInto
    <3> QED
      BY <3>3, <3>4
  <2> QED
    BY <2>2, <2>3 DEF longer, n
<1>4. CASE f = "value"
  <2>1. PICK p, v \in 1..n :
            /\ p < v /\ KeyAt(lines, d, pair, p) /\ HasText(lines, p, v - 1, pair.key)
            /\ lines[v].tag = "value" /\ HasText(lines, v, n, pair.value)
    BY <1>4 DEF ReadSo
  <2>2. p \in Nat /\ v \in Nat /\ v - 1 \in 1..n /\ n \in 1..n
        /\ n + 1 \in 1..Len(longer) /\ p \in 1..n + 1 - 1 /\ v \in p + 1..n + 1 - 1
        /\ n + 1 - 1 = n
    BY <1>2, <2>1
  <2>3. KeyAt(longer, d, pair, p)
    BY <1>1, <2>1, KeyStays
  <2>4. HasText(longer, p, v - 1, pair.key) /\ HasText(longer, v, n, pair.value)
    BY <1>1, <2>1, <2>2, TextStays
  <2> HIDE DEF longer
  <2>5. longer[v].tag = "value" /\ longer[n + 1].tag # "continue"
    BY <1>2, <2>1
  <2>6. /\ longer[p].tag = "key" /\ longer[p].target = pair.target /\ Paired(longer, p)
        /\ \A t \in Target : d[t] = MeaningTo(longer, p, t)
    BY <2>3 DEF KeyAt
  <2> HIDE DEF n
  <2>7. ASSUME NEW t
        PROVE  /\ MeaningTo(longer, n + 1, t)
                    = WithPair(longer, p, t, pair.key, pair.value)
               /\ Paired(longer, n + 1)
    <3>1. PairAt(longer, p, v, n + 1, pair.key, pair.value)
      BY <1>2, <2>2, <2>4, <2>5, <2>6 DEF PairAt
    <3> QED
      BY <3>1, MeaningGrows
  <2>8. ASSUME NEW t \in Target PROVE d2[t] = MeaningTo(longer, n + 1, t)
    BY <1>4, <2>6, <2>7 DEF PutInto, WithPair
  <2> QED
    BY <2>7, <2>8 DEF longer, n
<1> QED
  BY <1>3, <1>4

\* A key is read after a complete pair, or at the start.
LEMMA KeyRead ==
    ASSUME NEW lines, NEW x \in Line, x.tag = "key",
           NEW d, NEW pair, NEW f \in {NoField, "value"}, ReadSo(lines, d, pair, f),
           WellFormed(Append(lines, x)), NEW d2,
           PutInto(d, pair, f, d2),
           NEW pair2, pair2.target = x.target, pair2.key = x.text
    PROVE  ReadSo(Append(lines, x), d2, pair2, "key")
<1> DEFINE longer == Append(lines, x)
           n == Len(lines)
<1>1. lines \in Seq(Line) /\ \A i \in 1..n : lines[i].tag # "done"
  BY DEF ReadSo
<1>2. /\ n \in Nat /\ longer \in Seq(Line) /\ Len(longer) = n + 1
      /\ \A i \in 1..n : longer[i] = lines[i]
      /\ longer[n + 1] = x
  BY <1>1, AppendProperties, LenProperties
<1>3. Begun(longer) # <<>> /\ Begun(longer)[Len(Begun(longer))] = x
  BY <1>1, BegunLast
<1>4. Paired(longer, n + 1) /\ \A t \in Target : d2[t] = MeaningTo(longer, n + 1, t)
  BY NewText
<1>5. HasText(longer, n + 1, n + 1, pair2.key)
  BY <1>1, TextBegins
<1>6. WellFormed(longer)
  OBVIOUS
<1> HIDE DEF longer
<1>7. \A i \in 1..n + 1 : longer[i].tag # "done"
  BY <1>1, <1>2
<1> HIDE DEF n
<1>8. KeyAt(longer, d2, pair2, n + 1) /\ n + 1 \in 1..Len(longer)
  BY <1>2, <1>4 DEF KeyAt
<1>9. ReadSo(longer, d2, pair2, "key")
  BY <1>2, <1>3, <1>5, <1>6, <1>7, <1>8, NoFieldIs DEF ReadSo
<1> QED
  BY <1>9 DEF longer

\* What Flushed does is to put a complete pair among the details.
LEMMA FlushedPuts ==
    ASSUME Typed
    PROVE  /\ PutInto(details, pending, field, Flushed)
           /\ field = "value" => Flushed # Nothing
<1>1. CASE field # "value"
  BY <1>1 DEF Flushed, PutInto
<1>2. CASE field = "value"
  <2>1. pending.target \in Target /\ details = [t \in Target |-> details[t]]
    BY <1>2 DEF Typed
  <2> DEFINE new == Put(details[pending.target], pending.key, pending.value)
  <2>2. Flushed = [details EXCEPT ![pending.target] = new]
    BY <1>2 DEF Flushed
  <2>3. pending.key \in DOMAIN new
    BY DEF Put
  <2> HIDE DEF new
  <2>4. \A t \in Target : Flushed[t] = IF t = pending.target THEN new ELSE details[t]
    BY <2>1, <2>2
  <2>5. PutInto(details, pending, field, Flushed)
    BY <1>2, <2>4 DEF PutInto, new
  <2>6. Flushed # Nothing
    <3>1. Nothing[pending.target] = << >> /\ DOMAIN << >> = {}
      BY <2>1 DEF Nothing, Target
    <3>2. Flushed[pending.target] # << >>
      BY <2>1, <2>3, <2>4, <3>1
    <3> QED
      BY <3>1, <3>2
  <2> QED
    BY <2>5, <2>6
<1> QED
  BY <1>1, <1>2

\* The kinds of lines.
LEMMA LineKinds ==
    ASSUME NEW x \in Line
    PROVE  /\ x.tag \in {"blank", "unknown", "continue", "key", "value", "done"}
           /\ x.tag = "done" => x = Done
BY LinesAssumption DEF Line, Done

\* Nothing begins a text where nothing was said.
LEMMA BegunOfNone == Begun(<<>>) = <<>>
BY KeptOfNone DEF Begun

\* A line is accepted exactly when it leaves the lines well formed.
LEMMA AcceptsWellFormed ==
    ASSUME Typed, NEW x \in Line, x.tag # "blank",
           ReadSo(Said, details, pending, field)
    PROVE  Accepts(x) <=> WellFormed(Append(Said, x))
<1> DEFINE B == Begun(Said)
<1>1. /\ Said \in Seq(Line) /\ WellFormed(Said)
      /\ \A i \in 1..Len(Said) : Said[i].tag # "done"
  BY DEF ReadSo
<1>2. field \in {NoField, "key", "value"}
  BY Zenon DEF Typed, NoField
<1>3. x.tag \in {"unknown", "continue", "key", "value", "done"}
  BY LineKinds
<1>4. field = NoField => Said = <<>> /\ details = Nothing /\ B = <<>>
  BY BegunOfNone DEF ReadSo
<1>5. field # NoField => Said # <<>> /\ B # <<>> /\ B[Len(B)].tag = field
  BY <1>2, PendingSaid DEF ReadSo
<1>6. field = "key" => B[Len(B)].target = pending.target
  BY DEF ReadSo
<1>7. Flushed # Nothing <=> field = "value" \/ (field # "value" /\ details # Nothing)
  BY FlushedPuts DEF Flushed
<1>8. Accepts(x) <=>
          \/ x.tag = "done" /\ field # "key" /\ Flushed # Nothing
          \/ x.tag = "continue" /\ field # NoField
          \/ x.tag = "key" /\ field # "key"
          \/ x.tag = "value" /\ field = "key" /\ x.target = pending.target
  BY Zenon DEF Accepts, NoField
<1> HIDE DEF B
<1>9. CASE x.tag = "continue"
  <2>1. WellFormed(Append(Said, x)) <=> Said # <<>>
    BY <1>1, <1>9, WellFormedContinued
  <2>2. Accepts(x) <=> field # NoField
    BY <1>8, <1>9
  <2> QED
    BY <1>4, <1>5, <2>1, <2>2
<1>10. CASE x.tag # "continue"
  <2>1. WellFormed(Append(Said, x)) <=> Follows(B, x)
    BY <1>1, <1>10, WellFormedStep DEF B
  <2>2. CASE field = NoField
    <3>1. Follows(B, x) <=> x.tag = "key"
      BY <1>3, <1>4, <2>2 DEF Follows
    <3>2. Accepts(x) <=> x.tag = "key"
      BY <1>4, <1>7, <1>8, <1>10, <2>2, NoFieldIs
    <3> QED
      BY <2>1, <3>1, <3>2
  <2>3. CASE field = "key"
    <3>1. Follows(B, x) <=> x.tag = "value" /\ x.target = pending.target
      BY <1>5, <1>6, <2>3, NoFieldIs DEF Follows
    <3>2. Accepts(x) <=> x.tag = "value" /\ x.target = pending.target
      BY <1>8, <1>10, <2>3
    <3> QED
      BY <2>1, <3>1, <3>2
  <2>4. CASE field = "value"
    <3>1. Follows(B, x) <=> x.tag \in {"key", "done"}
      BY <1>5, <2>4, NoFieldIs DEF Follows
    <3>2. Accepts(x) <=> x.tag \in {"key", "done"}
      BY <1>7, <1>8, <1>10, <2>4
    <3> QED
      BY <2>1, <3>1, <3>2
  <2> QED
    BY <1>2, <2>2, <2>3, <2>4
<1> QED
  BY <1>9, <1>10

\* When the input is done, the details are what its lines mean.
LEMMA DoneMeans ==
    ASSUME NEW lines \in Seq(Line), NEW t
    PROVE  Meaning(Append(lines, Done), t)
             = MeaningTo(Append(lines, Done), Len(lines) + 1, t)
<1> DEFINE longer == Append(lines, Done)
           n == Len(lines)
           Keys == {i \in DOMAIN longer :
                        longer[i].tag = "key" /\ longer[i].target = t}
<1>0. Done \in Line
  BY DEF Line
<1>1. n \in Nat /\ DOMAIN longer = 1..n + 1 /\ longer[n + 1] = Done
  BY <1>0, AppendProperties, LenProperties
<1>2. Done.tag # "key"
  BY DEF Done
<1>3. Meaning(longer, t) =
        [k \in {Joined(longer, i) : i \in Keys} |->
            Joined(longer, ValueAfter(longer, Max({i \in Keys : Joined(longer, i) = k})))]
  BY Zenon DEF Meaning, ValueAfter
<1> HIDE DEF longer, n
<1>4. Keys = KeysTo(longer, n + 1, t)
  BY <1>1, <1>2 DEF KeysTo
<1> HIDE DEF Keys
<1>5. Meaning(longer, t) = MeaningTo(longer, n + 1, t)
  BY <1>3, <1>4, Zenon DEF MeaningTo, KeyTexts, SameKey, ValueUnder
<1> QED
  BY <1>5 DEF longer, n

\* What is read, and what it says, as long as the dialog reads.
Reading == status = "reading" => ReadSo(Said, details, pending, field)

\* At the start nothing is said.
LEMMA InitReads == Init => Reading /\ ReadsProtocol
<1> SUFFICES ASSUME Init PROVE Reading /\ ReadsProtocol
  OBVIOUS
<1>1. read = <<>> /\ status = "reading" /\ details = Nothing
  BY DEF Init
<1>2. field = NoField
  BY Zenon DEF Init, NoField
<1>3. Said = <<>>
  BY <1>1, KeptOfNone DEF Said
<1>4. /\ <<>> \in Seq(Line) /\ Len(<<>>) = 0 /\ DOMAIN <<>> = {}
  BY EmptySeq
<1>5. WellFormed(<<>>)
  BY <1>4, BegunOfNone DEF WellFormed
<1>6. ReadSo(Said, details, pending, field)
  BY <1>1, <1>2, <1>3, <1>4, <1>5, NoFieldIs DEF ReadSo
<1>7. ReadsProtocol
  BY <1>1, <1>3, <1>5 DEF ReadsProtocol
<1> QED
  BY <1>6, <1>7 DEF Reading

\* A line that is accepted, and not the last, is read into what is pending.
LEMMA TakeReads ==
    ASSUME Typed, NEW x \in Line, x.tag \in {"continue", "key", "value"},
           ReadSo(Said, details, pending, field), Accepts(x), Take(x),
           WellFormed(Append(Said, x))
    PROVE  ReadSo(Append(Said, x), details', pending', field')
<1>1. field \in {NoField, "key", "value"}
  BY Zenon DEF Typed, NoField
<1>2. CASE x.tag = "continue"
  <2>1. /\ pending' = [pending EXCEPT ![field] = @ \o <<"\n">> \o x.text]
        /\ details' = details /\ field' = field
    BY <1>2 DEF Take
  <2>2. field \in {"key", "value"}
    BY <1>1, <1>2, Zenon DEF Accepts, NoField
  <2>3. pending \in [target : Target, key : Text, value : Text]
    BY <2>2, Zenon DEF Typed
  <2> DEFINE joined == pending[field] \o <<"\n">> \o x.text
  <2>4. pending' = [pending EXCEPT ![field] = joined]
    BY <2>1
  <2> HIDE DEF joined
  <2>5. /\ pending'.target = pending.target
        /\ field = "key" => pending'.key = joined
        /\ field = "value" => pending'.key = pending.key /\ pending'.value = joined
    BY <2>2, <2>3, <2>4
  <2>6. /\ field = "key" => joined = pending.key \o <<"\n">> \o x.text
        /\ field = "value" => joined = pending.value \o <<"\n">> \o x.text
    BY DEF joined
  <2>7. /\ field = "key" => pending'.key = pending.key \o <<"\n">> \o x.text
        /\ field = "value" => /\ pending'.key = pending.key
                              /\ pending'.value = pending.value \o <<"\n">> \o x.text
    BY <2>5, <2>6
  <2>8. ReadSo(Append(Said, x), details, pending', field)
    BY <1>2, <2>2, <2>5, <2>7, ContinueRead
  <2> QED
    BY <2>1, <2>8
<1>3. CASE x.tag = "value"
  <2>1. field = "key" /\ field' = "value" /\ details' = details
        /\ pending' = [pending EXCEPT !.value = x.text]
    BY <1>3 DEF Accepts, Take
  <2>2. pending \in [target : Target, key : Text, value : Text]
    BY <2>1 DEF Typed
  <2>3. /\ pending'.target = pending.target /\ pending'.key = pending.key
        /\ pending'.value = x.text
    BY <2>1, <2>2
  <2> QED
    BY <1>3, <2>1, <2>3, ValueRead
<1>4. CASE x.tag = "key"
  <2>1. field # "key" /\ field' = "key" /\ details' = Flushed
        /\ pending'.target = x.target /\ pending'.key = x.text
    BY <1>4 DEF Accepts, Take
  <2>2. field \in {NoField, "value"}
    BY <1>1, <2>1
  <2>3. PutInto(details, pending, field, Flushed)
    BY FlushedPuts
  <2> QED
    BY <1>4, <2>1, <2>2, <2>3, KeyRead
<1> QED
  BY <1>2, <1>3, <1>4

\* The last line leaves the details that the lines mean.
LEMMA DoneReads ==
    ASSUME Typed, ReadSo(Said, details, pending, field), Accepts(Done), Take(Done)
    PROVE  details' = [data |-> Meaning(Append(Said, Done), "data"),
                       secrets |-> Meaning(Append(Said, Done), "secrets")]
<1>1. Said \in Seq(Line) /\ Done \in Line /\ Done.tag = "done" /\ Done.tag # "continue"
  BY DEF ReadSo, Line, Done
<1>2. field # "key" /\ details' = Flushed
  BY <1>1 DEF Accepts, Take
<1>3. field \in {NoField, "value"}
  BY <1>2, Zenon DEF Typed, NoField
<1>4. \A t \in Target : Flushed[t] = MeaningTo(Append(Said, Done), Len(Said) + 1, t)
  BY <1>1, <1>3, FlushedPuts, NewText
<1>5. \A t \in Target : Flushed[t] = Meaning(Append(Said, Done), t)
  BY <1>1, <1>4, DoneMeans
<1>6. Flushed = [t \in Target |-> Flushed[t]]
  BY FlushedTyped
<1> QED
  BY <1>2, <1>5, <1>6 DEF Target

\* Every line that is read keeps to the protocol, or shows that it was broken.
LEMMA ConsumeReads ==
    ASSUME Typed, Reading, ReadsProtocol, NEW x \in Line, Consume(x)
    PROVE  Reading' /\ ReadsProtocol'
<1>1. /\ status = "reading" /\ read \in Seq(Line) /\ read' = Append(read, x)
      /\ IF Accepts(x) THEN Take(x) ELSE GiveUp("error")
  BY DEF Consume, Typed, Line
<1>2. ReadSo(Said, details, pending, field)
  BY <1>1 DEF Reading
<1>3. Said \in Seq(Line) /\ WellFormed(Said)
  BY <1>2 DEF ReadSo
<1>4. CASE x.tag = "blank"
  <2>1. Said' = Said
    BY <1>1, <1>4, SaidAppend
  <2>2. Accepts(x)
    BY <1>4, Zenon DEF Accepts
  <2>3. UNCHANGED <<status, details, pending, field>>
    BY <1>1, <1>4, <2>2 DEF Take
  <2>4. ReadSo(Said', details', pending', field')
    BY <1>2, <2>1, <2>3
  <2> QED
    BY <1>1, <1>3, <2>1, <2>3, <2>4 DEF Reading, ReadsProtocol
<1>5. CASE x.tag # "blank" /\ ~Accepts(x)
  <2>1. Said' = Append(Said, x) /\ status' = "error"
    BY <1>1, <1>5, SaidAppend DEF GiveUp
  <2>2. ~WellFormed(Append(Said, x))
    BY <1>2, <1>5, AcceptsWellFormed
  <2>3. WellFormed(Said)' <=> WellFormed(Append(Said, x))
    BY <2>1
  <2> QED
    BY <2>1, <2>2, <2>3 DEF Reading, ReadsProtocol
<1>6. CASE x.tag # "blank" /\ Accepts(x)
  <2>1. Said' = Append(Said, x) /\ Take(x)
    BY <1>1, <1>6, SaidAppend
  <2>2. WellFormed(Append(Said, x))
    BY <1>2, <1>6, AcceptsWellFormed
  <2>3. CASE x.tag = "done"
    <3>1. x = Done
      BY <2>3, LineKinds
    <3>2. status' = "done"
      BY <2>1, <2>3 DEF Take
    <3>3. details' = [data |-> Meaning(Append(Said, Done), "data"),
                      secrets |-> Meaning(Append(Said, Done), "secrets")]
      BY <1>2, <1>6, <2>1, <3>1, DoneReads
    <3>4. Append(Said, Done)[Len(Append(Said, Done))] = Done
      BY <1>3, <3>1, AppendProperties
    <3>5. /\ Said'[Len(Said')] = Done /\ WellFormed(Said')
          /\ details' = [data |-> Meaning(Said', "data"), secrets |-> Meaning(Said', "secrets")]
      BY <2>1, <2>2, <3>1, <3>3, <3>4
    <3> QED
      BY <3>2, <3>5 DEF Reading, ReadsProtocol
  <2>4. CASE x.tag # "done"
    <3>1. x.tag \in {"continue", "key", "value"}
      BY <1>6, <2>4, LineKinds, Zenon DEF Accepts
    <3>2. ReadSo(Append(Said, x), details', pending', field')
      BY <1>2, <1>6, <2>1, <2>2, <3>1, TakeReads
    <3>3. status' = "reading"
      BY <1>1, <2>1, <3>1 DEF Take
    <3>4. ReadSo(Said', details', pending', field') /\ WellFormed(Said')
      BY <2>1, <2>2, <3>2
    <3> QED
      BY <3>3, <3>4 DEF Reading, ReadsProtocol
  <2> QED
    BY <2>3, <2>4
<1> QED
  BY <1>4, <1>5, <1>6

(* However many lines come, and whatever is in them: the dialog accepts    *)
(* exactly the inputs of the protocol, and its details are what the lines  *)
(* mean, every pair under its key and among its kind (consume, flush).     *)
THEOREM ReadsProtocolCorrect == Spec => []ReadsProtocol
<1>1. Typed /\ Reading /\ ReadsProtocol /\ [Next]_vars => Reading' /\ ReadsProtocol'
  <2> SUFFICES ASSUME Typed, Reading, ReadsProtocol, [Next]_vars
               PROVE  Reading' /\ ReadsProtocol'
    OBVIOUS
  <2>1. CASE EndOfInput
    BY <2>1 DEF EndOfInput, GiveUp, Reading, ReadsProtocol
  <2>2. ASSUME NEW o \in Options, WriteResponse(o)
        PROVE  Reading' /\ ReadsProtocol'
    <3>1. /\ status = "done" /\ status' = "answered"
          /\ read' = read /\ details' = details
      BY <2>2 DEF WriteResponse
    <3>2. Said' = Said
      BY <3>1 DEF Said
    <3> QED
      BY <3>1, <3>2 DEF Reading, ReadsProtocol
  <2>3. CASE UNCHANGED vars
    <3>1. UNCHANGED <<read, status, details, pending, field>>
      BY <2>3 DEF vars
    <3>2. Said' = Said
      BY <3>1 DEF Said
    <3> QED
      BY <3>1, <3>2 DEF Reading, ReadsProtocol
  <2> QED
    BY <2>1, <2>2, <2>3, ConsumeReads DEF Next, Line
<1> QED
  BY InitTyped, NextTyped, InitReads, <1>1, PTL DEF Spec

=============================================================================
