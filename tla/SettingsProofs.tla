--------------------------- MODULE SettingsProofs ---------------------------
(***************************************************************************)
(* What the service and the auth dialog read in the same texts, each in    *)
(* its own way: lemmas for the proofs about the dialog and the editor.     *)
(***************************************************************************)
EXTENDS DialogSettings, SequenceTheorems, WellFoundedInduction, TLAPS

\* The first of some positions is one of them, and there is none before it.
LEMMA MinIsFirst ==
    ASSUME NEW S \in SUBSET Nat, S # {}
    PROVE  Min(S) \in S /\ \A i \in S : Min(S) <= i
<1> DEFINE Less == {ss \in Nat \X Nat : ss[1] < ss[2]}
<1>1. IsWellFoundedOn(Less, Nat)
  BY NatLessThanWellFounded, Zenon DEF OpToRel
<1>2. PICK x \in S : \A y \in S : <<y, x>> \notin Less
  BY <1>1, WFMin
<1>3. ASSUME NEW y \in S PROVE x <= y
  <2>1. <<y, x>> \in Nat \X Nat /\ <<y, x>>[1] = y /\ <<y, x>>[2] = x
    OBVIOUS
  <2>2. y < x => <<y, x>> \in Less
    BY <2>1
  <2> QED
    BY <1>2, <2>2
<1> QED
  BY <1>3 DEF Min

-----------------------------------------------------------------------------
(* Names without marks.                                                    *)

\* How what is kept of a sequence grows, as the function that defines Kept.
Growth(s, positions, m, kept) ==
    kept = [n \in 0..m |->
               IF n = 0 THEN <<>>
               ELSE IF n \in positions THEN Append(kept[n - 1], s[n]) ELSE kept[n - 1]]

\* There is such a function: it can be built one element after the other.
LEMMA GrowthExists ==
    ASSUME NEW s, NEW positions, NEW m \in Nat
    PROVE  \E kept : Growth(s, positions, m, kept)
<1> DEFINE none == {l \in Nat : ~ \E kept : Growth(s, positions, l, kept)}
<1>1. none = {}
  <2> SUFFICES ASSUME none # {} PROVE FALSE
    OBVIOUS
  <2> DEFINE least == Min(none)
  <2>1. least \in none /\ \A l \in none : least <= l
    BY MinIsFirst
  <2> HIDE DEF least
  <2>2. least # 0
    <3>1. Growth(s, positions, 0, [n \in 0..0 |-> <<>>])
      BY DEF Growth
    <3> QED
      BY <2>1, <3>1
  <2>3. least \in Nat /\ least - 1 \in Nat /\ least - 1 \notin none
    BY <2>1, <2>2
  <2>4. PICK kept : Growth(s, positions, least - 1, kept)
    BY <2>3
  <2> DEFINE last == IF least \in positions THEN Append(kept[least - 1], s[least])
                     ELSE kept[least - 1]
             longer == [n \in 0..least |-> IF n = least THEN last ELSE kept[n]]
  <2> HIDE DEF none
  <2>5. ASSUME NEW n \in 0..least
        PROVE  longer[n] =
                 IF n = 0 THEN <<>>
                 ELSE IF n \in positions THEN Append(longer[n - 1], s[n]) ELSE longer[n - 1]
    <3>1. CASE n = least
      <4>1. longer[n - 1] = kept[n - 1]
        BY <2>2, <2>3, <3>1
      <4> QED
        BY <2>2, <3>1, <4>1
    <3>2. CASE n # least
      <4>1. n \in 0..least - 1 /\ longer[n] = kept[n]
            /\ (n # 0 => longer[n - 1] = kept[n - 1])
        BY <2>3, <3>2
      <4>2. kept[n] = IF n = 0 THEN <<>>
                      ELSE IF n \in positions THEN Append(kept[n - 1], s[n])
                      ELSE kept[n - 1]
        BY <2>4, <4>1 DEF Growth
      <4> QED
        BY <4>1, <4>2
    <3> QED
      BY <3>1, <3>2
  <2>6. Growth(s, positions, least, longer)
    BY <2>5 DEF Growth
  <2> QED
    BY <2>1, <2>6 DEF none
<1> QED
  BY <1>1

\* What is kept is the last value of such a function.
LEMMA KeptGrows ==
    ASSUME NEW s, NEW positions, Len(s) \in Nat
    PROVE  \E kept : Growth(s, positions, Len(s), kept) /\ Kept(s, positions) = kept[Len(s)]
<1>1. PICK kept : Growth(s, positions, Len(s), kept)
  BY GrowthExists
<1> QED
  BY <1>1 DEF Kept, Growth

\* Its value at a position.
Grown(s, positions, kept, n) ==
    IF n \in positions THEN Append(kept[n - 1], s[n]) ELSE kept[n - 1]

\* Such a function, element by element.
LEMMA GrowthStep ==
    ASSUME NEW s, NEW P, NEW m \in Nat, NEW f, Growth(s, P, m, f)
    PROVE  f[0] = <<>> /\ \A n \in 1..m : f[n] = Grown(s, P, f, n)
<1>1. f[0] = <<>>
  BY DEF Growth
<1>2. ASSUME NEW n \in 1..m PROVE f[n] = Grown(s, P, f, n)
  <2>1. n \in 0..m /\ n # 0
    OBVIOUS
  <2>2. f[n] = IF n = 0 THEN <<>>
               ELSE IF n \in P THEN Append(f[n - 1], s[n]) ELSE f[n - 1]
    BY <2>1 DEF Growth
  <2> QED
    BY <2>1, <2>2 DEF Grown
<1> QED
  BY <1>1, <1>2

\* Two such functions agree as far as the sequences and the positions do.
LEMMA GrowthAgrees ==
    ASSUME NEW s, NEW t, NEW P, NEW Q, NEW m \in Nat, NEW n \in Nat, m <= n,
           NEW f, NEW g, Growth(s, P, m, f), Growth(t, Q, n, g),
           \A i \in 1..m : s[i] = t[i] /\ (i \in P <=> i \in Q)
    PROVE  \A i \in 0..m : f[i] = g[i]
<1> DEFINE apart == {i \in 0..m : f[i] # g[i]}
<1> SUFFICES ASSUME apart # {} PROVE FALSE
  OBVIOUS
<1>1. Min(apart) \in apart /\ \A i \in apart : Min(apart) <= i
  BY MinIsFirst
<1> DEFINE l == Min(apart)
<1>2. l \in 0..m /\ f[l] # g[l] /\ \A i \in 0..m : i < l => f[i] = g[i]
  BY <1>1
<1> HIDE DEF apart, l
<1>3. f[0] = <<>> /\ g[0] = <<>>
  BY GrowthStep
<1>4. l \in 1..m /\ l \in 1..n /\ f[l - 1] = g[l - 1]
  BY <1>2, <1>3
<1>5. f[l] = Grown(s, P, f, l)
  BY <1>4, GrowthStep
<1>6. g[l] = Grown(t, Q, g, l)
  BY <1>4, GrowthStep
<1>7. s[l] = t[l] /\ (l \in P <=> l \in Q)
  BY <1>4
<1>8. CASE l \in P
  BY <1>2, <1>4, <1>5, <1>6, <1>7, <1>8 DEF Grown
<1>9. CASE l \notin P
  BY <1>2, <1>4, <1>5, <1>6, <1>7, <1>9 DEF Grown
<1> QED
  BY <1>8, <1>9

\* What is kept of a longer sequence.
LEMMA KeptAppend ==
    ASSUME NEW S, NEW s \in Seq(S), NEW x \in S, NEW P, NEW Q,
           \A i \in 1..Len(s) : i \in P <=> i \in Q
    PROVE  /\ Len(s) + 1 \in Q => Kept(Append(s, x), Q) = Append(Kept(s, P), x)
           /\ Len(s) + 1 \notin Q => Kept(Append(s, x), Q) = Kept(s, P)
<1> DEFINE t == Append(s, x)
           m == Len(s)
<1>1. /\ m \in Nat /\ Len(t) = m + 1 /\ t[m + 1] = x
      /\ \A i \in 1..m : t[i] = s[i]
  BY AppendProperties, LenProperties
<1>2. PICK f : Growth(s, P, m, f) /\ Kept(s, P) = f[m]
  BY <1>1, KeptGrows
<1>3. PICK g : Growth(t, Q, m + 1, g) /\ Kept(t, Q) = g[m + 1]
  <2>1. Len(t) \in Nat
    BY <1>1
  <2> HIDE DEF t
  <2> QED
    BY <1>1, <2>1, KeptGrows
<1>4. f[m] = g[m]
  <2>1. m \in 0..m /\ m <= m + 1 /\ m + 1 \in Nat
    BY <1>1
  <2>2. \A i \in 1..m : s[i] = t[i] /\ (i \in P <=> i \in Q)
    BY <1>1
  <2> HIDE DEF t, m
  <2> QED
    BY <1>1, <1>2, <1>3, <2>1, <2>2, GrowthAgrees
<1>5. m + 1 \in 1..m + 1 /\ m + 1 \in Nat /\ m + 1 - 1 = m
  BY <1>1
<1>6. g[m + 1] = Grown(t, Q, g, m + 1)
  <2> HIDE DEF t, m
  <2> QED
    BY <1>3, <1>5, GrowthStep
<1> QED
  BY <1>1, <1>2, <1>3, <1>4, <1>5, <1>6 DEF Grown

\* It is a sequence of the same elements.
LEMMA KeptTyped ==
    ASSUME NEW S, NEW s \in Seq(S), NEW P
    PROVE  Kept(s, P) \in Seq(S)
<1> DEFINE m == Len(s)
<1>1. m \in Nat /\ \A i \in 1..m : s[i] \in S
  BY LenProperties, ElementOfSeq
<1>2. PICK f : Growth(s, P, m, f) /\ Kept(s, P) = f[m]
  BY <1>1, KeptGrows
<1> HIDE DEF m
<1> DEFINE other == {i \in 0..m : f[i] \notin Seq(S)}
<1>3. ASSUME other # {} PROVE FALSE
  <2> DEFINE l == Min(other)
  <2>1. other \in SUBSET Nat
    BY <1>1
  <2>2. l \in other /\ \A i \in other : l <= i
    <3> HIDE DEF other
    <3> QED
      BY <1>3, <2>1, MinIsFirst
  <2>3. l \in 0..m /\ f[l] \notin Seq(S)
    BY <2>2
  <2>8. \A i \in 0..m : i < l => f[i] \in Seq(S)
    <3> HIDE DEF l
    <3> QED
      BY <1>1, <2>2, <2>3
  <2> HIDE DEF other, l
  <2>4. f[0] = <<>> /\ <<>> \in Seq(S)
    BY <1>1, <1>2, EmptySeq, GrowthStep
  <2>5. l \in 1..m /\ f[l - 1] \in Seq(S)
    <3>1. l # 0
      BY <2>3, <2>4
    <3>2. l \in 1..m /\ l - 1 \in 0..m /\ l - 1 < l
      BY <1>1, <2>3, <3>1
    <3> QED
      BY <2>8, <3>2
  <2>6. f[l] = Grown(s, P, f, l)
    BY <1>1, <1>2, <2>5, GrowthStep
  <2>7. s[l] \in S
    BY <1>1, <2>5
  <2> QED
    BY <2>3, <2>5, <2>6, <2>7, AppendProperties DEF Grown
<1>4. m \in 0..m
  BY <1>1
<1> QED
  BY <1>1, <1>2, <1>3, <1>4

\* Of nothing nothing is kept.
LEMMA KeptOfNone ==
    ASSUME NEW P
    PROVE  Kept(<<>>, P) = <<>>
<1>1. Len(<<>>) = 0
  OBVIOUS
<1>2. PICK f : Growth(<<>>, P, 0, f) /\ Kept(<<>>, P) = f[0]
  BY <1>1, KeptGrows
<1> QED
  BY <1>2 DEF Growth

\* A name is read word by word.
Read(text, len, kept) ==
    /\ kept[0] = <<>> /\ NormalKey(text) = kept[len]
    /\ \A n \in 1..len : text[n] \in Mark => kept[n] = kept[n - 1]
    /\ \A n \in 1..len : text[n] \notin Mark => kept[n] = Append(kept[n - 1], text[n])

\* A name without its marks is what such a reading ends with.
LEMMA NormalKeyRead ==
    ASSUME NEW text, NEW len \in Nat, DOMAIN text = 1..len, Len(text) = len
    PROVE  \E kept : Read(text, len, kept)
<1> DEFINE ink == {i \in DOMAIN text : text[i] \notin Mark}
<1>1. PICK kept : Growth(text, ink, len, kept) /\ Kept(text, ink) = kept[len]
  <2> HIDE DEF ink
  <2> QED
    BY KeptGrows
<1>2. \A n \in 1..len : n \in ink <=> text[n] \notin Mark
  OBVIOUS
<1>3. NormalKey(text) = kept[len]
  BY <1>1 DEF NormalKey
<1> HIDE DEF ink
<1>4. ASSUME NEW n \in 0..len
      PROVE  kept[n] = IF n = 0 THEN <<>>
                       ELSE IF n \in ink THEN Append(kept[n - 1], text[n])
                       ELSE kept[n - 1]
  <2>1. Growth(text, ink, len, kept)
    BY <1>1
  <2> QED
    BY <2>1 DEF Growth
<1>5. kept[0] = <<>>
  BY <1>4
<1>6. ASSUME NEW n \in 1..len
      PROVE  kept[n] = IF text[n] \in Mark THEN kept[n - 1]
                       ELSE Append(kept[n - 1], text[n])
  BY <1>2, <1>4
<1> QED
  BY <1>3, <1>5, <1>6 DEF Read

\* Short sequences, one element longer.
LEMMA AppendToNone ==
    ASSUME NEW a
    PROVE  Append(<<>>, a) = <<a>>
OBVIOUS

\* A word after one word.
LEMMA AppendToOne ==
    ASSUME NEW a, NEW b
    PROVE  Append(<<a>>, b) = <<a, b>>
<1> DEFINE S == {a, b}
           s == Append(<<a>>, b)
           t == <<a, b>>
<1>1. s \in Seq(S) /\ Len(s) = 2 /\ s[1] = a /\ s[2] = b
  BY AppendProperties
<1>2. t \in Seq(S) /\ Len(t) = 2 /\ t[1] = a /\ t[2] = b
  OBVIOUS
<1> HIDE DEF S, s, t
<1>3. s = t
  BY <1>1, <1>2, SeqEqual
<1> QED
  BY <1>3 DEF s, t

\* A word after two words.
LEMMA AppendToTwo ==
    ASSUME NEW a, NEW b, NEW c
    PROVE  Append(<<a, b>>, c) = <<a, b, c>>
<1> DEFINE S == {a, b, c}
           s == Append(<<a, b>>, c)
           t == <<a, b, c>>
<1>1. s \in Seq(S) /\ Len(s) = 3 /\ s[1] = a /\ s[2] = b /\ s[3] = c
  BY AppendProperties
<1>2. t \in Seq(S) /\ Len(t) = 3 /\ t[1] = a /\ t[2] = b /\ t[3] = c
  OBVIOUS
<1> HIDE DEF S, s, t
<1>3. s = t
  BY <1>1, <1>2, SeqEqual
<1> QED
  BY <1>3 DEF s, t

\* Spellings of a name: its words, with a mark between some of them.
LEMMA NormalWord ==
    ASSUME NEW a,
           a \notin Mark
    PROVE  NormalKey(<<a>>) = <<a>>
<1> DEFINE s == <<a>>
<1>1. DOMAIN s = 1..1 /\ Len(s) = 1
  OBVIOUS
<1>2. s[1] = a
  OBVIOUS
<1> HIDE DEF s
<1>3. PICK kept : Read(s, 1, kept)
  BY <1>1, NormalKeyRead
<1>4. kept[1] = Append(kept[0], a) /\ kept[0] = <<>>
  BY <1>2, <1>3 DEF Read
<1>5. kept[1] = <<a>>
  BY <1>4, AppendToNone
<1> QED
  BY <1>3, <1>5 DEF Read, s

\* Two words.
LEMMA NormalTwoWords ==
    ASSUME NEW a, NEW b,
           a \notin Mark, b \notin Mark
    PROVE  NormalKey(<<a, b>>) = <<a, b>>
<1> DEFINE s == <<a, b>>
<1>1. DOMAIN s = 1..2 /\ Len(s) = 2
  OBVIOUS
<1>2. s[1] = a /\ s[2] = b
  OBVIOUS
<1> HIDE DEF s
<1>3. PICK kept : Read(s, 2, kept)
  BY <1>1, NormalKeyRead
<1>4. kept[1] = Append(kept[0], a) /\ kept[0] = <<>>
  BY <1>2, <1>3 DEF Read
<1>5. kept[1] = <<a>>
  BY <1>4, AppendToNone
<1>6. kept[2] = Append(kept[1], b) /\ kept[1] = <<a>>
  BY <1>2, <1>3, <1>5 DEF Read
<1>7. kept[2] = <<a, b>>
  BY <1>6, AppendToOne
<1> QED
  BY <1>3, <1>7 DEF Read, s

\* Two words with a mark between them.
LEMMA NormalMarkedWords ==
    ASSUME NEW a, NEW b, NEW c,
           a \notin Mark, c \notin Mark, b \in Mark
    PROVE  NormalKey(<<a, b, c>>) = <<a, c>>
<1> DEFINE s == <<a, b, c>>
<1>1. DOMAIN s = 1..3 /\ Len(s) = 3
  OBVIOUS
<1>2. s[1] = a /\ s[2] = b /\ s[3] = c
  OBVIOUS
<1> HIDE DEF s
<1>3. PICK kept : Read(s, 3, kept)
  BY <1>1, NormalKeyRead
<1>4. kept[1] = Append(kept[0], a) /\ kept[0] = <<>>
  BY <1>2, <1>3 DEF Read
<1>5. kept[1] = <<a>>
  BY <1>4, AppendToNone
<1>6. kept[2] = <<a>>
  BY <1>2, <1>3, <1>5 DEF Read
<1>7. kept[3] = Append(kept[2], c) /\ kept[2] = <<a>>
  BY <1>2, <1>3, <1>6 DEF Read
<1>8. kept[3] = <<a, c>>
  BY <1>7, AppendToOne
<1> QED
  BY <1>3, <1>8 DEF Read, s

\* Three words.
LEMMA NormalThreeWords ==
    ASSUME NEW a, NEW b, NEW c,
           a \notin Mark, b \notin Mark, c \notin Mark
    PROVE  NormalKey(<<a, b, c>>) = <<a, b, c>>
<1> DEFINE s == <<a, b, c>>
<1>1. DOMAIN s = 1..3 /\ Len(s) = 3
  OBVIOUS
<1>2. s[1] = a /\ s[2] = b /\ s[3] = c
  OBVIOUS
<1> HIDE DEF s
<1>3. PICK kept : Read(s, 3, kept)
  BY <1>1, NormalKeyRead
<1>4. kept[1] = Append(kept[0], a) /\ kept[0] = <<>>
  BY <1>2, <1>3 DEF Read
<1>5. kept[1] = <<a>>
  BY <1>4, AppendToNone
<1>6. kept[2] = Append(kept[1], b) /\ kept[1] = <<a>>
  BY <1>2, <1>3, <1>5 DEF Read
<1>7. kept[2] = <<a, b>>
  BY <1>6, AppendToOne
<1>8. kept[3] = Append(kept[2], c) /\ kept[2] = <<a, b>>
  BY <1>2, <1>3, <1>7 DEF Read
<1>9. kept[3] = <<a, b, c>>
  BY <1>8, AppendToTwo
<1> QED
  BY <1>3, <1>9 DEF Read, s

\* Three words with a mark after the first.
LEMMA NormalLeftMarked ==
    ASSUME NEW a, NEW b, NEW c, NEW d,
           a \notin Mark, c \notin Mark, d \notin Mark, b \in Mark
    PROVE  NormalKey(<<a, b, c, d>>) = <<a, c, d>>
<1> DEFINE s == <<a, b, c, d>>
<1>1. DOMAIN s = 1..4 /\ Len(s) = 4
  OBVIOUS
<1>2. s[1] = a /\ s[2] = b /\ s[3] = c /\ s[4] = d
  OBVIOUS
<1> HIDE DEF s
<1>3. PICK kept : Read(s, 4, kept)
  BY <1>1, NormalKeyRead
<1>4. kept[1] = Append(kept[0], a) /\ kept[0] = <<>>
  BY <1>2, <1>3 DEF Read
<1>5. kept[1] = <<a>>
  BY <1>4, AppendToNone
<1>6. kept[2] = <<a>>
  BY <1>2, <1>3, <1>5 DEF Read
<1>7. kept[3] = Append(kept[2], c) /\ kept[2] = <<a>>
  BY <1>2, <1>3, <1>6 DEF Read
<1>8. kept[3] = <<a, c>>
  BY <1>7, AppendToOne
<1>9. kept[4] = Append(kept[3], d) /\ kept[3] = <<a, c>>
  BY <1>2, <1>3, <1>8 DEF Read
<1>10. kept[4] = <<a, c, d>>
  BY <1>9, AppendToTwo
<1> QED
  BY <1>3, <1>10 DEF Read, s

\* Three words with a mark before the last.
LEMMA NormalRightMarked ==
    ASSUME NEW a, NEW b, NEW c, NEW d,
           a \notin Mark, b \notin Mark, d \notin Mark, c \in Mark
    PROVE  NormalKey(<<a, b, c, d>>) = <<a, b, d>>
<1> DEFINE s == <<a, b, c, d>>
<1>1. DOMAIN s = 1..4 /\ Len(s) = 4
  OBVIOUS
<1>2. s[1] = a /\ s[2] = b /\ s[3] = c /\ s[4] = d
  OBVIOUS
<1> HIDE DEF s
<1>3. PICK kept : Read(s, 4, kept)
  BY <1>1, NormalKeyRead
<1>4. kept[1] = Append(kept[0], a) /\ kept[0] = <<>>
  BY <1>2, <1>3 DEF Read
<1>5. kept[1] = <<a>>
  BY <1>4, AppendToNone
<1>6. kept[2] = Append(kept[1], b) /\ kept[1] = <<a>>
  BY <1>2, <1>3, <1>5 DEF Read
<1>7. kept[2] = <<a, b>>
  BY <1>6, AppendToOne
<1>8. kept[3] = <<a, b>>
  BY <1>2, <1>3, <1>7 DEF Read
<1>9. kept[4] = Append(kept[3], d) /\ kept[3] = <<a, b>>
  <2>1. \A n \in 1..4 : s[n] \notin Mark => kept[n] = Append(kept[n - 1], s[n])
    BY <1>3 DEF Read
  <2>2. kept[4] = Append(kept[4 - 1], s[4])
    BY <1>2, <2>1
  <2>3. 4 - 1 = 3
    OBVIOUS
  <2> QED
    BY <1>2, <1>8, <2>2, <2>3, Zenon
<1>10. kept[4] = <<a, b, d>>
  BY <1>9, AppendToTwo
<1> QED
  BY <1>3, <1>10 DEF Read, s

\* Three words with marks between them.
LEMMA NormalAllMarked ==
    ASSUME NEW a, NEW b, NEW c, NEW d, NEW e,
           a \notin Mark, c \notin Mark, e \notin Mark, b \in Mark, d \in Mark
    PROVE  NormalKey(<<a, b, c, d, e>>) = <<a, c, e>>
<1> DEFINE s == <<a, b, c, d, e>>
<1>1. DOMAIN s = 1..5 /\ Len(s) = 5
  OBVIOUS
<1>2. s[1] = a /\ s[2] = b /\ s[3] = c /\ s[4] = d /\ s[5] = e
  OBVIOUS
<1> HIDE DEF s
<1>3. PICK kept : Read(s, 5, kept)
  BY <1>1, NormalKeyRead
<1>4. kept[1] = Append(kept[0], a) /\ kept[0] = <<>>
  BY <1>2, <1>3 DEF Read
<1>5. kept[1] = <<a>>
  BY <1>4, AppendToNone
<1>6. kept[2] = <<a>>
  BY <1>2, <1>3, <1>5 DEF Read
<1>7. kept[3] = Append(kept[2], c) /\ kept[2] = <<a>>
  BY <1>2, <1>3, <1>6 DEF Read
<1>8. kept[3] = <<a, c>>
  BY <1>7, AppendToOne
<1>9. kept[4] = <<a, c>>
  BY <1>2, <1>3, <1>8 DEF Read
<1>10. kept[5] = Append(kept[4], e) /\ kept[4] = <<a, c>>
  BY <1>2, <1>3, <1>9 DEF Read
<1>11. kept[5] = <<a, c, e>>
  BY <1>10, AppendToTwo
<1> QED
  BY <1>3, <1>11 DEF Read, s

-----------------------------------------------------------------------------
(* Texts without the blanks around them.                                   *)

\* The last of some positions is one of them, and there is none after it.
LEMMA MaxIsLast ==
    ASSUME NEW len \in Nat, NEW S \in SUBSET (1..len), S # {}
    PROVE  Max(S) \in S /\ \A i \in S : i <= Max(S)
<1> DEFINE mirror == {len - i : i \in S}
<1>1. mirror \in SUBSET Nat /\ mirror # {}
  <2>1. \A i \in S : len - i \in Nat
    OBVIOUS
  <2>2. PICK i \in S : TRUE
    OBVIOUS
  <2>3. len - i \in mirror
    BY <2>2
  <2> QED
    BY <2>1, <2>3
<1>2. Min(mirror) \in mirror /\ \A i \in mirror : Min(mirror) <= i
  BY <1>1, MinIsFirst
<1>3. PICK x \in S : Min(mirror) = len - x
  BY <1>2
<1>4. \A i \in S : len - x <= len - i
  BY <1>2, <1>3
<1>5. \A i \in S : i <= x
  BY <1>4
<1> QED
  BY <1>5 DEF Max

\* A text that begins and ends with something is trimmed.
LEMMA TrimmedIsTrim ==
    ASSUME NEW S, NEW t \in Seq(S), t # <<>>, t[1] \notin White, t[Len(t)] \notin White
    PROVE  Trim(t) = t
<1> DEFINE ink == {i \in DOMAIN t : t[i] \notin White}
<1>1. Len(t) \in Nat /\ Len(t) >= 1 /\ DOMAIN t = 1..Len(t)
  BY EmptySeq, LenProperties
<1>2. ink \in SUBSET Nat /\ ink \in SUBSET (1..Len(t)) /\ 1 \in ink /\ Len(t) \in ink
  BY <1>1
<1>3. Min(ink) = 1 /\ Max(ink) = Len(t)
  <2>1. Min(ink) \in ink /\ \A i \in ink : Min(ink) <= i
    BY <1>2, MinIsFirst
  <2>2. Max(ink) \in ink /\ \A i \in ink : i <= Max(ink)
    BY <1>1, <1>2, MaxIsLast
  <2> HIDE DEF ink
  <2>3. Min(ink) \in 1..Len(t) /\ Min(ink) <= 1
    BY <1>2, <2>1
  <2>4. Max(ink) \in 1..Len(t) /\ Len(t) <= Max(ink)
    BY <1>2, <2>2
  <2> QED
    BY <1>1, <2>3, <2>4
<1>4. Trim(t) = SubSeq(t, 1, Len(t))
  BY <1>2, <1>3 DEF Trim
<1> QED
  BY <1>4, SubSeqFull

\* What is trimmed is a text, without blanks around it.
LEMMA TrimProperties ==
    ASSUME NEW S, NEW t \in Seq(S)
    PROVE  Trim(t) \in Seq(S) /\ Trim(Trim(t)) = Trim(t)
<1> DEFINE ink == {i \in DOMAIN t : t[i] \notin White}
<1>1. CASE ink = {}
  <2>1. Trim(t) = <<>>
    BY <1>1 DEF Trim
  <2>2. Trim(<<>>) = <<>>
    BY DEF Trim
  <2> QED
    BY <2>1, <2>2, EmptySeq
<1>2. CASE ink # {}
  <2>1. Len(t) \in Nat /\ DOMAIN t = 1..Len(t)
    BY LenProperties
  <2>2. ink \in SUBSET Nat /\ ink \in SUBSET (1..Len(t))
    BY <2>1
  <2> DEFINE first == Min(ink)
             last == Max(ink)
  <2>3. first \in ink /\ last \in ink /\ first <= last
    BY <1>2, <2>1, <2>2, MinIsFirst, MaxIsLast
  <2>4. t[first] \notin White /\ t[last] \notin White
    BY <2>3
  <2>5. Trim(t) = SubSeq(t, first, last)
    BY <1>2 DEF Trim
  <2> HIDE DEF ink, first, last
  <2>6. first \in 1..Len(t) /\ last \in 1..Len(t)
    BY <2>2, <2>3
  <2>7. /\ SubSeq(t, first, last) \in Seq(S)
        /\ Len(SubSeq(t, first, last)) = last - first + 1
        /\ \A i \in 1..last - first + 1 : SubSeq(t, first, last)[i] = t[first + i - 1]
    BY <2>1, <2>3, <2>6, SubSeqProperties
  <2> DEFINE u == SubSeq(t, first, last)
  <2>8. u[1] = t[first] /\ u[Len(u)] = t[last] /\ u # <<>>
    BY <2>3, <2>6, <2>7
  <2>9. Trim(u) = u
    <3> HIDE DEF u
    <3> QED
      BY <2>4, <2>7, <2>8, TrimmedIsTrim DEF u
  <2> QED
    BY <2>5, <2>7, <2>9
<1> QED
  BY <1>1, <1>2

\* The values the dialog may take for a name: one of its spellings' values.
Candidates(values, n) ==
    IF Spellings(values, n) = {} THEN {<<>>}
    ELSE {values[k] : k \in Spellings(values, n)}

\* The first values without the local definitions.
LEMMA FirstValuesIs ==
    ASSUME NEW values, NEW keys
    PROVE  FirstValues(values, keys) =
             (UNION {Candidates(values, keys[i]) \ {<<>>} :
                       i \in {j \in DOMAIN keys :
                                \A m \in 1..j - 1 : <<>> \in Candidates(values, keys[m])}})
             \cup {v \in {<<>>} :
                     \A m \in 1..Len(keys) : <<>> \in Candidates(values, keys[m])}
<1> DEFINE Found(i) == {values[k] : k \in Spellings(values, keys[i])}
           Old(i) == IF Found(i) = {} THEN {<<>>} ELSE Found(i)
<1>1. \A i : Old(i) = Candidates(values, keys[i])
  BY DEF Candidates
<1> HIDE DEF Old
<1> DEFINE Passed(j) == \A m \in 1..j : <<>> \in Old(m)
<1>2. FirstValues(values, keys) =
        (UNION {Old(i) \ {<<>>} : i \in {j \in DOMAIN keys : Passed(j - 1)}})
        \cup {v \in {<<>>} : Passed(Len(keys))}
  BY Zenon DEF FirstValues, Old
<1>3. {v \in {<<>>} : Passed(Len(keys))} =
        {v \in {<<>>} : \A m \in 1..Len(keys) : <<>> \in Candidates(values, keys[m])}
  BY <1>1
<1>4. (UNION {Old(i) \ {<<>>} : i \in {j \in DOMAIN keys : Passed(j - 1)}}) =
        (UNION {Candidates(values, keys[i]) \ {<<>>} :
                 i \in {j \in DOMAIN keys :
                          \A m \in 1..j - 1 : <<>> \in Candidates(values, keys[m])}})
  BY <1>1
<1> QED
  BY <1>2, <1>3, <1>4, Zenon

\* Where each name leaves the dialog one candidate, its answer is unique: the
\* first that is not empty.
LEMMA OneFirstValue ==
    ASSUME NEW values, NEW keys, NEW c, DOMAIN keys = 1..Len(keys), Len(keys) \in Nat,
           \A i \in DOMAIN keys : Candidates(values, keys[i]) = {c[i]},
           NEW set, set = {i \in DOMAIN keys : c[i] # <<>>}
    PROVE  FirstValues(values, keys) = {IF set = {} THEN <<>> ELSE c[Min(set)]}
<1> DEFINE Before(j) == \A m \in 1..j - 1 : c[m] = <<>>
<1>1. \A j \in DOMAIN keys :
        (\A m \in 1..j - 1 : <<>> \in Candidates(values, keys[m])) <=> Before(j)
  <2> SUFFICES ASSUME NEW j \in DOMAIN keys
               PROVE  \A m \in 1..j - 1 :
                        <<>> \in Candidates(values, keys[m]) <=> c[m] = <<>>
    BY Zenon
  <2>1. \A m \in 1..j - 1 : m \in DOMAIN keys
    OBVIOUS
  <2> QED
    BY <2>1
<1>2. (\A m \in 1..Len(keys) : <<>> \in Candidates(values, keys[m])) <=> set = {}
  OBVIOUS
<1> DEFINE some == UNION {Candidates(values, keys[i]) \ {<<>>} :
                             i \in {j \in DOMAIN keys : Before(j)}}
           none == {v \in {<<>>} : set = {}}
<1>3. FirstValues(values, keys) = some \cup none
  <2> DEFINE Passed == {j \in DOMAIN keys :
                          \A m \in 1..j - 1 : <<>> \in Candidates(values, keys[m])}
  <2>1. Passed = {j \in DOMAIN keys : Before(j)}
    BY <1>1
  <2>2. {v \in {<<>>} : \A m \in 1..Len(keys) : <<>> \in Candidates(values, keys[m])}
          = none
    BY <1>2
  <2>3. FirstValues(values, keys) =
          (UNION {Candidates(values, keys[i]) \ {<<>>} : i \in Passed}) \cup none
    BY <2>2, FirstValuesIs
  <2>4. UNION {Candidates(values, keys[i]) \ {<<>>} : i \in Passed} = some
    BY <2>1, Zenon
  <2> HIDE DEF Passed, some, none
  <2> QED
    BY <2>3, <2>4, Zenon
<1>4. some = {c[i] : i \in {j \in set : Before(j)}}
  OBVIOUS
<1>5. CASE set = {}
  <2>1. some = {} /\ none = {<<>>}
    BY <1>4, <1>5
  <2> HIDE DEF some, none
  <2> QED
    BY <1>3, <1>5, <2>1
<1>6. CASE set # {}
  <2>0. set \in SUBSET Nat /\ set \subseteq 1..Len(keys)
    OBVIOUS
  <2>1. Min(set) \in set /\ \A i \in set : Min(set) <= i
    BY <1>6, <2>0, MinIsFirst
  <2>2. {j \in set : Before(j)} = {Min(set)}
    <3>1. ASSUME NEW m \in 1..Min(set) - 1 PROVE c[m] = <<>>
      <4>1. m \in DOMAIN keys /\ m < Min(set)
        BY <2>0, <2>1
      <4> QED
        BY <2>0, <2>1, <4>1
    <3>2. ASSUME NEW j \in set, Before(j) PROVE j = Min(set)
      <4>1. Min(set) \in Nat /\ j \in Nat /\ 1 <= Min(set) /\ Min(set) <= j
        BY <2>0, <2>1
      <4>2. ~ Min(set) \in 1..j - 1
        BY <2>1, <3>2
      <4> QED
        BY <4>1, <4>2
    <3> QED
      BY <2>1, <3>1, <3>2
  <2>3. some = {c[Min(set)]} /\ none = {}
    BY <1>4, <1>6, <2>2
  <2> HIDE DEF some, none
  <2> QED
    BY <1>3, <1>6, <2>3
<1> QED
  BY <1>5, <1>6

\* Any value the dialog may find is one of those kept, and it finds none only if
\* it may find none under each name.
LEMMA FirstValuesAre ==
    ASSUME NEW values, NEW keys, NEW v \in FirstValues(values, keys)
    PROVE  /\ v # <<>> => \E k \in DOMAIN values : v = values[k]
           /\ v = <<>> => \A m \in 1..Len(keys) : <<>> \in Candidates(values, keys[m])
<1>1. CASE v # <<>>
  <2>1. PICK i : v \in Candidates(values, keys[i])
    BY <1>1, FirstValuesIs
  <2> QED
    BY <1>1, <2>1 DEF Candidates, Spellings
<1>2. CASE v = <<>>
  BY <1>2, FirstValuesIs
<1> QED
  BY <1>1, <1>2

\* There the dialog reads what the service reads.
LEMMA SameFirstValue ==
    ASSUME NEW values, NEW keys, NEW d, DOMAIN keys = 1..Len(keys), Len(keys) \in Nat,
           \A i \in DOMAIN keys : Candidates(values, keys[i]) = {Flattened(d, keys[i])}
    PROVE  FirstValues(values, keys) = {FirstSetting(d, keys)}
<1> DEFINE c == [i \in DOMAIN keys |-> Flattened(d, keys[i])]
           set == {i \in DOMAIN keys : c[i] # <<>>}
<1>0. set \in SUBSET Nat /\ \A i \in DOMAIN keys : c[i] = Flattened(d, keys[i])
  OBVIOUS
<1>1. FirstValues(values, keys) = {IF set = {} THEN <<>> ELSE c[Min(set)]}
  <2>1. \A i \in DOMAIN keys : Candidates(values, keys[i]) = {c[i]}
    BY <1>0
  <2> HIDE DEF c
  <2> QED
    BY <2>1, OneFirstValue
<1>2. set # {} => Min(set) \in set
  BY <1>0, MinIsFirst
<1>3. set = {i \in DOMAIN keys : Flattened(d, keys[i]) # <<>>}
  OBVIOUS
<1>4. IF set = {} THEN FirstSetting(d, keys) = <<>>
      ELSE FirstSetting(d, keys) = Flattened(d, keys[Min(set)])
  BY <1>3 DEF FirstSetting
<1> QED
  BY <1>1, <1>2, <1>4

\* A setting without a value has none by any of its names.
LEMMA NoFirstSetting ==
    ASSUME NEW keys, NEW d, DOMAIN keys \subseteq Nat
    PROVE  FirstSetting(d, keys) = <<>> <=>
             \A i \in DOMAIN keys : Flattened(d, keys[i]) = <<>>
<1> DEFINE set == {i \in DOMAIN keys : Flattened(d, keys[i]) # <<>>}
<1>1. set # {} => Min(set) \in set
  BY MinIsFirst
<1> QED
  BY <1>1 DEF FirstSetting

\* The names of the settings are sequences, of one name or more.
AreKeys(keys) == DOMAIN keys = 1..Len(keys) /\ Len(keys) \in Nat

\* The names of the auth mode and of the setup key are sequences.
LEMMA KeysAreSequences ==
    /\ DOMAIN AuthKeys = 1..4 /\ Len(AuthKeys) = 4 /\ AreKeys(AuthKeys)
    /\ DOMAIN SetupKeyKeys = 1..2 /\ Len(SetupKeyKeys) = 2 /\ AreKeys(SetupKeyKeys)
BY DEF AuthKeys, SetupKeyKeys, AreKeys

\* Of one candidate that is not empty the dialog makes its answer.
FoundOnlyAt(values, keys, p, text) ==
    /\ p \in DOMAIN keys /\ text # <<>> /\ Candidates(values, keys[p]) = {text}
    /\ \A i \in DOMAIN keys \ {p} : Candidates(values, keys[i]) = {<<>>}

\* One candidate is the answer.
LEMMA OnlyCandidate ==
    ASSUME NEW values, NEW keys, AreKeys(keys), NEW p, NEW text,
           FoundOnlyAt(values, keys, p, text)
    PROVE  FirstValues(values, keys) = {text}
<1> DEFINE one == [i \in DOMAIN keys |-> IF i = p THEN text ELSE <<>>]
           set == {i \in DOMAIN keys : one[i] # <<>>}
<1>1. \A i \in DOMAIN keys : Candidates(values, keys[i]) = {one[i]}
  BY DEF FoundOnlyAt
<1>2. set = {p} /\ one[p] = text /\ p \in Nat
  BY DEF FoundOnlyAt, AreKeys
<1> HIDE DEF one
<1>3. FirstValues(values, keys) = {IF set = {} THEN <<>> ELSE one[Min(set)]}
  <2>1. DOMAIN keys = 1..Len(keys) /\ Len(keys) \in Nat
    BY DEF AreKeys
  <2> QED
    BY <1>1, <2>1, OneFirstValue
<1>4. Min(set) = p
  BY <1>2, MinIsFirst
<1> HIDE DEF set
<1> QED
  BY <1>2, <1>3, <1>4

\* Without any, it finds nothing.
FoundNowhere(values, keys) ==
    \A i \in DOMAIN keys : Candidates(values, keys[i]) = {<<>>}

\* No candidate makes no answer.
LEMMA NoCandidate ==
    ASSUME NEW values, NEW keys, AreKeys(keys), FoundNowhere(values, keys)
    PROVE  FirstValues(values, keys) = {<<>>}
<1>1. ASSUME NEW v \in FirstValues(values, keys) PROVE v = <<>>
  <2>1. v # <<>> => \E i \in DOMAIN keys : v \in Candidates(values, keys[i])
    BY FirstValuesIs
  <2> QED
    BY <2>1 DEF FoundNowhere
<1>2. <<>> \in FirstValues(values, keys)
  BY FirstValuesIs DEF FoundNowhere, AreKeys
<1> QED
  BY <1>1, <1>2

-----------------------------------------------------------------------------
(* Settings that are spelled once.                                         *)

SpeltOnce(values) ==
    \A j, k \in DOMAIN values : NormalKey(j) = NormalKey(k) => j = k

\* The last of one spelling is that spelling.
LEMMA LastOfOne ==
    ASSUME NEW k PROVE LastSpelling({k}) = k
BY DEF LastSpelling

\* A setting that is spelled once has that spelling only.
LEMMA OneSpelling ==
    ASSUME NEW values, SpeltOnce(values), NEW n, NEW k \in Spellings(values, n)
    PROVE  Spellings(values, n) = {k}
BY DEF SpeltOnce, Spellings

=============================================================================
