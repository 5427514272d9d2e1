------------------------- MODULE ClassicLexerProofs -------------------------
(***************************************************************************)
(* Theorems about ClassicLexer, for every text and every size of its       *)
(* buffers: every round of its loops reads, the tokens are the text they   *)
(* were made of and name its place, and strings end where they end.        *)
(***************************************************************************)
EXTENDS ClassicLexer, WellFoundedInduction, FiniteSetTheorems,
        SequenceTheorems, TLAPS

-----------------------------------------------------------------------------
(* A set of numbers has a least one: the order on pairs first.             *)
LEMMA LeastIn ==
  ASSUME NEW R, NEW S \in SUBSET Nat,
         \A x, y \in Nat : y < x => <<y, x>> \in R,
         NEW x \in S, \A y \in S : ~(<<y, x>> \in R)
  PROVE  \A y \in S : x <= y
  <1> SUFFICES ASSUME NEW y \in S, ~(x <= y) PROVE FALSE
    OBVIOUS
  <1>1. x \in Nat /\ y \in Nat /\ y < x
    OBVIOUS
  <1>2. <<y, x>> \in R
    BY <1>1, Zenon
  <1> QED
    BY <1>2, Zenon

LEMMA Least ==
  ASSUME NEW S \in SUBSET Nat, S # {}
  PROVE  \E x \in S : \A y \in S : x <= y
  <1> DEFINE R == OpToRel(<, Nat)
  <1>1. \E x \in S : \A y \in S : ~(<<y, x>> \in R)
    BY NatLessThanWellFounded, WFMin
  <1>2. \A x, y \in Nat : y < x => <<y, x>> \in R
    BY DEF OpToRel
  <1> HIDE DEF R
  <1> QED
    BY <1>1, <1>2, LeastIn

(* A bounded set of numbers has a greatest one.                            *)
LEMMA Greatest ==
  ASSUME NEW n \in Nat, NEW S \in SUBSET (0 .. n), S # {}
  PROVE  \E x \in S : \A y \in S : y <= x
  <1> DEFINE U == {m \in Nat : \A y \in S : y <= m}
  <1>1. n \in U
    OBVIOUS
  <1>2. PICK m \in U : \A x \in U : m <= x
    BY <1>1, Least
  <1>3. m \in Nat /\ \A y \in S : y <= m
    BY <1>2
  <1>4. m \in S
    <2> SUFFICES ASSUME m \notin S PROVE FALSE
      OBVIOUS
    <2>1. \A y \in S : y \in Nat /\ y < m
      BY <1>3
    <2>2. m # 0
      <3>1. PICK y \in S : TRUE
        OBVIOUS
      <3> QED
        BY <2>1, <3>1
    <2>3. m - 1 \in U
      BY <1>3, <2>1, <2>2
    <2> QED
      BY <1>2, <1>3, <2>3
  <1> QED
    BY <1>3, <1>4

-----------------------------------------------------------------------------
(* Past() and Until() are where they say.                                  *)
LEMMA PastIs ==
  ASSUME NEW s \in Seq(STRING), NEW q \in 1 .. Len(s) + 1, NEW S
  PROVE  /\ Past(s, q, S) \in q .. Len(s) + 1
         /\ Past(s, q, S) = Len(s) + 1 \/ s[Past(s, q, S)] \notin S
         /\ \A k \in q .. Past(s, q, S) - 1 : s[k] \in S
  <1> DEFINE ends == {r \in q .. Len(s) + 1 : r = Len(s) + 1 \/ s[r] \notin S}
  <1>1. Len(s) \in Nat /\ Len(s) + 1 \in ends /\ ends \in SUBSET Nat
    OBVIOUS
  <1>2. PICK r \in ends : \A x \in ends : r <= x
    BY <1>1, Least
  <1>3. \A k \in q .. r - 1 : s[k] \in S
    <2> SUFFICES ASSUME NEW k \in q .. r - 1, s[k] \notin S PROVE FALSE
      OBVIOUS
    <2>1. r \in q .. Len(s) + 1
      BY <1>2
    <2>2. k \in ends /\ k < r
      BY <2>1, <1>1
    <2> QED
      BY <2>1, <2>2, <1>2
  <1>4. \E e \in q .. Len(s) + 1 : /\ e = Len(s) + 1 \/ s[e] \notin S
                                   /\ \A k \in q .. e - 1 : s[k] \in S
    BY <1>2, <1>3
  <1> QED
    BY <1>4 DEF Past

LEMMA UntilIs ==
  ASSUME NEW s \in Seq(STRING), NEW q \in 1 .. Len(s) + 1, NEW S
  PROVE  /\ Until(s, q, S) \in q .. Len(s) + 1
         /\ Until(s, q, S) = Len(s) + 1 \/ s[Until(s, q, S)] \in S
         /\ \A k \in q .. Until(s, q, S) - 1 : s[k] \notin S
  <1> DEFINE ends == {r \in q .. Len(s) + 1 : r = Len(s) + 1 \/ s[r] \in S}
  <1>1. Len(s) \in Nat /\ Len(s) + 1 \in ends /\ ends \in SUBSET Nat
    OBVIOUS
  <1>2. PICK r \in ends : \A x \in ends : r <= x
    BY <1>1, Least
  <1>3. \A k \in q .. r - 1 : s[k] \notin S
    <2> SUFFICES ASSUME NEW k \in q .. r - 1, s[k] \in S PROVE FALSE
      OBVIOUS
    <2>1. r \in q .. Len(s) + 1
      BY <1>2
    <2>2. k \in ends /\ k < r
      BY <2>1, <1>1
    <2> QED
      BY <2>1, <2>2, <1>2
  <1>4. \E e \in q .. Len(s) + 1 : /\ e = Len(s) + 1 \/ s[e] \in S
                                   /\ \A k \in q .. e - 1 : s[k] \notin S
    BY <1>2, <1>3
  <1> QED
    BY <1>4 DEF Until

(* A step over at least one character of S, and to none of S.              *)
LEMMA PastMoves ==
  ASSUME NEW s \in Seq(STRING), NEW q \in 1 .. Len(s), NEW S, s[q] \in S
  PROVE  Past(s, q, S) \in q + 1 .. Len(s) + 1
  BY PastIs

LEMMA UntilMoves ==
  ASSUME NEW s \in Seq(STRING), NEW q \in 1 .. Len(s), NEW S, s[q] \notin S
  PROVE  Until(s, q, S) \in q + 1 .. Len(s) + 1
  BY UntilIs

LEMMA TextIs ==
  ASSUME NEW s \in Seq(STRING)
  PROVE  DOMAIN s = 1 .. Len(s) /\ Len(s) \in Nat
  OBVIOUS

(* What At() finds stands in the text.                                     *)
LEMMA AtIs ==
  ASSUME NEW s \in Seq(STRING), NEW q \in Nat \ {0}, At(s, q) # ""
  PROVE  q \in 1 .. Len(s) /\ s[q] = At(s, q)
  <1>1. q \in DOMAIN s /\ s[q] = At(s, q)
    BY Zenon DEF At
  <1> QED
    BY <1>1, TextIs, Zenon

(* r is not before q, and in the text or at its end.                       *)
Ahead(s, q, r) == r \in q .. Len(s) + 1

LEMMA Onward ==
  ASSUME NEW n \in Nat, NEW q \in Nat \ {0}, NEW r \in 1 .. n, q <= r
  PROVE  r \in q .. n + 1 /\ r + 1 \in q .. n + 1
  OBVIOUS

LEMMA AheadNumber ==
  ASSUME NEW s, NEW q \in Nat \ {0}, NEW r, Ahead(s, q, r)
  PROVE  r \in Nat \ {0} /\ q <= r
  BY DEF Ahead

LEMMA AheadOne ==
  ASSUME NEW s \in Seq(STRING), NEW q \in 1 .. Len(s)
  PROVE  Ahead(s, q + 1, q + 1)
  BY TextIs DEF Ahead

LEMMA AheadPast ==
  ASSUME NEW s \in Seq(STRING), NEW q \in Nat \ {0}, NEW r, Ahead(s, q, r), NEW S
  PROVE  Ahead(s, q, Past(s, r, S))
  <1>1. r \in 1 .. Len(s) + 1 /\ q <= r /\ Len(s) \in Nat
    BY TextIs DEF Ahead
  <1>2. Past(s, r, S) \in r .. Len(s) + 1
    BY <1>1, PastIs
  <1> QED
    BY <1>1, <1>2 DEF Ahead

LEMMA AheadUntil ==
  ASSUME NEW s \in Seq(STRING), NEW q \in Nat \ {0}, NEW r, Ahead(s, q, r), NEW S
  PROVE  Ahead(s, q, Until(s, r, S))
  <1>1. r \in 1 .. Len(s) + 1 /\ q <= r /\ Len(s) \in Nat
    BY TextIs DEF Ahead
  <1>2. Until(s, r, S) \in r .. Len(s) + 1
    BY <1>1, UntilIs
  <1> QED
    BY <1>1, <1>2 DEF Ahead

LEMMA AheadFound ==
  ASSUME NEW s \in Seq(STRING), NEW q \in Nat \ {0}, NEW r \in Nat \ {0}, q <= r, At(s, r) # ""
  PROVE  Ahead(s, q, r) /\ Ahead(s, q, r + 1)
  <1>1. r \in 1 .. Len(s) /\ Len(s) \in Nat
    BY AtIs, TextIs
  <1>2. r \in q .. Len(s) + 1 /\ r + 1 \in q .. Len(s) + 1
    BY <1>1, Onward, Zenon
  <1> QED
    BY <1>2, Zenon DEF Ahead

LEMMA AheadNext ==
  ASSUME NEW s \in Seq(STRING), NEW q \in Nat \ {0}, NEW r, Ahead(s, q, r), At(s, r) # ""
  PROVE  Ahead(s, q, r + 1)
  BY AheadNumber, AheadFound, Zenon

(* The spellings that the lexer looks for are made of these atoms, none of *)
(* which is empty.                                                         *)
Atoms == SlashWords \cup {"*", "+", "-", "<", ">", "=", "&", "|", "!", "/", "%", "^", "E2", "86",
  "92", "90", "cr", "dam", "onl", "func", "Snd", "Bcast", "cor", "Def", "(", "{", ":", "anw",
  "Lin", "lang", "const", "config", "distance", "Lu", "Language", "inq", ";", "snd", "mes", "Rec",
  "\"", "'", "C2", "AB", "BB", "$"}
Spelling(w) == w \in Seq(Atoms) /\ Len(w) > 0
LEMMA TupleIs ==
  ASSUME NEW S, NEW a \in S, NEW b \in S, NEW c \in S, NEW d \in S
  PROVE  /\ <<a>> \in Seq(S) /\ Len(<<a>>) = 1
         /\ <<a, b>> \in Seq(S) /\ Len(<<a, b>>) = 2
         /\ <<a, b, c>> \in Seq(S) /\ Len(<<a, b, c>>) = 3
         /\ <<a, b, c, d>> \in Seq(S) /\ Len(<<a, b, c, d>>) = 4
  OBVIOUS

LEMMA Spelling1 ==
  ASSUME NEW a \in Atoms
  PROVE  Spelling(<<a>>) /\ Len(<<a>>) = 1
  BY TupleIs DEF Spelling

LEMMA Spelling2 ==
  ASSUME NEW a \in Atoms, NEW b \in Atoms
  PROVE  Spelling(<<a, b>>) /\ Len(<<a, b>>) = 2 /\ <<a, b>>[1] = a
  BY TupleIs DEF Spelling

LEMMA Spelling3 ==
  ASSUME NEW a \in Atoms, NEW b \in Atoms, NEW c \in Atoms
  PROVE  Spelling(<<a, b, c>>) /\ Len(<<a, b, c>>) = 3 /\ <<a, b, c>>[1] = a
  BY TupleIs DEF Spelling

LEMMA Spelling4 ==
  ASSUME NEW a \in Atoms, NEW b \in Atoms, NEW c \in Atoms, NEW d \in Atoms
  PROVE  Spelling(<<a, b, c, d>>) /\ Len(<<a, b, c, d>>) = 4 /\ <<a, b, c, d>>[1] = a
  BY TupleIs DEF Spelling

LEMMA NotEmpty == "" \notin Atoms
  BY Zenon DEF Atoms, SlashWords
LEMMA FollowsIs ==
  ASSUME NEW s \in Seq(STRING), NEW q \in Nat \ {0}, NEW w, Spelling(w), Follows(s, q, w)
  PROVE  /\ q \in 1 .. Len(s) /\ s[q] = w[1]
         /\ q + Len(w) \in q + 1 .. Len(s) + 1
  <1>0. w \in Seq(Atoms) /\ Len(w) > 0
    BY Zenon DEF Spelling
  <1>1. Len(w) \in Nat \ {0} /\ DOMAIN w = 1 .. Len(w)
    BY <1>0
  <1>2. 1 \in DOMAIN w /\ Len(w) \in DOMAIN w
    BY <1>1
  <1>3. At(s, q + 1 - 1) = w[1] /\ At(s, q + Len(w) - 1) = w[Len(w)]
    BY <1>2, Zenon DEF Follows
  <1>4. w[1] # "" /\ w[Len(w)] # ""
    <2>1. w[1] \in Atoms /\ w[Len(w)] \in Atoms
      BY <1>0, <1>1, <1>2, ElementOfSeq
    <2> QED
      BY <2>1, NotEmpty, Zenon
  <1>5. q + 1 - 1 = q /\ q + Len(w) - 1 \in Nat \ {0}
    BY <1>1
  <1>6. At(s, q) = w[1]
    BY <1>3, <1>5
  <1>7. q \in 1 .. Len(s) /\ s[q] = w[1]
    BY <1>4, <1>6, AtIs
  <1>8. q + Len(w) - 1 \in 1 .. Len(s)
    BY <1>3, <1>4, <1>5, AtIs
  <1> QED
    BY <1>1, <1>7, <1>8

(* The text of a spelling, of one character, and of one more character.    *)
IsText(s, a, b, t) ==
  /\ t \in Seq(STRING)
  /\ Len(t) = b - a
  /\ \A i \in 1 .. b - a : t[i] = s[a + i - 1]

LEMMA TextBetween ==
  ASSUME NEW s \in Seq(STRING), NEW a \in Nat \ {0}, NEW b \in Nat, a <= b, b <= Len(s) + 1
  PROVE  IsText(s, a, b, Text(s, a, b))
  <1> DEFINE c == b - 1
  <1>1. a \in Int /\ c \in Int /\ Len(s) \in Nat /\ c - a + 1 = b - a
    BY TextIs
  <1>2. \A i \in a .. c : s[i] \in STRING
    <2>1. \A i \in a .. c : i \in 1 .. Len(s)
      BY <1>1
    <2> QED
      BY <2>1, ElementOfSeq
  <1>3. Text(s, a, b) = SubSeq(s, a, c)
    BY DEF Text
  <1> HIDE DEF c
  <1>4. /\ SubSeq(s, a, c) \in Seq(STRING)
        /\ Len(SubSeq(s, a, c)) = IF a <= c THEN c - a + 1 ELSE 0
        /\ \A i \in 1 .. c - a + 1 : SubSeq(s, a, c)[i] = s[a + i - 1]
    BY <1>1, <1>2, SubSeqProperties
  <1>5. Len(SubSeq(s, a, c)) = b - a
    BY <1>1, <1>4 DEF c
  <1> QED
    BY <1>1, <1>3, <1>4, <1>5 DEF IsText

LEMMA FollowsText ==
  ASSUME NEW s \in Seq(STRING), NEW q \in Nat \ {0}, NEW w, Spelling(w), Follows(s, q, w)
  PROVE  Text(s, q, q + Len(w)) = w
  <1>1. /\ q \in 1 .. Len(s) /\ q + Len(w) \in q + 1 .. Len(s) + 1
        /\ w \in Seq(Atoms) /\ Len(w) \in Nat /\ Len(s) \in Nat
    BY FollowsIs, TextIs DEF Spelling
  <1> DEFINE t == Text(s, q, q + Len(w))
  <1>2. /\ t \in Seq(STRING) /\ Len(t) = (q + Len(w)) - q
        /\ \A i \in 1 .. (q + Len(w)) - q : t[i] = s[q + i - 1]
    <2>1. q + Len(w) \in Nat /\ q <= q + Len(w) /\ q + Len(w) <= Len(s) + 1
      BY <1>1
    <2> QED
      BY <2>1, TextBetween DEF IsText
  <1> HIDE DEF t
  <1>3. ASSUME NEW i \in 1 .. Len(w) PROVE t[i] = w[i]
    <2>1. i \in DOMAIN w /\ q + i - 1 \in Nat \ {0} /\ i \in 1 .. (q + Len(w)) - q
      BY <1>1
    <2>2. At(s, q + i - 1) = w[i]
      BY <2>1, Zenon DEF Follows
    <2>3. w[i] # ""
      BY <1>1, ElementOfSeq, NotEmpty, Zenon
    <2>4. s[q + i - 1] = w[i]
      BY <2>1, <2>2, <2>3, AtIs
    <2> QED
      BY <1>2, <2>1, <2>4
  <1>4. Len(t) = Len(w)
    BY <1>1, <1>2
  <1>5. t = w
    <2>1. t \in Seq(STRING \cup Atoms) /\ w \in Seq(STRING \cup Atoms)
      BY <1>1, <1>2
    <2> QED
      BY <1>3, <1>4, <2>1, SeqEqual
  <1> QED
    BY <1>5 DEF t

LEMMA TextOfOne ==
  ASSUME NEW s \in Seq(STRING), NEW q \in 1 .. Len(s)
  PROVE  Text(s, q, q + 1) = <<s[q]>>
  <1> DEFINE t == Text(s, q, q + 1)
             u == <<s[q]>>
  <1>1. Len(s) \in Nat /\ q \in Nat /\ s[q] \in STRING
    BY TextIs
  <1>2. t \in Seq(STRING) /\ Len(t) = 1 /\ t[1] = s[q]
    <2>1. IsText(s, q, q + 1, t)
      BY TextBetween, <1>1
    <2> HIDE DEF t
    <2> QED
      BY <1>1, <2>1 DEF IsText
  <1>3. u \in Seq(STRING) /\ Len(u) = 1 /\ u[1] = s[q]
    BY <1>1
  <1> HIDE DEF t, u
  <1>4. t = u
    BY <1>2, <1>3, SeqEqual
  <1> QED
    BY <1>4 DEF t, u

LEMMA TextAndOne ==
  ASSUME NEW s \in Seq(STRING), NEW a \in 1 .. Len(s), NEW b \in a .. Len(s)
  PROVE  Text(s, a, b + 1) = Append(Text(s, a, b), s[b])
  <1> DEFINE t == Text(s, a, b + 1)
             v == Text(s, a, b)
             u == Append(v, s[b])
  <1>1. Len(s) \in Nat /\ s[b] \in STRING /\ b \in Nat /\ a \in Nat /\ a <= b /\ b <= Len(s)
    BY TextIs
  <1>2. /\ t \in Seq(STRING) /\ Len(t) = b + 1 - a
        /\ \A i \in 1 .. b + 1 - a : t[i] = s[a + i - 1]
    <2>1. a <= b + 1 /\ b + 1 <= Len(s) + 1 /\ b + 1 \in Nat /\ a \in Nat \ {0}
      BY <1>1
    <2>2. IsText(s, a, b + 1, t)
      BY <2>1, TextBetween
    <2> HIDE DEF t
    <2> QED
      BY <2>2 DEF IsText
  <1>3. /\ v \in Seq(STRING) /\ Len(v) = b - a
        /\ \A i \in 1 .. b - a : v[i] = s[a + i - 1]
    <2>1. b <= Len(s) + 1 /\ a \in Nat \ {0}
      BY <1>1
    <2>2. IsText(s, a, b, v)
      BY <1>1, <2>1, TextBetween
    <2> HIDE DEF v
    <2> QED
      BY <2>2, Zenon DEF IsText
  <1> HIDE DEF t, v
  <1>4. /\ u \in Seq(STRING) /\ Len(u) = Len(v) + 1 /\ u[Len(v) + 1] = s[b]
        /\ \A i \in 1 .. Len(v) : u[i] = v[i]
    <2>1. v \in Seq(STRING) /\ s[b] \in STRING
      BY <1>1, <1>3
    <2> QED
      BY <2>1, AppendProperties
  <1> HIDE DEF u
  <1>5. Len(t) = Len(u)
    BY <1>1, <1>2, <1>3, <1>4
  <1>6. ASSUME NEW i \in 1 .. Len(t) PROVE t[i] = u[i]
    <2>1. CASE i = b + 1 - a
      <3>1. a + i - 1 = b /\ i = Len(v) + 1
        BY <1>1, <1>3, <2>1
      <3> QED
        BY <1>2, <1>4, <3>1
    <2>2. CASE i # b + 1 - a
      <3>1. i \in 1 .. b - a /\ i \in 1 .. Len(v)
        BY <1>1, <1>2, <1>3, <2>2
      <3> QED
        BY <1>2, <1>3, <1>4, <3>1
    <2> QED
      BY <2>1, <2>2
  <1>7. t = u
    BY <1>2, <1>4, <1>5, <1>6, SeqEqual
  <1> QED
    BY <1>7 DEF t, u, v

LEMMA OneAndText ==
  ASSUME NEW s \in Seq(STRING), NEW a \in 1 .. Len(s), NEW b \in a + 1 .. Len(s) + 1
  PROVE  Text(s, a, b) = <<s[a]>> \o Text(s, a + 1, b)
  <1> DEFINE t == Text(s, a, b)
             v == Text(s, a + 1, b)
             w == <<s[a]>>
             u == w \o v
  <1>1. /\ Len(s) \in Nat /\ s[a] \in STRING /\ b \in Nat /\ a \in Nat
        /\ a + 1 <= b /\ b <= Len(s) + 1 /\ a + 1 \in 1 .. Len(s) + 1 /\ b \in a .. Len(s) + 1
    BY TextIs
  <1>2. /\ t \in Seq(STRING) /\ Len(t) = b - a
        /\ \A i \in 1 .. b - a : t[i] = s[a + i - 1]
    <2>1. a <= b /\ a \in Nat \ {0}
      BY <1>1
    <2>2. IsText(s, a, b, t)
      BY <1>1, <2>1, TextBetween
    <2> HIDE DEF t
    <2> QED
      BY <2>2, Zenon DEF IsText
  <1>3. /\ v \in Seq(STRING) /\ Len(v) = b - (a + 1)
        /\ \A i \in 1 .. b - (a + 1) : v[i] = s[(a + 1) + i - 1]
    <2>1. a + 1 \in Nat \ {0}
      BY <1>1
    <2>2. IsText(s, a + 1, b, v)
      BY <1>1, <2>1, TextBetween
    <2> HIDE DEF v
    <2> QED
      BY <2>2, Zenon DEF IsText
  <1>4. w \in Seq(STRING) /\ Len(w) = 1 /\ w[1] = s[a]
    BY <1>1
  <1> HIDE DEF t, v, w
  <1>5. /\ u \in Seq(STRING) /\ Len(u) = Len(w) + Len(v)
        /\ \A i \in 1 .. (Len(w) + Len(v)) : u[i] = IF i <= Len(w) THEN w[i] ELSE v[i - Len(w)]
    BY <1>3, <1>4, ConcatProperties
  <1> HIDE DEF u
  <1>6. Len(t) = Len(u)
    BY <1>1, <1>2, <1>3, <1>4, <1>5
  <1>7. ASSUME NEW i \in 1 .. Len(t) PROVE t[i] = u[i]
    <2>1. CASE i = 1
      <3>1. a + i - 1 = a /\ i \in 1 .. (Len(w) + Len(v)) /\ i <= Len(w) /\ i \in 1 .. b - a
        BY <1>1, <1>3, <1>4, <2>1
      <3> QED
        BY <1>2, <1>4, <1>5, <3>1, <2>1
    <2>2. CASE i # 1
      <3>1. /\ i \in 1 .. (Len(w) + Len(v)) /\ ~(i <= Len(w)) /\ i \in 1 .. b - a
            /\ i - Len(w) \in 1 .. b - (a + 1) /\ (a + 1) + (i - Len(w)) - 1 = a + i - 1
        BY <1>1, <1>2, <1>3, <1>4, <2>2
      <3> QED
        BY <1>2, <1>3, <1>5, <3>1
    <2> QED
      BY <2>1, <2>2
  <1>8. t = u
    BY <1>2, <1>5, <1>6, <1>7, SeqEqual
  <1> QED
    BY <1>8 DEF t, u, v, w

-----------------------------------------------------------------------------
(* A lexeme at q reads on, not past the end of the text, and is the text   *)
(* it was made of.                                                         *)
Plain == {"ident", "int", "float", "operator", "command", "unknown"}
IsText2(type, val, text) ==
  \/ val = text
  \/ type = "float" /\ \E f \in {"f", "F"} : text = Append(val, f)
Made(s, q, l) ==
  /\ Ahead(s, q + 1, l.next)
  /\ l.type # "string"
  /\ l.type \in Plain => IsText2(l.type, l.val, Text(s, q, l.next)) \/ s[q] \in {"$", "E2"}

LEMMA Fields ==
  ASSUME NEW type, NEW val, NEW next
  PROVE  /\ Lexeme(type, val, next).type = type
         /\ Lexeme(type, val, next).val = val
         /\ Lexeme(type, val, next).next = next
  BY DEF Lexeme

LEMMA MadeOf ==
  ASSUME NEW s, NEW q, NEW type, NEW val, NEW next, Ahead(s, q + 1, next), type # "string",
         type \in Plain => IsText2(type, val, Text(s, q, next)) \/ s[q] \in {"$", "E2"}
  PROVE  Made(s, q, Lexeme(type, val, next))
  <1> DEFINE l == Lexeme(type, val, next)
  <1>1. l.type = type /\ l.val = val /\ l.next = next
    BY Fields
  <1> HIDE DEF l
  <1>2. Made(s, q, l)
    BY <1>1, Zenon DEF Made
  <1> QED
    BY <1>2 DEF l

LEMMA NumberMade ==
  ASSUME NEW s \in Seq(STRING), NEW q \in 1 .. Len(s), AtNumber(s, q)
  PROVE  Made(s, q, Number(s, q))
  <1>1. q \in Nat \ {0} /\ q + 1 \in Nat \ {0} /\ "" \notin Digits
    BY DEF Digits
  <1>2. s[q] \in Digits
    BY <1>1, AtIs, Zenon DEF AtNumber
  <1>3. CASE Prefixed(s, q)
    <2> DEFINE r == Past(s, q + 2, DigitsAfter(s[q + 1]))
    <2>1. At(s, q + 1) # ""
      BY <1>3, Zenon DEF Prefixed
    <2>2. (q + 1) + 1 = q + 2 /\ q + 1 <= q + 1
      OBVIOUS
    <2>3. Ahead(s, q + 1, (q + 1) + 1)
      BY <1>1, <2>1, <2>2, AheadFound, Zenon
    <2>4. Ahead(s, q + 1, r)
      BY <1>1, <2>2, <2>3, AheadPast, Zenon
    <2>5. Number(s, q) = Lexeme("int", Text(s, q, r), r)
      BY <1>3, Zenon DEF Number
    <2> HIDE DEF r
    <2> QED
      BY <2>4, <2>5, MadeOf, Zenon DEF IsText2
  <1>4. CASE ~Prefixed(s, q)
    <2> DEFINE whole == Past(s, q, Digits)
               m == Mantissa(s, q)
               sign == IF At(s, m + 1) \in {"+", "-"} THEN m + 2 ELSE m + 1
               e == Exponent(s, m)
               float == e # whole
    <2>1. Ahead(s, q + 1, whole)
      BY <1>2, PastMoves DEF Ahead
    <2>2. Ahead(s, q + 1, m)
      <3>1. CASE At(s, whole) = "." /\ At(s, whole + 1) \in Digits
        <4>1. Ahead(s, q + 1, whole + 1)
          BY <1>1, <2>1, <3>1, AheadNext, Zenon
        <4>2. m = Past(s, whole + 1, Digits)
          BY <3>1, Zenon DEF Mantissa
        <4> QED
          BY <1>1, <4>1, <4>2, AheadPast, Zenon
      <3>2. CASE ~(At(s, whole) = "." /\ At(s, whole + 1) \in Digits)
        BY <2>1, <3>2, Zenon DEF Mantissa
      <3> QED
        BY <3>1, <3>2
    <2>3. Ahead(s, q + 1, e)
      <3>1. CASE At(s, m) \in {"e", "E"} /\ At(s, sign) \in Digits
        <4>1. m \in Nat \ {0} /\ q + 1 <= m
          BY <1>1, <2>2, AheadNumber, Zenon
        <4>2. sign \in Nat \ {0} /\ q + 1 <= sign
          <5> HIDE DEF m
          <5> QED
            BY <4>1
        <4>3. e = Past(s, sign, Digits)
          BY <3>1, Zenon DEF Exponent
        <4> HIDE DEF sign, e, m
        <4>4. At(s, sign) # ""
          BY <1>1, <3>1, Zenon
        <4>5. Ahead(s, q + 1, sign)
          BY <1>1, <4>2, <4>4, AheadFound, Zenon
        <4> QED
          BY <1>1, <4>3, <4>5, AheadPast, Zenon
      <3>2. CASE ~(At(s, m) \in {"e", "E"} /\ At(s, sign) \in Digits)
        BY <2>2, <3>2, Zenon DEF Exponent
      <3> QED
        BY <3>1, <3>2
    <2>4. Number(s, q) = Lexeme(IF float THEN "float" ELSE "int", Text(s, q, e),
                                IF float /\ At(s, e) \in {"f", "F"} THEN e + 1 ELSE e)
      BY <1>4, Zenon DEF Number
    <2> HIDE DEF whole, m, sign, e, float
    <2>5. CASE float /\ At(s, e) \in {"f", "F"}
      <3>1. At(s, e) # ""
        BY <2>5
      <3>2. e \in 1 .. Len(s) /\ s[e] = At(s, e) /\ Ahead(s, q + 1, e + 1)
        <4>1. e \in Nat \ {0}
          BY <1>1, <2>3, AheadNumber, Zenon
        <4> QED
          BY <1>1, <2>3, <3>1, <4>1, AtIs, AheadNext, Zenon
      <3>3. e \in q .. Len(s)
        BY <2>3, <3>2 DEF Ahead
      <3>4. Text(s, q, e + 1) = Append(Text(s, q, e), s[e])
        BY <3>3, TextAndOne
      <3>5. Number(s, q) = Lexeme("float", Text(s, q, e), e + 1)
        BY <2>4, <2>5, Zenon
      <3>6. IsText2("float", Text(s, q, e), Text(s, q, e + 1))
        BY <2>5, <3>2, <3>4, Zenon DEF IsText2
      <3> QED
        BY <3>2, <3>5, <3>6, MadeOf, Zenon
    <2>6. CASE ~(float /\ At(s, e) \in {"f", "F"})
      <3>1. Number(s, q) = Lexeme(IF float THEN "float" ELSE "int", Text(s, q, e), e)
        BY <2>4, <2>6, Zenon
      <3> QED
        BY <2>3, <3>1, MadeOf, Zenon DEF IsText2
    <2> QED
      BY <2>5, <2>6
  <1> QED
    BY <1>3, <1>4

LEMMA DirectiveMade ==
  ASSUME NEW s \in Seq(STRING), NEW q \in 1 .. Len(s), AtDirective(s, q)
  PROVE  Made(s, q, Directive(s, q))
  <1> DEFINE e == WordEnd(s, q + 1)
             f == WordEnd(s, e + 1)
             w == Word(s, q + 1)
             b == BlockNumber(s, q + 2)
  <1>0. q \in Nat \ {0} /\ q + 1 \in Nat \ {0} /\ Ahead(s, q + 1, q + 1)
    BY DEF Ahead
  <1>1. Ahead(s, q + 1, e)
    BY <1>0, AheadPast, Zenon DEF WordEnd
  <1>2. s[q] = "#"
    BY <1>0, AtIs, Zenon DEF AtDirective
  <1>3. At(s, e) = ":" => Ahead(s, q + 1, f)
    <2> SUFFICES ASSUME At(s, e) = ":" PROVE Ahead(s, q + 1, f)
      OBVIOUS
    <2>1. At(s, e) # ""
      OBVIOUS
    <2>2. Ahead(s, q + 1, e + 1)
      BY <1>0, <1>1, <2>1, AheadNext, Zenon
    <2> QED
      BY <1>0, <2>2, AheadPast, Zenon DEF WordEnd
  <1>4. Text(s, q, e) = <<"#">> \o w
    BY <1>1, <1>2, OneAndText DEF Word, Ahead
  <1>5. Text(s, q, q + 1) = <<"#">>
    BY <1>2, TextOfOne
  <1>6. "block" \notin Plain /\ "blockend" \notin Plain /\ "directive" \notin Plain
    BY DEF Plain
  <1>7. Directive(s, q) =
           IF At(s, q + 1) \in Digits THEN Lexeme("unknown", <<"#">>, q + 1)
           ELSE IF w \in Directives THEN Lexeme("directive", <<"#">> \o w, e)
           ELSE IF At(w, 1) # "q" THEN Lexeme("ident", <<"#">> \o w, e)
           ELSE IF At(s, e) # ":" THEN Lexeme("block", b, e)
           ELSE Lexeme(IF Word(s, e + 1) = <<"end">> THEN "blockend" ELSE "block", b, f)
    BY DEF Directive
  <1> HIDE DEF e, f, w, b
  <1>8. Made(s, q, Lexeme("unknown", <<"#">>, q + 1))
    BY <1>0, <1>5, MadeOf, Zenon DEF IsText2
  <1>9. Made(s, q, Lexeme("ident", <<"#">> \o w, e))
    BY <1>1, <1>4, MadeOf, Zenon DEF IsText2
  <1>10. Made(s, q, Lexeme("directive", <<"#">> \o w, e)) /\ Made(s, q, Lexeme("block", b, e))
    BY <1>1, <1>6, MadeOf, Zenon
  <1>11. At(s, e) = ":" => Made(s, q, Lexeme("block", b, f)) /\ Made(s, q, Lexeme("blockend", b, f))
    BY <1>3, <1>6, MadeOf, Zenon
  <1> QED
    BY <1>7, <1>8, <1>9, <1>10, <1>11, Zenon

LEMMA AnnotationMade ==
  ASSUME NEW s \in Seq(STRING), NEW q \in 1 .. Len(s)
  PROVE  Made(s, q, Annotation(s, q))
  <1>1. Ahead(s, q + 1, WordEnd(s, q + 1))
    BY PastIs, TextIs DEF WordEnd, Ahead
  <1>2. "annotation" \notin Plain
    BY DEF Plain
  <1> QED
    BY <1>1, <1>2, MadeOf, Zenon DEF Annotation

LEMMA IdentifierMade ==
  ASSUME NEW s \in Seq(STRING), NEW q \in 1 .. Len(s), AtWord(s, q)
  PROVE  Made(s, q, Identifier(s, q))
  <1>1. Ahead(s, q + 1, WordEnd(s, q))
    <2>1. At(s, q) = s[q]
      BY TextIs DEF At
    <2>2. s[q] \in WordAtoms
      BY <2>1 DEF AtWord, WordAtoms
    <2> QED
      BY <2>2, PastMoves DEF WordEnd, Ahead
  <1>2. keyword_type(Word(s, q)) # "string"
    BY Zenon DEF keyword_type
  <1> QED
    BY <1>1, <1>2, MadeOf, Zenon DEF Identifier, Word, IsText2

LEMMA SingleMade ==
  ASSUME NEW s \in Seq(STRING), NEW q \in 1 .. Len(s)
  PROVE  Made(s, q, Single(s, q))
  <1>1. Ahead(s, q + 1, q + 1)
    BY TextIs DEF Ahead
  <1>2. Text(s, q, q + 1) = <<s[q]>>
    BY TextOfOne
  <1> QED
    BY <1>1, <1>2, MadeOf, Zenon DEF Single, IsText2

(* What is taken at a spelling that stands at q.                           *)
LEMMA SpellingAhead ==
  ASSUME NEW s \in Seq(STRING), NEW q \in Nat \ {0}, NEW w, Spelling(w), Follows(s, q, w)
  PROVE  Ahead(s, q + 1, q + Len(w))
  BY FollowsIs, Zenon DEF Ahead

LEMMA FixedSpellings ==
  /\ Spelling(<<"cor", "/">>) /\ Len(<<"cor", "/">>) = 2
  /\ Spelling(<<"/", "Lin">>) /\ Len(<<"/", "Lin">>) = 2
  /\ Spelling(<<"distance">>)
  /\ Spelling(<<"/", "lang", "/">>) /\ Len(<<"/", "lang", "/">>) = 3
  <1>1. "cor" \in Atoms /\ "/" \in Atoms /\ "Lin" \in Atoms /\ "distance" \in Atoms /\ "lang" \in Atoms
    BY Zenon DEF Atoms
  <1> QED
    BY <1>1, Spelling1, Spelling2, Spelling3, Zenon

LEMMA PayloadSpelling ==
  ASSUME NEW c \in Payloads
  PROVE  Spelling(c) /\ c[1] \notin Plain /\ c[1] # "string"
  <1> DEFINE first == {"cr", "dam", "onl", "func", "Snd", "Bcast", "cor", "Def"}
             A == first \cup {"/", "{", ":", "anw", "("}
  <1>1. A \subseteq Atoms
    BY Zenon DEF Atoms
  <1>2. first \cap Plain = {} /\ "string" \notin first
    BY DEF Plain
  <1>3. \/ \E a \in first, b \in A : c = <<a, b>>
        \/ \E a \in first, b \in A, d \in A : c = <<a, b, d>>
        \/ \E a \in first, b \in A, d \in A, e \in A : c = <<a, b, d, e>>
    <2>1. \/ c = <<"cr", "(">> \/ c = <<"dam", "(">> \/ c = <<"onl", "(">> \/ c = <<"func", "(">>
          \/ c = <<"Snd", "{">> \/ c = <<"Bcast", "{">>
          \/ c = <<"cor", "/", "{">> \/ c = <<"Def", ":", "anw", "(">>
      BY Zenon DEF Payloads
    <2>2. /\ "cr" \in first /\ "dam" \in first /\ "onl" \in first /\ "func" \in first
          /\ "Snd" \in first /\ "Bcast" \in first /\ "cor" \in first /\ "Def" \in first
          /\ "(" \in A /\ "{" \in A /\ "/" \in A /\ ":" \in A /\ "anw" \in A
      BY Zenon
    <2> HIDE DEF first, A
    <2> QED
      BY <2>1, <2>2, Zenon
  <1>4. first \subseteq A
    OBVIOUS
  <1> HIDE DEF first, A
  <1>5. CASE \E a \in first, b \in A : c = <<a, b>>
    <2>1. PICK a \in first, b \in A : c = <<a, b>>
      BY <1>5
    <2>2. Spelling(<<a, b>>) /\ <<a, b>>[1] = a /\ a \notin Plain /\ a # "string"
      BY <1>1, <1>2, <1>4, Spelling2
    <2> QED
      BY <2>1, <2>2
  <1>6. CASE \E a \in first, b \in A, d \in A : c = <<a, b, d>>
    <2>1. PICK a \in first, b \in A, d \in A : c = <<a, b, d>>
      BY <1>6
    <2>2. Spelling(<<a, b, d>>) /\ <<a, b, d>>[1] = a /\ a \notin Plain /\ a # "string"
      BY <1>1, <1>2, <1>4, Spelling3
    <2> QED
      BY <2>1, <2>2
  <1>7. CASE \E a \in first, b \in A, d \in A, e \in A : c = <<a, b, d, e>>
    <2>1. PICK a \in first, b \in A, d \in A, e \in A : c = <<a, b, d, e>>
      BY <1>7
    <2>2. Spelling(<<a, b, d, e>>) /\ <<a, b, d, e>>[1] = a /\ a \notin Plain /\ a # "string"
      BY <1>1, <1>2, <1>4, Spelling4
    <2> QED
      BY <2>1, <2>2
  <1> QED
    BY <1>3, <1>5, <1>6, <1>7, Zenon

LEMMA OperatorSpelling ==
  ASSUME NEW k \in DOMAIN Operators
  PROVE  Spelling(Operators[k]) /\ k \in Nat
  <1> DEFINE A == {"*", "+", "-", "<", ">", "=", "&", "|", "!", "/", "%", "^", "E2", "86", "92", "90"}
             P == {<<a, b>> : a \in A, b \in A} \cup {<<a, b, c>> : a \in A, b \in A, c \in A}
  <1>1. Operators \in Seq(P) /\ DOMAIN Operators = 1 .. 26 /\ Len(Operators) = 26
    BY DEF Operators
  <1>2. A \subseteq Atoms
    BY Zenon DEF Atoms
  <1> HIDE DEF A
  <1>3. ASSUME NEW op \in P PROVE Spelling(op)
    <2>1. CASE \E a \in A, b \in A : op = <<a, b>>
      <3>1. PICK a \in A, b \in A : op = <<a, b>>
        BY <2>1
      <3>2. Spelling(<<a, b>>)
        BY <1>2, Spelling2
      <3> QED
        BY <3>1, <3>2
    <2>2. CASE \E a \in A, b \in A, c \in A : op = <<a, b, c>>
      <3>1. PICK a \in A, b \in A, c \in A : op = <<a, b, c>>
        BY <2>2
      <3>2. Spelling(<<a, b, c>>)
        BY <1>2, Spelling3
      <3> QED
        BY <3>1, <3>2
    <2> QED
      BY <2>1, <2>2
  <1> HIDE DEF P
  <1>4. Operators[k] \in P /\ k \in Nat
    <2>1. k \in 1 .. 26
      BY <1>1, Zenon
    <2>2. k \in 1 .. Len(Operators)
      BY <1>1, <2>1, Zenon
    <2>3. Operators[k] \in P
      BY <1>1, <2>2, ElementOfSeq, Zenon
    <2> QED
      BY <2>1, <2>3
  <1> QED
    BY <1>3, <1>4, Zenon

LEMMA CommandSpelling ==
  ASSUME NEW c \in Commands
  PROVE  Spelling(c)
  <1>1. SlashWords \subseteq Atoms
    BY Zenon DEF Atoms
  <1>2. /\ "Lu" \in Atoms /\ "/" \in Atoms /\ "Language" \in Atoms /\ "inq" \in Atoms
        /\ ";" \in Atoms /\ "snd" \in Atoms /\ ":" \in Atoms /\ "mes" \in Atoms
        /\ "Rec" \in Atoms /\ "Def" \in Atoms /\ "const" \in Atoms /\ "config" \in Atoms
    BY Zenon DEF Atoms
  <1>3. CASE \E w \in SlashWords : c = <<w, "/">>
    <2>1. PICK w \in SlashWords : c = <<w, "/">>
      BY <1>3
    <2>2. Spelling(<<w, "/">>)
      BY <1>1, <1>2, Spelling2, Zenon
    <2> QED
      BY <2>1, <2>2
  <1>4. CASE c \in {<<"Lu", "/", "Language">>, <<"inq", ";">>, <<"snd", ":", "mes">>,
                    <<"Rec", "/", ":">>, <<"Def", ":", "const">>, <<"Def", ":", "config">>}
    <2>1. Spelling(<<"inq", ";">>)
      BY <1>2, Spelling2, Zenon
    <2>2. /\ Spelling(<<"Lu", "/", "Language">>) /\ Spelling(<<"snd", ":", "mes">>)
          /\ Spelling(<<"Rec", "/", ":">>) /\ Spelling(<<"Def", ":", "const">>)
          /\ Spelling(<<"Def", ":", "config">>)
      BY <1>2, Spelling3, Zenon
    <2> QED
      BY <1>4, <2>1, <2>2, Zenon
  <1> QED
    BY <1>3, <1>4, Zenon DEF Commands

LEMMA OperatorMade ==
  ASSUME NEW s \in Seq(STRING), NEW q \in 1 .. Len(s), AtOperator(s, q)
  PROVE  Made(s, q, Operator(s, q))
  <1> DEFINE op == FirstOperator(s, q)
             found == {k \in DOMAIN Operators : Follows(s, q, Operators[k])}
  <1>1. PICK k \in found : \A j \in found : k <= j
    <2>1. found # {} /\ found \in SUBSET Nat
      BY OperatorSpelling, Zenon DEF AtOperator
    <2> HIDE DEF found
    <2> QED
      BY <2>1, Least, Zenon
  <1>2. \A j \in 1 .. k - 1 : ~Follows(s, q, Operators[j])
    <2> SUFFICES ASSUME NEW j \in 1 .. k - 1, Follows(s, q, Operators[j]) PROVE FALSE
      OBVIOUS
    <2>1. DOMAIN Operators = 1 .. 26
      BY DEF Operators
    <2>2. k \in 1 .. 26
      BY <1>1, <2>1, Zenon
    <2> HIDE DEF found
    <2>3. j \in 1 .. 26 /\ ~(k <= j)
      BY <2>2
    <2>4. j \in found
      BY <2>1, <2>3, Zenon DEF found
    <2> QED
      BY <1>1, <2>3, <2>4, Zenon
  <1>3. \E j \in DOMAIN Operators : /\ Follows(s, q, Operators[j])
                                    /\ \A i \in 1 .. j - 1 : ~Follows(s, q, Operators[i])
    BY <1>1, <1>2, Zenon
  <1>4. \E j \in DOMAIN Operators : op = Operators[j] /\ Follows(s, q, Operators[j])
    BY <1>3, Zenon DEF FirstOperator
  <1>5. Spelling(op) /\ Follows(s, q, op)
    BY <1>4, OperatorSpelling, Zenon
  <1>6. /\ Operator(s, q) = Lexeme(IF op = <<"E2", "86", "92">> THEN "arrow" ELSE "operator",
                                   Meaning(op), q + Len(op))
        /\ q \in Nat \ {0}
    BY DEF Operator
  <1> HIDE DEF op
  <1>7. Ahead(s, q + 1, q + Len(op)) /\ Text(s, q, q + Len(op)) = op /\ s[q] = op[1]
    BY <1>5, <1>6, SpellingAhead, FollowsText, FollowsIs, Zenon
  <1>8. CASE op = <<"E2", "86", "92">> \/ op = <<"E2", "86", "90">>
    <2>1. s[q] \in {"$", "E2"}
      BY <1>7, <1>8
    <2> QED
      BY <1>6, <1>7, <2>1, MadeOf, Zenon
  <1>9. CASE ~(op = <<"E2", "86", "92">> \/ op = <<"E2", "86", "90">>)
    <2>1. Operator(s, q) = Lexeme("operator", op, q + Len(op))
      BY <1>6, <1>9, Zenon DEF Meaning
    <2> QED
      BY <1>7, <2>1, MadeOf, Zenon DEF IsText2
  <1> QED
    BY <1>8, <1>9

LEMMA CommandMade ==
  ASSUME NEW s \in Seq(STRING), NEW q \in Nat \ {0}, AtCommand(s, q)
  PROVE  q \in 1 .. Len(s) /\ Made(s, q, Command(s, q))
  <1> DEFINE c == IF AtDistance(s, q) THEN <<"distance">> ELSE CHOOSE c \in CommandAt(s, q) : TRUE
  <1>1. Spelling(c) /\ Follows(s, q, c)
    <2>1. CASE AtDistance(s, q)
      <3>1. Spelling(<<"distance">>)
        BY FixedSpellings, Zenon
      <3>2. Follows(s, q, <<"distance">>)
        <4> DEFINE w == <<"distance">>
        <4>1. DOMAIN w = {1} /\ w[1] = "distance" /\ q + 1 - 1 = q
          OBVIOUS
        <4> HIDE DEF w
        <4>2. Follows(s, q, w)
          BY <2>1, <4>1, Zenon DEF Follows, AtDistance
        <4> QED
          BY <4>2 DEF w
      <3> QED
        BY <2>1, <3>1, <3>2, Zenon
    <2>2. CASE ~AtDistance(s, q)
      <3>1. c \in CommandAt(s, q)
        BY <2>2, Zenon DEF AtCommand
      <3> QED
        BY <3>1, CommandSpelling, Zenon DEF CommandAt
    <2> QED
      BY <2>1, <2>2
  <1>2. Command(s, q) = Lexeme("command", c, q + Len(c))
    BY DEF Command
  <1> HIDE DEF c
  <1> QED
    <2>1. /\ q \in 1 .. Len(s) /\ Ahead(s, q + 1, q + Len(c))
          /\ Text(s, q, q + Len(c)) = c
      BY <1>1, SpellingAhead, FollowsText, FollowsIs, Zenon
    <2>2. IsText2("command", c, Text(s, q, q + Len(c)))
      BY <2>1, Zenon DEF IsText2
    <2> QED
      BY <1>2, <2>1, <2>2, MadeOf, Zenon

LEMMA PayloadMade ==
  ASSUME NEW s \in Seq(STRING), NEW q \in Nat \ {0}, AtPayload(s, q)
  PROVE  q \in 1 .. Len(s) /\ Made(s, q, Payload(s, q))
  <1>1. CASE PayloadAt(s, q) = {}
    <2>1. Follows(s, q, <<"cor", "/">>) /\ Spelling(<<"cor", "/">>) /\ Len(<<"cor", "/">>) = 2
      BY <1>1, FixedSpellings, Zenon DEF AtPayload, AtCor
    <2> DEFINE w == <<"cor", "/">>
    <2> HIDE DEF w
    <2>a. Follows(s, q, w) /\ Spelling(w) /\ Len(w) = 2
      BY <2>1, Zenon DEF w
    <2>b. q \in 1 .. Len(s)
      BY <2>a, FollowsIs, Zenon
    <2>c. Ahead(s, q + 1, q + Len(w))
      BY <2>a, SpellingAhead, Zenon
    <2>2. q \in 1 .. Len(s) /\ Ahead(s, q + 1, q + 2)
      BY <2>a, <2>b, <2>c, Zenon
    <2>3. "keyword" \notin Plain
      BY DEF Plain
    <2> QED
      BY <1>1, <2>2, <2>3, MadeOf, Zenon DEF Payload
  <1>2. CASE PayloadAt(s, q) # {}
    <2> DEFINE c == CHOOSE c \in PayloadAt(s, q) : TRUE
               r == Until(s, q + Len(c), {IF c[Len(c)] = "{" THEN "}" ELSE ")"})
               after == Smaller(r, Len(s)) + 1
               lin == c[1] = "Def" /\ Follows(s, after, <<"/", "Lin">>)
    <2>1. c \in Payloads /\ Follows(s, q, c)
      BY <1>2, Zenon DEF PayloadAt
    <2>2. Payload(s, q) = Lexeme(c[1], Kept(Text(s, q + Len(c), r)), IF lin THEN after + 2 ELSE after)
      BY <1>2, Zenon DEF Payload
    <2> HIDE DEF c
    <2>3. /\ q \in 1 .. Len(s) /\ Ahead(s, q + 1, q + Len(c)) /\ c[1] \notin Plain
          /\ q + 1 \in Nat \ {0} /\ c[1] # "string"
      BY <2>1, PayloadSpelling, FollowsIs, SpellingAhead
    <2>4. Ahead(s, q + 1, r)
      BY <2>3, AheadUntil, Zenon
    <2> HIDE DEF r
    <2>5. Ahead(s, q + 1, after)
      BY <2>3, <2>4, TextIs DEF Ahead, Smaller
    <2>6. lin => Ahead(s, q + 1, after + 2)
      <3>1. Spelling(<<"/", "Lin">>) /\ Len(<<"/", "Lin">>) = 2
        BY FixedSpellings, Zenon
      <3>2. after \in Nat \ {0} /\ q + 1 <= after
        BY <2>3, <2>5, AheadNumber, Zenon
      <3> HIDE DEF after
      <3>3. lin => Ahead(s, after + 1, after + 2)
        BY <3>1, <3>2, SpellingAhead, Zenon
      <3> QED
        BY <2>3, <3>2, <3>3 DEF Ahead
    <2> HIDE DEF after, lin
    <2> QED
      BY <2>2, <2>3, <2>5, <2>6, MadeOf, Zenon
  <1> QED
    BY <1>1, <1>2

LEMMA BindingMade ==
  ASSUME NEW s \in Seq(STRING), NEW q \in Nat \ {0}, AtBinding(s, q)
  PROVE  q \in 1 .. Len(s) /\ Made(s, q, Binding(s, q))
  <1> DEFINE u == Until(s, q + 3, {"\n"})
             r == Smaller(u, q + 3 + Room)
  <1>1. /\ Follows(s, q, <<"/", "lang", "/">>) /\ Spelling(<<"/", "lang", "/">>)
        /\ Len(<<"/", "lang", "/">>) = 3
    BY FixedSpellings, Zenon DEF AtBinding
  <1> DEFINE w == <<"/", "lang", "/">>
  <1> HIDE DEF w
  <1>a. Follows(s, q, w) /\ Spelling(w) /\ Len(w) = 3
    BY <1>1, Zenon DEF w
  <1>b. q \in 1 .. Len(s)
    BY <1>a, FollowsIs, Zenon
  <1>c. Ahead(s, q + 1, q + Len(w))
    BY <1>a, SpellingAhead, Zenon
  <1>2. q \in 1 .. Len(s) /\ Ahead(s, q + 1, q + 3)
    BY <1>a, <1>b, <1>c, Zenon
  <1>3. Ahead(s, q + 3, q + 3) /\ q + 3 \in Nat \ {0}
    BY <1>2 DEF Ahead
  <1>4. Ahead(s, q + 3, u)
    BY <1>3, AheadUntil, Zenon
  <1>5. Ahead(s, q + 1, r)
    <2> HIDE DEF u
    <2> QED
      BY <1>4, RoomAssumption, TextIs DEF Ahead, Smaller
  <1>6. "binding" \notin Plain
    BY DEF Plain
  <1>7. Binding(s, q) = Lexeme("binding", Text(s, q + 3, r), r)
    BY Zenon DEF Binding
  <1> HIDE DEF u, r
  <1> QED
    BY <1>2, <1>5, <1>6, <1>7, MadeOf, Zenon

LEMMA MadeAfterDollar ==
  ASSUME NEW s \in Seq(STRING), NEW q \in Nat \ {0}, s[q] = "$", NEW l, Made(s, q + 1, l)
  PROVE  Made(s, q, l)
  <1>1. Ahead(s, q + 1, l.next)
    BY DEF Made, Ahead
  <1> QED
    BY <1>1 DEF Made

LEMMA DollarMade ==
  ASSUME NEW s \in Seq(STRING), NEW q \in 1 .. Len(s), AtDollar(s, q)
  PROVE  Made(s, q, Dollar(s, q))
  <1>1. q \in Nat \ {0} /\ q + 1 \in Nat \ {0}
    OBVIOUS
  <1>2. s[q] = "$"
    BY <1>1, AtIs, Zenon DEF AtDollar
  <1>3. AtCommand(s, q + 1) => Made(s, q, Command(s, q + 1))
    BY <1>1, <1>2, CommandMade, MadeAfterDollar, Zenon
  <1>4. AtPayload(s, q + 1) => Made(s, q, Payload(s, q + 1))
    BY <1>1, <1>2, PayloadMade, MadeAfterDollar, Zenon
  <1>5. AtBinding(s, q + 1) => Made(s, q, Binding(s, q + 1))
    BY <1>1, <1>2, BindingMade, MadeAfterDollar, Zenon
  <1>6. Made(s, q, Lexeme("unknown", <<"$">>, Smaller(q + 2, Len(s) + 1)))
    <2>1. Ahead(s, q + 1, Smaller(q + 2, Len(s) + 1))
      BY TextIs DEF Ahead, Smaller
    <2> QED
      BY <1>2, <2>1, MadeOf
  <1> QED
    BY <1>3, <1>4, <1>5, <1>6, Zenon DEF Dollar

LEMMA LexemeAtMade ==
  ASSUME NEW s \in Seq(STRING), NEW q \in 1 .. Len(s)
  PROVE  Made(s, q, LexemeAt(s, q))
  <1>1. q \in Nat \ {0}
    OBVIOUS
  <1> QED
    BY <1>1, DollarMade, NumberMade, DirectiveMade, AnnotationMade, OperatorMade, CommandMade,
       PayloadMade, BindingMade, IdentifierMade, SingleMade, Zenon DEF LexemeAt

-----------------------------------------------------------------------------
(* Comments and strings read on too.                                       *)
LEMMA LineCommentAhead ==
  ASSUME NEW s \in Seq(STRING), NEW q \in Nat \ {0}, AtLineComment(s, q)
  PROVE  q \in 1 .. Len(s) /\ Ahead(s, q + 1, LineCommentEnd(s, q))
  <1>1. Spelling(<<"/", "/">>) /\ <<"/", "/">>[1] = "/"
    <2>1. "/" \in Atoms
      BY Zenon DEF Atoms
    <2> QED
      BY <2>1, Spelling2, Zenon
  <1>2. q \in 1 .. Len(s) /\ s[q] = "/"
    BY <1>1, FollowsIs, Zenon DEF AtLineComment
  <1>3. s[q] \notin {"\n"}
    BY <1>2, Zenon
  <1>4. Until(s, q, {"\n"}) \in q + 1 .. Len(s) + 1
    BY <1>2, <1>3, UntilMoves, Zenon
  <1> QED
    BY <1>2, <1>4, Zenon DEF LineCommentEnd, Ahead

LEMMA BlockCommentAhead ==
  ASSUME NEW s \in Seq(STRING), NEW q \in Nat \ {0}, AtBlockComment(s, q)
  PROVE  q \in 1 .. Len(s) /\ Ahead(s, q + 1, BlockCommentEnd(s, q))
  <1> DEFINE closing == {r \in q + 2 .. Len(s) - 1 : Follows(s, r, <<"*", "/">>)}
             least == CHOOSE r \in closing : \A x \in closing : r <= x
  <1>1. q \in 1 .. Len(s)
    <2>1. "/" \in Atoms /\ "*" \in Atoms
      BY Zenon DEF Atoms
    <2> QED
      BY <2>1, Spelling2, FollowsIs, Zenon DEF AtBlockComment
  <1>2. BlockCommentEnd(s, q) = IF closing = {} THEN Len(s) + 1 ELSE least + 2
    BY Zenon DEF BlockCommentEnd
  <1>3. closing \subseteq q + 2 .. Len(s) - 1
    BY Zenon
  <1> HIDE DEF closing
  <1>4. closing # {} => least \in closing
    <2>1. closing \in SUBSET Nat
      BY <1>3, TextIs
    <2>2. closing # {} => \E r \in closing : \A x \in closing : r <= x
      BY <2>1, Least, Zenon
    <2> QED
      BY <2>2, Zenon
  <1> HIDE DEF least
  <1>5. closing # {} => least \in q + 2 .. Len(s) - 1
    BY <1>3, <1>4, Zenon
  <1> QED
    BY <1>1, <1>2, <1>5, TextIs DEF Ahead

(* What opens a string and what closes it.                                 *)
Openers == {<<"\"">>, <<"'">>, <<"\"", "\"", "\"">>, <<"C2", "AB">>}

LEMMA OpenersSpelled ==
  ASSUME NEW w \in Openers
  PROVE  /\ Spelling(w) /\ Spelling(Closer(w))
         /\ Len(w) \in Nat \ {0} /\ Len(Closer(w)) = Len(w)
  <1>1. "\"" \in Atoms /\ "'" \in Atoms /\ "C2" \in Atoms /\ "AB" \in Atoms /\ "BB" \in Atoms
    BY Zenon DEF Atoms
  <1>2. /\ Spelling(<<"\"">>) /\ Len(<<"\"">>) = 1 /\ Spelling(<<"'">>) /\ Len(<<"'">>) = 1
        /\ Spelling(<<"\"", "\"", "\"">>) /\ Len(<<"\"", "\"", "\"">>) = 3
        /\ Spelling(<<"C2", "AB">>) /\ Len(<<"C2", "AB">>) = 2
        /\ Spelling(<<"C2", "BB">>) /\ Len(<<"C2", "BB">>) = 2
    BY <1>1, Spelling1, Spelling2, Spelling3, Zenon
  <1>3. Spelling(w) /\ Len(w) \in {1, 2, 3}
    BY <1>2, Zenon DEF Openers
  <1>4. Len(w) \in Nat \ {0}
    BY <1>3
  <1>5. CASE w = <<"C2", "AB">>
    <2>1. Closer(w) = <<"C2", "BB">>
      BY <1>5, Zenon DEF Closer
    <2>2. Spelling(Closer(w)) /\ Len(Closer(w)) = 2 /\ Len(w) = 2
      BY <1>2, <1>5, <2>1
    <2> QED
      BY <1>3, <1>4, <2>2, Zenon
  <1>6. CASE w # <<"C2", "AB">>
    <2>1. Closer(w) = w
      BY <1>6, Zenon DEF Closer
    <2> QED
      BY <1>3, <1>4, <2>1
  <1> QED
    BY <1>5, <1>6

LEMMA OpenerIs ==
  ASSUME NEW s \in Seq(STRING), NEW q \in Nat \ {0}, AtString(s, q)
  PROVE  /\ q \in 1 .. Len(s) /\ s[q] \in {"\"", "'", "C2"}
         /\ Opener(s, q) \in Openers /\ Ahead(s, q + 1, q + Len(Opener(s, q)))
  <1>1. /\ Spelling(<<"\"", "\"", "\"">>) /\ Spelling(<<"C2", "AB">>)
        /\ <<"\"", "\"", "\"">>[1] = "\"" /\ <<"C2", "AB">>[1] = "C2"
    <2>1. "\"" \in Atoms /\ "C2" \in Atoms /\ "AB" \in Atoms
      BY Zenon DEF Atoms
    <2> QED
      BY <2>1, Spelling2, Spelling3, Zenon
  <1>2. q \in 1 .. Len(s) /\ s[q] \in {"\"", "'", "C2"}
    <2>1. CASE At(s, q) \in {"\"", "'"}
      <3>1. At(s, q) # ""
        BY <2>1, Zenon
      <3> QED
        BY <2>1, <3>1, AtIs, Zenon
    <2>2. CASE Follows(s, q, <<"C2", "AB">>)
      BY <1>1, <2>2, FollowsIs, Zenon
    <2> QED
      BY <2>1, <2>2, Zenon DEF AtString
  <1>3. At(s, q) = s[q]
    BY <1>2, TextIs, Zenon DEF At
  <1>4. CASE Follows(s, q, <<"\"", "\"", "\"">>)
    <2>1. Opener(s, q) = <<"\"", "\"", "\"">>
      BY <1>4, Zenon DEF Opener
    <2> QED
      BY <1>1, <1>2, <1>4, <2>1, SpellingAhead, Zenon DEF Openers
  <1>5. CASE ~Follows(s, q, <<"\"", "\"", "\"">>) /\ s[q] = "C2"
    <2>1. Opener(s, q) = <<"C2", "AB">> /\ Follows(s, q, <<"C2", "AB">>)
      BY <1>3, <1>5, Zenon DEF Opener, AtString
    <2> QED
      BY <1>1, <1>2, <2>1, SpellingAhead, Zenon DEF Openers
  <1>6. CASE ~Follows(s, q, <<"\"", "\"", "\"">>) /\ s[q] # "C2"
    <2>1. Opener(s, q) = <<s[q]>> /\ s[q] \in {"\"", "'"}
      BY <1>2, <1>3, <1>6, Zenon DEF Opener
    <2>2. Opener(s, q) \in Openers
      BY <2>1, Zenon DEF Openers
    <2>3. Len(Opener(s, q)) = 1
      <3>1. \A x : Len(<<x>>) = 1
        OBVIOUS
      <3> QED
        BY <2>1, <3>1, Zenon
    <2>4. Ahead(s, q + 1, q + 1)
      BY <1>2, AheadOne, Zenon
    <2> QED
      BY <1>2, <2>2, <2>3, <2>4, Zenon
  <1> QED
    BY <1>4, <1>5, <1>6, Zenon

(* The place of the delimiter of a string that begins at q, and of its     *)
(* first character.                                                        *)
QuoteOf(s, q) == IF s[q] \in {"f", "$"} THEN q + 1 ELSE q
FirstOf(s, q) == QuoteOf(s, q) + Len(Opener(s, QuoteOf(s, q)))
Opens(s, q, r) == \/ AtString(s, q) /\ r = q
                  \/ AtFString(s, q) /\ r = q + 1
                  \/ AtTemplate(s, q) /\ r = q + 1

LEMMA OpensIs ==
  ASSUME NEW s \in Seq(STRING), NEW q \in Nat \ {0}, NEW r, Opens(s, q, r)
  PROVE  /\ r = QuoteOf(s, q) /\ q \in 1 .. Len(s)
         /\ Opener(s, r) \in Openers /\ Ahead(s, q + 1, r + Len(Opener(s, r)))
  <1>1. q + 1 \in Nat \ {0}
    OBVIOUS
  <1>2. CASE AtString(s, q) /\ r = q
    <2>1. s[q] \notin {"f", "$"}
      BY <1>2, OpenerIs, Zenon
    <2> QED
      BY <1>2, <2>1, OpenerIs, Zenon DEF QuoteOf
  <1>3. ASSUME AtString(s, q + 1), r = q + 1, At(s, q) \in {"f", "$"}
        PROVE  /\ r = QuoteOf(s, q) /\ q \in 1 .. Len(s)
               /\ Opener(s, r) \in Openers /\ Ahead(s, q + 1, r + Len(Opener(s, r)))
    <2>1. At(s, q) # ""
      BY <1>3, Zenon
    <2>2. q \in 1 .. Len(s) /\ s[q] \in {"f", "$"}
      BY <1>3, <2>1, AtIs, Zenon
    <2>3. Opener(s, r) \in Openers /\ Ahead(s, r + 1, r + Len(Opener(s, r)))
      BY <1>1, <1>3, OpenerIs, Zenon
    <2>4. Ahead(s, q + 1, r + Len(Opener(s, r)))
      BY <1>3, <2>3 DEF Ahead
    <2> QED
      BY <1>3, <2>2, <2>3, <2>4, Zenon DEF QuoteOf
  <1>4. CASE AtFString(s, q) /\ r = q + 1
    BY <1>3, <1>4, Zenon DEF AtFString
  <1>5. CASE AtTemplate(s, q) /\ r = q + 1
    <2> DEFINE w == <<"$", "C2", "AB">>
               v == <<"C2", "AB">>
    <2>1. /\ DOMAIN w = 1 .. 3 /\ DOMAIN v = 1 .. 2 /\ w[1] = "$"
          /\ v[1] = w[2] /\ v[2] = w[3]
      OBVIOUS
    <2> HIDE DEF w, v
    <2>2. \A k \in 1 .. 3 : At(s, q + k - 1) = w[k]
      BY <1>5, <2>1, Zenon DEF AtTemplate, Follows, w
    <2>3. At(s, q) = "$" /\ At(s, q + 1) = w[2] /\ At(s, q + 2) = w[3]
      <3>1. q + 1 - 1 = q /\ q + 2 - 1 = q + 1 /\ q + 3 - 1 = q + 2
        OBVIOUS
      <3>2. 1 \in 1 .. 3 /\ 2 \in 1 .. 3 /\ 3 \in 1 .. 3
        OBVIOUS
      <3> QED
        BY <2>1, <2>2, <3>1, <3>2, Zenon
    <2>4. \A k \in 1 .. 2 : At(s, (q + 1) + k - 1) = v[k]
      <3>1. \A k \in 1 .. 2 : k = 1 \/ k = 2
        OBVIOUS
      <3>2. (q + 1) + 1 - 1 = q + 1 /\ (q + 1) + 2 - 1 = q + 2
        OBVIOUS
      <3> QED
        BY <2>1, <2>3, <3>1, <3>2, Zenon
    <2>5. AtString(s, q + 1)
      BY <2>1, <2>4, Zenon DEF AtString, Follows, v
    <2> QED
      BY <1>3, <1>5, <2>3, <2>5, Zenon
  <1> QED
    BY <1>2, <1>4, <1>5, Zenon DEF Opens

-----------------------------------------------------------------------------
(* A sequence, whatever it holds.                                          *)
SomeSeq(f) == f \in Seq({f[k] : k \in DOMAIN f})

LEMMA AppendSome ==
  ASSUME NEW f, SomeSeq(f), NEW x
  PROVE  /\ SomeSeq(Append(f, x))
         /\ Len(f) \in Nat /\ DOMAIN f = 1 .. Len(f)
         /\ Len(Append(f, x)) = Len(f) + 1 /\ DOMAIN Append(f, x) = 1 .. Len(f) + 1
         /\ \A k \in 1 .. Len(f) : Append(f, x)[k] = f[k]
         /\ Append(f, x)[Len(f) + 1] = x
  <1> DEFINE S == {f[k] : k \in DOMAIN f} \cup {x}
             g == Append(f, x)
  <1>1. f \in Seq(S)
    BY DEF SomeSeq
  <1> HIDE DEF S
  <1>2. /\ g \in Seq(S) /\ Len(f) \in Nat /\ DOMAIN f = 1 .. Len(f)
        /\ Len(g) = Len(f) + 1 /\ DOMAIN g = 1 .. Len(f) + 1
        /\ \A k \in 1 .. Len(f) : g[k] = f[k]
        /\ g[Len(f) + 1] = x
    <2>1. x \in S
      BY DEF S
    <2> QED
      BY <1>1, <2>1
  <1> HIDE DEF g
  <1>3. SomeSeq(g)
    BY <1>2 DEF SomeSeq
  <1> QED
    BY <1>2, <1>3 DEF g

(* What the rest of the proofs takes for granted.                          *)
TypeInv ==
  /\ src \in Seq(STRING)
  /\ pos \in 1 .. Len(src) + 1
  /\ SomeSeq(toks)
  /\ Reading => str.opener \in Openers

LEMMA InitType == Init => TypeInv
  <1> SUFFICES ASSUME Init PROVE TypeInv
    OBVIOUS
  <1>1. PICK t \in Texts : \E n \in 0 .. t.upTo : src \in [1 .. n -> t.atoms]
    BY Zenon DEF Init
  <1>2. t.atoms \subseteq STRING /\ t.upTo \in Nat
    BY TextsAssumption
  <1>3. PICK n \in 0 .. t.upTo : src \in [1 .. n -> t.atoms]
    BY <1>1
  <1>4. src \in Seq(STRING) /\ Len(src) \in Nat
    BY <1>2, <1>3
  <1>5. SomeSeq(<<>>)
    BY DEF SomeSeq
  <1>6. pos = 1 /\ toks = <<>> /\ ~Reading
    BY Zenon DEF Init, Reading
  <1>7. pos \in 1 .. Len(src) + 1
    BY <1>4, <1>6
  <1> QED
    BY <1>4, <1>5, <1>6, <1>7, Zenon DEF TypeInv

LEMMA HeadIs ==
  ASSUME TypeInv
  PROVE  /\ p \in Nat \ {0} /\ Ahead(src, pos, p) /\ pos \in Nat \ {0} /\ Len(src) \in Nat
         /\ p <= Len(src) => p \in 1 .. Len(src)
         /\ p > Len(src) => p = Len(src) + 1
  <1>1. src \in Seq(STRING) /\ pos \in 1 .. Len(src) + 1 /\ Len(src) \in Nat
    BY TextIs DEF TypeInv
  <1>2. pos \in Nat \ {0} /\ Ahead(src, pos, pos)
    BY <1>1 DEF Ahead
  <1>3. Ahead(src, pos, p)
    BY <1>1, <1>2, AheadPast, Zenon DEF p
  <1> HIDE DEF p
  <1> QED
    BY <1>1, <1>2, <1>3 DEF Ahead

(* A step reads from where the lexer stands to a later place q, or adds    *)
(* the token that ends a string or the text.                               *)
Reads(q) == /\ Ahead(src, pos + 1, q)
            /\ AdvanceTo(q)
AtEnd == /\ pos = Len(src) + 1
         /\ Len(toks') = Len(toks) + 1

(* From the head of the loop a step reads to any place after it.           *)
LEMMA HeadReads ==
  ASSUME TypeInv, NEW q, Ahead(src, p + 1, q), AdvanceTo(q)
  PROVE  Reads(q)
  <1>1. p \in Nat /\ Ahead(src, pos, p) /\ pos \in Nat
    BY HeadIs
  <1> HIDE DEF p
  <1>2. Ahead(src, pos + 1, q)
    BY <1>1 DEF Ahead
  <1> QED
    BY <1>2, Zenon DEF Reads

LEMMA CommentReads ==
  ASSUME TypeInv, Comment
  PROVE  \E q : Reads(q)
  <1>1. p \in Nat \ {0} /\ src \in Seq(STRING)
    BY HeadIs, Zenon DEF TypeInv
  <1>2. CASE AtLineComment(src, p) /\ AdvanceTo(LineCommentEnd(src, p))
    BY <1>1, <1>2, LineCommentAhead, HeadReads, Zenon
  <1>3. CASE AtBlockComment(src, p) /\ AdvanceTo(BlockCommentEnd(src, p))
    BY <1>1, <1>3, BlockCommentAhead, HeadReads, Zenon
  <1> QED
    BY <1>2, <1>3, Zenon DEF Comment

(* The three ways to begin a string as one.                                *)
LEMMA OpenStringIs ==
  ASSUME TypeInv, OpenString
  PROVE  \E mark, r : /\ Opens(src, p, r) /\ Open(mark, r)
                      /\ r = QuoteOf(src, p) /\ p \in 1 .. Len(src)
                      /\ Opener(src, r) \in Openers /\ Ahead(src, p + 1, r + Len(Opener(src, r)))
  <1>1. \E mark, r : Opens(src, p, r) /\ Open(mark, r)
    BY Zenon DEF OpenString, Opens
  <1>2. p \in Nat \ {0} /\ src \in Seq(STRING)
    BY HeadIs, Zenon DEF TypeInv
  <1> QED
    BY <1>1, <1>2, OpensIs, Zenon

LEMMA OpenReads ==
  ASSUME TypeInv, OpenString
  PROVE  \E q : Reads(q)
  <1>1. PICK mark, r : Open(mark, r) /\ Ahead(src, p + 1, r + Len(Opener(src, r)))
    BY OpenStringIs, Zenon
  <1> QED
    BY <1>1, HeadReads, Zenon DEF Open

LEMMA TakeReads ==
  ASSUME TypeInv, NEW l, Take(l)
  PROVE  /\ Ahead(src, p + 1, l.next) => Reads(l.next)
         /\ Len(toks') = Len(toks) + 1
  <1>1. AdvanceTo(l.next) /\ \E t : toks' = Append(toks, t)
    BY Zenon DEF Take, Add
  <1>2. Len(toks') = Len(toks) + 1
    BY <1>1, AppendSome, Zenon DEF TypeInv
  <1> QED
    BY <1>1, <1>2, HeadReads, Zenon

LEMMA NewLineReads ==
  ASSUME TypeInv, NewLine
  PROVE  \E q : Reads(q)
  <1> DEFINE l == Lexeme("newline", <<"\n">>, p + 1)
  <1>1. p \in Nat \ {0} /\ src \in Seq(STRING)
    BY HeadIs, Zenon DEF TypeInv
  <1>2. At(src, p) # ""
    BY Zenon DEF NewLine
  <1>3. p \in 1 .. Len(src)
    BY <1>1, <1>2, AtIs, Zenon
  <1>4. Ahead(src, p + 1, p + 1)
    BY <1>1, <1>3, AheadOne, Zenon
  <1>5. Take(l) /\ l.next = p + 1
    <2>1. Take(l)
      BY Zenon DEF NewLine
    <2>2. l.next = p + 1
      BY Fields
    <2> QED
      BY <2>1, <2>2
  <1> HIDE DEF l
  <1> QED
    BY <1>4, <1>5, TakeReads, Zenon

LEMMA LexemeReads ==
  ASSUME TypeInv, ReadLexeme
  PROVE  Made(src, p, LexemeAt(src, p)) /\ Reads(LexemeAt(src, p).next)
  <1>1. p \in 1 .. Len(src) /\ src \in Seq(STRING)
    BY HeadIs, Zenon DEF TypeInv, ReadLexeme
  <1>2. Made(src, p, LexemeAt(src, p))
    BY <1>1, LexemeAtMade, Zenon
  <1> QED
    BY <1>2, TakeReads, Zenon DEF Made, ReadLexeme

LEMMA EndReads ==
  ASSUME TypeInv, EndOfSource
  PROVE  Reads(Len(src) + 1) \/ AtEnd
  <1> DEFINE l == Lexeme("eof", <<>>, p)
  <1>1. /\ p = Len(src) + 1 /\ Ahead(src, pos, p) /\ pos \in Nat
        /\ Len(src) \in Nat
    BY HeadIs, Zenon DEF EndOfSource
  <1>2. Take(l) /\ l.next = p
    <2>1. Take(l)
      BY Zenon DEF EndOfSource
    <2>2. l.next = p
      BY Fields
    <2> QED
      BY <2>1, <2>2
  <1> HIDE DEF l
  <1>3. AdvanceTo(Len(src) + 1) /\ Len(toks') = Len(toks) + 1
    BY <1>1, <1>2, TakeReads, Zenon DEF Take
  <1>4. pos = Len(src) + 1 \/ Ahead(src, pos + 1, Len(src) + 1)
    BY <1>1 DEF Ahead
  <1> QED
    BY <1>3, <1>4, Zenon DEF Reads, AtEnd

LEMMA StringEndsAdds ==
  ASSUME TypeInv, NEW buf, NEW q, StringEnds(buf, q)
  PROVE  Len(toks') = Len(toks) + 1 /\ SomeSeq(toks') /\ str' = NoString
  <1>1. PICK t : toks' = Append(toks, t)
    BY Zenon DEF StringEnds, Add
  <1>2. SomeSeq(Append(toks, t)) /\ Len(Append(toks, t)) = Len(toks) + 1
    BY AppendSome, Zenon DEF TypeInv
  <1>3. str' = NoString
    BY Zenon DEF StringEnds
  <1> QED
    BY <1>1, <1>2, <1>3

(* The next character of a string, and the one after it if this one is a   *)
(* backslash.                                                              *)
KeptTo == IF src[pos] = "\\" THEN Smaller(pos + 2, Len(src) + 1) ELSE pos + 1
KeptBuf == str.buf \o IF src[pos] = "\\" THEN Unescaped(At(src, pos + 1)) ELSE <<src[pos]>>

LEMMA KeepIs ==
  ASSUME TypeInv, Keep
  PROVE  /\ Reading /\ pos \in 1 .. Len(src) /\ ~Follows(src, pos, Closer(str.opener))
         /\ Reads(KeptTo)
         /\ IF Len(KeptBuf) >= Cap THEN StringEnds(KeptBuf, KeptTo)
            ELSE str' = [str EXCEPT !.buf = KeptBuf] /\ UNCHANGED toks
         /\ UNCHANGED src
  <1>1. /\ Reading /\ pos <= Len(src) /\ ~Follows(src, pos, Closer(str.opener))
        /\ AdvanceTo(KeptTo)
        /\ IF Len(KeptBuf) >= Cap THEN StringEnds(KeptBuf, KeptTo)
           ELSE str' = [str EXCEPT !.buf = KeptBuf] /\ UNCHANGED toks
        /\ UNCHANGED src
    BY Zenon DEF Keep, KeptTo, KeptBuf
  <1>2. pos \in 1 .. Len(src) /\ Len(src) \in Nat
    BY <1>1, TextIs DEF TypeInv
  <1>3. Ahead(src, pos + 1, KeptTo)
    BY <1>2 DEF Ahead, KeptTo, Smaller
  <1> QED
    BY <1>1, <1>2, <1>3, Zenon DEF Reads

LEMMA CloseIs ==
  ASSUME TypeInv, Close
  PROVE  \/ pos = Len(src) + 1 /\ StringEnds(str.buf, pos) /\ AtEnd /\ UNCHANGED <<pos, line, col>>
         \/ /\ Follows(src, pos, Closer(str.opener))
            /\ StringEnds(str.buf, pos + Len(str.opener))
            /\ Reads(pos + Len(str.opener))
  <1>1. src \in Seq(STRING) /\ pos \in Nat \ {0} /\ str.opener \in Openers
    BY HeadIs, Zenon DEF TypeInv, Close
  <1>2. CASE pos > Len(src) /\ StringEnds(str.buf, pos) /\ UNCHANGED <<pos, line, col>>
    <2>1. pos = Len(src) + 1
      BY <1>2, TextIs DEF TypeInv
    <2> QED
      BY <1>2, <2>1, StringEndsAdds, Zenon DEF AtEnd
  <1>3. CASE /\ Follows(src, pos, Closer(str.opener))
             /\ StringEnds(str.buf, pos + Len(str.opener))
             /\ AdvanceTo(pos + Len(str.opener))
    <2>1. Ahead(src, pos + 1, pos + Len(Closer(str.opener))) /\ Len(Closer(str.opener)) = Len(str.opener)
      BY <1>1, <1>3, OpenersSpelled, SpellingAhead, Zenon
    <2> QED
      BY <1>3, <2>1, Zenon DEF Reads
  <1> QED
    BY <1>2, <1>3, Zenon DEF Close

(* A step is one of these, as far as the proofs tell them apart.           *)
LEMMA StepIs ==
  ASSUME TypeInv, Next
  PROVE  \/ (\E q : Reads(q)) \/ AtEnd \/ UNCHANGED vars
  BY CommentReads, OpenReads, NewLineReads, LexemeReads, EndReads, KeepIs, CloseIs, Zenon DEF Next

LEMMA TypeKept ==
  ASSUME TypeInv, [Next]_vars
  PROVE  TypeInv'
  <1>1. src' = src
    BY Zenon DEF Next, Comment, NewLine, OpenString, Open, Keep, Close, ReadLexeme, EndOfSource,
                 Take, vars
  <1>2. pos' \in 1 .. Len(src) + 1
    <2>1. \A q : Reads(q) => pos' = q /\ q \in pos + 1 .. Len(src) + 1
      BY Zenon DEF Reads, AdvanceTo, Ahead
    <2>2. pos' = pos \/ pos' \in pos + 1 .. Len(src) + 1
      <3>1. CASE Next
        <4>1. CASE Close
          BY <2>1, <4>1, CloseIs, Zenon
        <4>2. CASE EndOfSource
          <5>1. Len(src) + 1 = p /\ pos' = p
            BY <4>2, HeadIs, Zenon DEF EndOfSource, Take, AdvanceTo, Lexeme
          <5>2. pos \in Nat /\ Ahead(src, pos, p)
            BY HeadIs
          <5> HIDE DEF p
          <5> QED
            BY <5>1, <5>2 DEF Ahead
        <4> QED
          BY <2>1, <3>1, <4>1, <4>2, CommentReads, OpenReads, NewLineReads, LexemeReads, KeepIs, Zenon
             DEF Next, vars
      <3> QED
        BY <3>1, Zenon DEF vars
    <2>3. pos \in 1 .. Len(src) + 1
      BY DEF TypeInv
    <2> QED
      BY <2>2, <2>3
  <1>3. SomeSeq(toks')
    <2>1. toks' = toks \/ \E t : toks' = Append(toks, t)
      BY Zenon DEF Next, Comment, NewLine, OpenString, Open, Keep, Close, ReadLexeme, EndOfSource,
                   Take, Add, StringEnds, vars
    <2>2. CASE \E t : toks' = Append(toks, t)
      <3>1. PICK t : toks' = Append(toks, t)
        BY <2>2
      <3> QED
        BY <3>1, AppendSome DEF TypeInv
    <2> QED
      BY <2>1, <2>2 DEF TypeInv
  <1>4. Reading' => str'.opener \in Openers
    <2> SUFFICES ASSUME Reading' PROVE str'.opener \in Openers
      OBVIOUS
    <2>1. CASE OpenString
      <3>1. PICK mark, r : Open(mark, r) /\ Opener(src, r) \in Openers
        BY <2>1, OpenStringIs, Zenon
      <3>2. str'.opener = Opener(src, r)
        BY <3>1 DEF Open
      <3> QED
        BY <3>1, <3>2
    <2>2. CASE Keep
      <3>1. str' # NoString
        BY Zenon DEF Reading
      <3>2. str' = [str EXCEPT !.buf = KeptBuf] /\ str.opener \in Openers
        BY <2>2, <3>1, KeepIs, Zenon DEF StringEnds, TypeInv
      <3> HIDE DEF KeptBuf
      <3>3. str'.opener = str.opener
        BY <3>2
      <3> QED
        BY <3>2, <3>3
    <2>3. CASE Close
      BY <2>3, Zenon DEF Close, StringEnds, Reading
    <2>4. CASE UNCHANGED str
      BY <2>4, Zenon DEF TypeInv, Reading
    <2> QED
      BY <2>1, <2>2, <2>3, <2>4, Zenon
         DEF Next, Comment, NewLine, ReadLexeme, EndOfSource, Take, vars
  <1> QED
    BY <1>1, <1>2, <1>3, <1>4, Zenon DEF TypeInv

THEOREM TypeCorrect == Spec => []TypeInv
  <1>1. Init => TypeInv
    BY InitType
  <1>2. TypeInv /\ [Next]_vars => TypeInv'
    BY TypeKept
  <1> QED
    BY <1>1, <1>2, PTL DEF Spec

(* No round of the lexer's loops stands still: the action property that    *)
(* gives lexer_tokenize() its termination.                                 *)
THEOREM EveryRound == Spec => EveryRoundReads
  <1>1. ASSUME TypeInv, Next, vars' # vars
        PROVE  pos' > pos \/ (pos = Len(src) + 1 /\ Len(toks') = Len(toks) + 1)
    <2>1. CASE \E q : Reads(q)
      <3>1. PICK q : pos' = q /\ q \in pos + 1 .. Len(src) + 1
        BY <2>1, Zenon DEF Reads, AdvanceTo, Ahead
      <3>2. pos \in Int
        BY HeadIs, <1>1
      <3> QED
        BY <3>1, <3>2
    <2> QED
      BY <1>1, <2>1, StepIs, Zenon DEF AtEnd
  <1>2. TypeInv /\ [Next]_vars
          => [\/ pos' > pos
              \/ pos = Len(src) + 1 /\ Len(toks') = Len(toks) + 1]_vars
    BY <1>1, Zenon
  <1> QED
    BY <1>2, TypeCorrect, PTL DEF Spec, EveryRoundReads

-----------------------------------------------------------------------------
(* Line l and column c are the place of the position q in the text s.      *)
Before(s, q) == {j \in 1 .. q - 1 : s[j] = "\n"}
PlaceAt(s, q, l, c) ==
  /\ l = Cardinality(Before(s, q)) + 1
  /\ \E j \in Before(s, q) \cup {0} : /\ c = q - j
                                      /\ \A i \in Before(s, q) : i <= j

PlaceInv ==
  /\ PlaceAt(src, pos, line, col)
  /\ Reading => PlaceAt(src, str.from, str.line, str.col)
  /\ \A k \in DOMAIN toks : PlaceAt(src, toks[k].from, toks[k].line, toks[k].col)

(* What advance() passes is what comes to stand before the position.       *)
LEMMA BeforeSplit ==
  ASSUME NEW s \in Seq(STRING), NEW a \in 1 .. Len(s) + 1, NEW b \in a .. Len(s) + 1
  PROVE  LET N == {k \in a .. b - 1 : At(s, k) = "\n"}
         IN  /\ Before(s, b) = Before(s, a) \cup N /\ Before(s, a) \cap N = {}
             /\ IsFiniteSet(Before(s, a)) /\ IsFiniteSet(N)
             /\ N \subseteq a .. b - 1
  <1> DEFINE N == {k \in a .. b - 1 : At(s, k) = "\n"}
  <1>1. Len(s) \in Nat /\ DOMAIN s = 1 .. Len(s) /\ a \in Nat /\ b \in Nat
    BY TextIs
  <1>2. N = {k \in a .. b - 1 : s[k] = "\n"}
    <2>1. \A k \in a .. b - 1 : k \in 1 .. Len(s)
      BY <1>1
    <2>2. \A k \in a .. b - 1 : At(s, k) = s[k]
      BY <1>1, <2>1, Zenon DEF At
    <2> QED
      BY <2>2, Zenon
  <1>3. Before(s, b) = Before(s, a) \cup N /\ Before(s, a) \cap N = {}
    <2>1. /\ \A k : k \in 1 .. b - 1 <=> k \in 1 .. a - 1 \/ k \in a .. b - 1
          /\ \A k : ~(k \in 1 .. a - 1 /\ k \in a .. b - 1)
      BY <1>1
    <2> QED
      BY <1>2, <2>1, Zenon DEF Before
  <1>4. IsFiniteSet(1 .. a - 1) /\ IsFiniteSet(a .. b - 1)
    <2>1. 1 \in Int /\ a \in Int /\ a - 1 \in Int /\ b - 1 \in Int
      BY <1>1
    <2> QED
      BY <2>1, FS_Interval, Zenon
  <1>5. Before(s, a) \subseteq 1 .. a - 1 /\ N \subseteq a .. b - 1
    BY DEF Before
  <1>6. IsFiniteSet(Before(s, a)) /\ IsFiniteSet(N)
    BY <1>4, <1>5, FS_Subset, Zenon
  <1> QED
    BY <1>3, <1>5, <1>6, Zenon

LEMMA Move ==
  ASSUME TypeInv, PlaceAt(src, pos, line, col), NEW q, Ahead(src, pos, q)
  PROVE  PlaceAt(src, q, LineAt(q), ColAt(q))
  <1> DEFINE A == Before(src, pos)
             B == Before(src, q)
             N == NewLines(pos, q)
  <1>1. /\ src \in Seq(STRING) /\ pos \in 1 .. Len(src) + 1 /\ q \in pos .. Len(src) + 1
        /\ Len(src) \in Nat /\ pos \in Nat /\ q \in Nat
    BY TextIs DEF TypeInv, Ahead
  <1>2. B = A \cup N /\ A \cap N = {} /\ IsFiniteSet(A) /\ IsFiniteSet(N) /\ N \subseteq pos .. q - 1
    BY <1>1, BeforeSplit, Zenon DEF NewLines
  <1>3. A \subseteq 1 .. pos - 1 /\ B \subseteq 1 .. q - 1
    BY DEF Before
  <1>4. line = Cardinality(A) + 1 /\ \E j \in A \cup {0} : col = pos - j /\ \A i \in A : i <= j
    BY Zenon DEF PlaceAt
  <1>5. LineAt(q) = line + Cardinality(N)
    BY Zenon DEF LineAt
  <1>6. ColAt(q) = IF N = {} THEN col + (q - pos)
                   ELSE q - CHOOSE k \in N : NewLines(k + 1, q) = {}
    BY Zenon DEF ColAt
  <1>7. \A k \in N : N \cap (k + 1 .. q - 1) = NewLines(k + 1, q)
    <2> SUFFICES ASSUME NEW k \in N PROVE N \cap (k + 1 .. q - 1) = NewLines(k + 1, q)
      OBVIOUS
    <2>1. k \in pos .. q - 1
      BY <1>2
    <2> HIDE DEF N
    <2>2. \A i : i \in k + 1 .. q - 1 => i \in pos .. q - 1
      BY <1>1, <2>1
    <2> QED
      BY <2>2, Zenon DEF N, NewLines
  <1> HIDE DEF A, B, N
  <1>8. LineAt(q) = Cardinality(B) + 1
    <2>1. Cardinality(B) = Cardinality(A) + Cardinality(N) - Cardinality(A \cap N)
      BY <1>2, FS_Union, Zenon
    <2>2. Cardinality(A \cap N) = 0 /\ Cardinality(A) \in Nat /\ Cardinality(N) \in Nat
      BY <1>2, FS_EmptySet, FS_CardinalityType, Zenon
    <2> QED
      BY <1>4, <1>5, <2>1, <2>2
  <1>9. \E j \in B \cup {0} : ColAt(q) = q - j /\ \A i \in B : i <= j
    <2>1. CASE N = {}
      <3>1. PICK j \in A \cup {0} : col = pos - j /\ \A i \in A : i <= j
        BY <1>4
      <3>2. j \in Nat /\ ColAt(q) = col + (q - pos) /\ B = A
        BY <1>2, <1>3, <1>6, <2>1
      <3>3. ColAt(q) = q - j
        BY <1>1, <3>1, <3>2
      <3> QED
        BY <3>1, <3>2, <3>3
    <2>2. CASE N # {}
      <3>1. PICK k \in N : \A i \in N : i <= k
        <4>1. N \in SUBSET (0 .. q)
          BY <1>1, <1>2
        <4> QED
          BY <1>1, <2>2, <4>1, Greatest, Zenon
      <3>2. NewLines(k + 1, q) = {}
        BY <1>1, <1>2, <1>7, <3>1
      <3> DEFINE last == CHOOSE m \in N : NewLines(m + 1, q) = {}
      <3>3. last \in N /\ NewLines(last + 1, q) = {}
        BY <3>1, <3>2, Zenon
      <3>4. ColAt(q) = q - last
        BY <1>6, <2>2
      <3> HIDE DEF last
      <3>5. \A i \in B : i <= last
        <4> SUFFICES ASSUME NEW i \in B, ~(i <= last) PROVE FALSE
          OBVIOUS
        <4>1. last \in pos .. q - 1 /\ i \in 1 .. q - 1
          BY <1>2, <1>3, <3>3
        <4>2. i \in last + 1 .. q - 1 /\ i \notin 1 .. pos - 1
          BY <1>1, <4>1
        <4>3. i \in N
          BY <1>2, <1>3, <4>2
        <4> QED
          BY <1>7, <3>3, <4>2, <4>3
      <3> QED
        BY <1>2, <3>3, <3>4, <3>5
    <2> QED
      BY <2>1, <2>2
  <1> QED
    BY <1>8, <1>9, Zenon DEF PlaceAt, B

LEMMA PlaceInit == Init => PlaceInv
  <1> SUFFICES ASSUME Init PROVE PlaceInv
    OBVIOUS
  <1>1. pos = 1 /\ line = 1 /\ col = 1 /\ ~Reading /\ toks = <<>>
    BY Zenon DEF Init, Reading
  <1>2. Before(src, 1) = {}
    BY DEF Before
  <1>3. PlaceAt(src, 1, 1, 1)
    BY <1>2, FS_EmptySet DEF PlaceAt
  <1>4. DOMAIN toks = {}
    BY <1>1
  <1> QED
    BY <1>1, <1>3, <1>4, Zenon DEF PlaceInv

LEMMA PlaceKept ==
  ASSUME TypeInv, PlaceInv, [Next]_vars
  PROVE  PlaceInv'
  <1>1. src' = src /\ Ahead(src, pos, p)
    BY HeadIs, Zenon DEF Next, Comment, NewLine, OpenString, Open, Keep, Close, ReadLexeme,
                         EndOfSource, Take, vars
  <1>2. PlaceAt(src, pos', line', col')
    <2>1. CASE \E q : Reads(q)
      <3>1. PICK q : Reads(q)
        BY <2>1
      <3>2. Ahead(src, pos, q) /\ pos' = q /\ line' = LineAt(q) /\ col' = ColAt(q)
        <4>1. Ahead(src, pos + 1, q) /\ pos \in Nat
          BY <3>1, HeadIs, Zenon DEF Reads
        <4>2. Ahead(src, pos, q)
          BY <4>1 DEF Ahead
        <4> QED
          BY <3>1, <4>2, Zenon DEF Reads, AdvanceTo
      <3> QED
        BY <3>2, Move, Zenon DEF PlaceInv
    <2>2. CASE UNCHANGED <<pos, line, col>>
      BY <2>2, Zenon DEF PlaceInv
    <2>3. CASE EndOfSource
      BY <1>1, <2>3, Move, Zenon DEF EndOfSource, Take, Lexeme, AdvanceTo, PlaceInv
    <2>4. CASE Close
      BY <2>1, <2>2, <2>4, CloseIs, Zenon
    <2> QED
      BY <2>1, <2>2, <2>3, <2>4, CommentReads, OpenReads, NewLineReads, LexemeReads, KeepIs, Zenon
         DEF Next, vars
  <1>3. PlaceAt(src, p, LineAt(p), ColAt(p))
    BY <1>1, Move, Zenon DEF PlaceInv
  <1>4. ASSUME Reading' PROVE PlaceAt(src, str'.from, str'.line, str'.col)
    <2>1. CASE OpenString
      <3>1. PICK mark, r : Open(mark, r)
        BY <2>1, OpenStringIs, Zenon
      <3>2. str'.from = p /\ str'.line = LineAt(p) /\ str'.col = ColAt(p)
        <4> HIDE DEF p
        <4> QED
          BY <3>1 DEF Open
      <3> QED
        BY <1>3, <3>2, Zenon
    <2>2. CASE Keep
      <3>1. str' # NoString
        BY <1>4, Zenon DEF Reading
      <3>2. str' = [str EXCEPT !.buf = KeptBuf] /\ Reading
        BY <2>2, <3>1, KeepIs, Zenon DEF StringEnds
      <3> HIDE DEF KeptBuf
      <3>3. str'.from = str.from /\ str'.line = str.line /\ str'.col = str.col
        BY <3>2
      <3> QED
        BY <3>2, <3>3, Zenon DEF PlaceInv
    <2>3. CASE Close
      BY <1>4, <2>3, Zenon DEF Close, StringEnds, Reading
    <2>4. CASE UNCHANGED str
      BY <1>4, <2>4, Zenon DEF PlaceInv, Reading
    <2> QED
      BY <2>1, <2>2, <2>3, <2>4, Zenon
         DEF Next, Comment, NewLine, ReadLexeme, EndOfSource, Take, vars
  <1>5. \/ toks' = toks
        \/ \E t : toks' = Append(toks, t) /\ PlaceAt(src, t.from, t.line, t.col)
    <2>1. \A type, val, from, to, l, c :
            /\ Token(type, val, from, to, l, c).from = from
            /\ Token(type, val, from, to, l, c).line = l
            /\ Token(type, val, from, to, l, c).col = c
      BY DEF Token
    <2>2. ASSUME NEW l, Take(l)
          PROVE  \E t : toks' = Append(toks, t) /\ PlaceAt(src, t.from, t.line, t.col)
      <3> DEFINE t == Token(l.type, l.val, p, l.next, LineAt(p), ColAt(p))
      <3>1. toks' = Append(toks, t)
        BY <2>2, Zenon DEF Take, Add
      <3>2. t.from = p /\ t.line = LineAt(p) /\ t.col = ColAt(p)
        BY <2>1
      <3> HIDE DEF t
      <3>3. PlaceAt(src, t.from, t.line, t.col)
        BY <1>3, <3>2, Zenon
      <3> QED
        BY <3>1, <3>3
    <2>3. ASSUME NEW buf, NEW q, Reading, StringEnds(buf, q)
          PROVE  \E t : toks' = Append(toks, t) /\ PlaceAt(src, t.from, t.line, t.col)
      <3> DEFINE t == Token("string", str.mark \o CString(buf), str.from, q, str.line, str.col)
      <3>1. toks' = Append(toks, t)
        BY <2>3, Zenon DEF StringEnds, Add
      <3>2. t.from = str.from /\ t.line = str.line /\ t.col = str.col
        BY <2>1
      <3> HIDE DEF t
      <3>3. PlaceAt(src, t.from, t.line, t.col)
        BY <2>3, <3>2, Zenon DEF PlaceInv
      <3> QED
        BY <3>1, <3>3
    <2>4. CASE Keep
      BY <2>3, <2>4, KeepIs, Zenon
    <2>5. CASE Close
      BY <2>3, <2>5, Zenon DEF Close
    <2> QED
      BY <2>2, <2>4, <2>5, Zenon
         DEF Next, Comment, NewLine, OpenString, Open, ReadLexeme, EndOfSource, vars
  <1>6. \A k \in DOMAIN toks' : PlaceAt(src, toks'[k].from, toks'[k].line, toks'[k].col)
    <2>1. CASE toks' = toks
      BY <2>1, Zenon DEF PlaceInv
    <2>2. CASE \E t : toks' = Append(toks, t) /\ PlaceAt(src, t.from, t.line, t.col)
      <3>1. PICK t : toks' = Append(toks, t) /\ PlaceAt(src, t.from, t.line, t.col)
        BY <2>2
      <3> SUFFICES ASSUME NEW k \in DOMAIN Append(toks, t)
                   PROVE  PlaceAt(src, Append(toks, t)[k].from, Append(toks, t)[k].line,
                                  Append(toks, t)[k].col)
        BY <3>1, Zenon
      <3>2. /\ Len(toks) \in Nat /\ DOMAIN toks = 1 .. Len(toks)
            /\ DOMAIN Append(toks, t) = 1 .. Len(toks) + 1
            /\ \A i \in 1 .. Len(toks) : Append(toks, t)[i] = toks[i]
            /\ Append(toks, t)[Len(toks) + 1] = t
        BY AppendSome DEF TypeInv
      <3>3. k \in 1 .. Len(toks) \/ k = Len(toks) + 1
        BY <3>2
      <3>4. CASE k \in 1 .. Len(toks)
        BY <3>2, <3>4, Zenon DEF PlaceInv
      <3>5. CASE k = Len(toks) + 1
        BY <3>1, <3>2, <3>5, Zenon
      <3> QED
        BY <3>3, <3>4, <3>5
    <2> QED
      BY <1>5, <2>1, <2>2
  <1> QED
    BY <1>1, <1>2, <1>4, <1>6, Zenon DEF PlaceInv, Reading, NoString

(* Line and column of every token are those of the place it was read at,   *)
(* whatever comments and strings of several lines stood before it.         *)
THEOREM PlacesAreRight == Spec => []PlaceOfToken
  <1>1. PlaceInv => PlaceOfToken
    BY Zenon DEF PlaceInv, PlaceOfToken, PlaceAt, Before
  <1>2. Init => PlaceInv
    BY PlaceInit
  <1>3. TypeInv /\ PlaceInv /\ [Next]_vars => PlaceInv'
    BY PlaceKept
  <1> QED
    BY <1>1, <1>2, <1>3, TypeCorrect, PTL DEF Spec

-----------------------------------------------------------------------------
(* The token t is its text in s and is the next after the position a.      *)
IgnoredIn(s, a, b) == \/ Past(s, a, Blanks) >= b
                      \/ AtLineComment(s, Past(s, a, Blanks))
                      \/ AtBlockComment(s, Past(s, a, Blanks))
TextOk(s, a, t) ==
  /\ a <= t.from /\ t.from <= t.to
  /\ IgnoredIn(s, a, t.from)
  /\ t.type \in Plain => \/ IsText2(t.type, t.val, Text(s, t.from, t.to))
                         \/ Text(s, t.from, t.to)[1] \in {"$", "E2"}

LEMMA TextOfTokens ==
  TokensAreText <=> \A k \in DOMAIN toks : TextOk(src, GapStart(k), toks[k])
  BY Zenon DEF TokensAreText, TextOk, IgnoredIn, Ignored, IsText2, Plain

(* The end of the last token; between tokens the lexer stands there or has *)
(* passed a comment since, in a string it has read the opening delimiter.  *)
LastEnd == GapStart(Len(toks) + 1)
TextInv ==
  /\ TokensAreText
  /\ ~Reading => /\ LastEnd \in 1 .. pos
                 /\ pos = LastEnd \/ IgnoredIn(src, LastEnd, Len(src) + 2)
  /\ Reading => /\ "from" \in DOMAIN str
                /\ str.from \in 1 .. pos /\ LastEnd \in 1 .. str.from
                /\ IgnoredIn(src, LastEnd, str.from)

LEMMA TextInit == Init => TextInv
  <1> SUFFICES ASSUME Init PROVE TextInv
    OBVIOUS
  <1>1. pos = 1 /\ ~Reading /\ toks = <<>>
    BY Zenon DEF Init, Reading
  <1>2. DOMAIN toks = {} /\ LastEnd = 1
    BY <1>1 DEF LastEnd, GapStart
  <1>3. LastEnd \in 1 .. pos
    BY <1>1, <1>2
  <1> QED
    BY <1>1, <1>2, <1>3, TextOfTokens, Zenon DEF TextInv

LEMMA AddedIs ==
  ASSUME TypeInv, NEW t, toks' = Append(toks, t)
  PROVE  /\ Len(toks) \in Nat /\ DOMAIN toks = 1 .. Len(toks)
         /\ Len(toks') = Len(toks) + 1 /\ DOMAIN toks' = 1 .. Len(toks) + 1
         /\ \A i \in 1 .. Len(toks) : toks'[i] = toks[i]
         /\ toks'[Len(toks) + 1] = t
  BY AppendSome DEF TypeInv

LEMMA AddedText ==
  ASSUME TypeInv, TokensAreText, src' = src,
         NEW t, toks' = Append(toks, t), TextOk(src, LastEnd, t)
  PROVE  TokensAreText' /\ LastEnd' = t.to
  <1>1. /\ Len(toks) \in Nat /\ DOMAIN toks = 1 .. Len(toks)
        /\ Len(toks') = Len(toks) + 1 /\ DOMAIN toks' = 1 .. Len(toks) + 1
        /\ \A i \in 1 .. Len(toks) : toks'[i] = toks[i]
        /\ toks'[Len(toks) + 1] = t
    BY AddedIs, Zenon
  <1>2. ASSUME NEW k \in 1 .. Len(toks) + 1
        PROVE  (IF k = 1 THEN 1 ELSE toks'[k - 1].to) = GapStart(k)
    <2>1. CASE k = 1
      BY <2>1, Zenon DEF GapStart
    <2>2. CASE k # 1
      <3>1. k - 1 \in 1 .. Len(toks)
        BY <1>1, <2>2
      <3> QED
        BY <1>1, <2>2, <3>1, Zenon DEF GapStart
    <2> QED
      BY <2>1, <2>2
  <1>3. ASSUME NEW k \in 1 .. Len(toks) + 1
        PROVE  TextOk(src, GapStart(k), toks'[k])
    <2>1. CASE k = Len(toks) + 1
      BY <1>1, <2>1, Zenon DEF LastEnd
    <2>2. CASE k # Len(toks) + 1
      <3>1. k \in 1 .. Len(toks)
        BY <1>1, <2>2
      <3> QED
        BY <1>1, <3>1, TextOfTokens, Zenon
    <2> QED
      BY <2>1, <2>2
  <1>4. (\A k \in DOMAIN toks : TextOk(src, GapStart(k), toks[k]))'
    BY <1>1, <1>2, <1>3, Zenon DEF GapStart
  <1>5. TokensAreText'
    <2>1. (TokensAreText <=> \A k \in DOMAIN toks : TextOk(src, GapStart(k), toks[k]))'
      BY TextOfTokens, PTL
    <2> QED
      BY <1>4, <2>1
  <1>6. LastEnd' = t.to
    <2>1. LastEnd' = (IF (Len(toks) + 1) + 1 = 1 THEN 1 ELSE toks'[((Len(toks) + 1) + 1) - 1].to)
      BY <1>1, Zenon DEF LastEnd, GapStart
    <2>2. (Len(toks) + 1) + 1 # 1 /\ ((Len(toks) + 1) + 1) - 1 = Len(toks) + 1
      BY <1>1
    <2> QED
      BY <1>1, <2>1, <2>2, Zenon
  <1> QED
    BY <1>5, <1>6

(* What the lexer finds at the head of the loop is next after the last     *)
(* token.                                                                  *)
LEMMA HeadFollows ==
  ASSUME TypeInv, TextInv, ~Reading
  PROVE  LastEnd <= p /\ LastEnd \in Nat \ {0} /\ IgnoredIn(src, LastEnd, p)
  <1>1. LastEnd \in 1 .. pos /\ (pos = LastEnd \/ IgnoredIn(src, LastEnd, Len(src) + 2))
    BY Zenon DEF TextInv
  <1>2. p \in Nat /\ Ahead(src, pos, p) /\ pos \in Nat
    BY HeadIs
  <1>3. IgnoredIn(src, LastEnd, p)
    <2>1. CASE pos = LastEnd
      <3>1. Past(src, LastEnd, Blanks) = p
        BY <2>1, Zenon DEF p
      <3> HIDE DEF p
      <3>2. Past(src, LastEnd, Blanks) >= p
        BY <1>2, <3>1
      <3> QED
        BY <3>2, Zenon DEF IgnoredIn
    <2>2. CASE IgnoredIn(src, LastEnd, Len(src) + 2)
      <3> DEFINE x == Past(src, LastEnd, Blanks)
      <3>1. LastEnd \in 1 .. Len(src) + 1 /\ src \in Seq(STRING) /\ Len(src) \in Nat
        <4>1. pos \in 1 .. Len(src) + 1 /\ src \in Seq(STRING)
          BY DEF TypeInv
        <4> QED
          BY <1>1, <4>1, TextIs
      <3>2. x \in LastEnd .. Len(src) + 1
        BY <3>1, PastIs, Zenon
      <3> HIDE DEF x
      <3>3. ~(x >= Len(src) + 2)
        BY <3>1, <3>2
      <3> QED
        BY <2>2, <3>3, Zenon DEF IgnoredIn, x
    <2> QED
      BY <1>1, <2>1, <2>2
  <1> HIDE DEF p
  <1>4. LastEnd <= p /\ LastEnd \in Nat \ {0}
    BY <1>1, <1>2 DEF Ahead
  <1> QED
    BY <1>3, <1>4

LEMMA TokenFields ==
  ASSUME NEW type, NEW val, NEW from, NEW to, NEW l, NEW c
  PROVE  /\ Token(type, val, from, to, l, c).type = type
         /\ Token(type, val, from, to, l, c).val = val
         /\ Token(type, val, from, to, l, c).from = from
         /\ Token(type, val, from, to, l, c).to = to
  BY DEF Token

(* The invariant after a step that stays between tokens or adds one.       *)
LEMMA SkipKept ==
  ASSUME TypeInv, TextInv, ~Reading, UNCHANGED <<src, str, toks>>,
         pos' \in pos .. Len(src) + 1, IgnoredIn(src, LastEnd, Len(src) + 2)
  PROVE  TextInv'
  <1>1. TokensAreText' /\ LastEnd' = LastEnd /\ ~Reading'
    <2>1. TokensAreText
      BY Zenon DEF TextInv
    <2> QED
      BY <2>1 DEF TokensAreText, GapStart, Ignored, LastEnd, Reading
  <1>2. LastEnd \in 1 .. pos'
    <2>1. LastEnd \in 1 .. pos /\ pos \in Nat
      BY HeadIs, Zenon DEF TextInv
    <2> QED
      BY <2>1
  <1> QED
    BY <1>1, <1>2, Zenon DEF TextInv

LEMMA AddKept ==
  ASSUME TypeInv, TextInv, src' = src, ~Reading', NEW t, toks' = Append(toks, t),
         TextOk(src, LastEnd, t), t.to \in Nat \ {0}, pos' = t.to
  PROVE  TextInv'
  <1>1. TokensAreText' /\ LastEnd' = t.to
    BY AddedText, Zenon DEF TextInv
  <1>2. t.to \in 1 .. t.to
    OBVIOUS
  <1>3. LastEnd' \in 1 .. pos' /\ pos' = LastEnd'
    BY <1>1, <1>2, Zenon
  <1> QED
    BY <1>1, <1>3, Zenon DEF TextInv

LEMMA FirstOfText ==
  ASSUME NEW s \in Seq(STRING), NEW a \in 1 .. Len(s), NEW b, Ahead(s, a + 1, b)
  PROVE  Text(s, a, b)[1] = s[a] /\ a <= b /\ b \in Nat \ {0}
  <1>1. /\ a \in Nat \ {0} /\ b \in Nat /\ a <= b /\ b <= Len(s) + 1 /\ 1 \in 1 .. b - a
        /\ a + 1 - 1 = a /\ b \in Nat \ {0}
    BY TextIs DEF Ahead
  <1>2. IsText(s, a, b, Text(s, a, b))
    BY <1>1, TextBetween, Zenon
  <1> QED
    BY <1>1, <1>2, Zenon DEF IsText

(* A token that is read at the head of the loop.                           *)
LEMMA TakenText ==
  ASSUME TypeInv, TextInv, ~Reading, NEW l, Take(l), p \in 1 .. Len(src), Made(src, p, l)
  PROVE  TextInv'
  <1> DEFINE t == Token(l.type, l.val, p, l.next, LineAt(p), ColAt(p))
  <1>1. toks' = Append(toks, t) /\ src' = src /\ ~Reading' /\ pos' = l.next
    BY Zenon DEF Take, Add, AdvanceTo, Reading, NoString
  <1>2. t.type = l.type /\ t.val = l.val /\ t.from = p /\ t.to = l.next
    BY TokenFields
  <1> HIDE DEF t
  <1>3. Text(src, p, l.next)[1] = src[p] /\ p <= l.next /\ l.next \in Nat \ {0}
    BY FirstOfText, Zenon DEF TypeInv, Made
  <1>4. LastEnd <= p /\ IgnoredIn(src, LastEnd, p)
    BY HeadFollows
  <1>5. TextOk(src, LastEnd, t)
    BY <1>2, <1>3, <1>4, Zenon DEF TextOk, Made
  <1> QED
    BY <1>1, <1>2, <1>3, <1>5, AddKept, Zenon

LEMMA TextSkips ==
  ASSUME TypeInv, TextInv, Comment
  PROVE  TextInv'
  <1>1. PICK q : Reads(q)
    BY CommentReads
  <1>2. pos' \in pos .. Len(src) + 1
    <2>1. Ahead(src, pos + 1, pos') /\ pos \in Nat
      BY <1>1, HeadIs, Zenon DEF Reads, AdvanceTo
    <2> QED
      BY <2>1 DEF Ahead
  <1>3. ~Reading /\ UNCHANGED <<src, str, toks>>
    BY Zenon DEF Comment, Between, Reading
  <1>4. IgnoredIn(src, LastEnd, Len(src) + 2)
    <2>1. CASE pos = LastEnd
      BY <2>1, Zenon DEF Comment, p, IgnoredIn
    <2> QED
      BY <1>3, <2>1, Zenon DEF TextInv
  <1> QED
    BY <1>2, <1>3, <1>4, SkipKept, Zenon

LEMMA TextTakes ==
  ASSUME TypeInv, TextInv, NewLine \/ ReadLexeme \/ EndOfSource
  PROVE  TextInv'
  <1>1. ~Reading
    BY Zenon DEF NewLine, ReadLexeme, EndOfSource, Between, Reading
  <1>2. p \in Nat \ {0} /\ src \in Seq(STRING)
    BY HeadIs, Zenon DEF TypeInv
  <1>3. CASE NewLine
    <2> DEFINE l == Lexeme("newline", <<"\n">>, p + 1)
    <2>1. At(src, p) # ""
      BY <1>3, Zenon DEF NewLine
    <2>2. p \in 1 .. Len(src)
      BY <1>2, <2>1, AtIs, Zenon
    <2>3. Ahead(src, p + 1, p + 1)
      BY <1>2, <2>2, AheadOne, Zenon
    <2>4. "newline" \notin Plain
      BY DEF Plain
    <2>5. Made(src, p, l)
      BY <2>3, <2>4, MadeOf, Zenon
    <2>6. Take(l)
      BY <1>3, Zenon DEF NewLine
    <2> QED
      BY <1>1, <2>2, <2>5, <2>6, TakenText, Zenon
  <1>4. CASE ReadLexeme
    <2>1. p \in 1 .. Len(src) /\ Take(LexemeAt(src, p))
      BY <1>4, HeadIs, Zenon DEF ReadLexeme
    <2> QED
      BY <1>1, <1>4, <2>1, LexemeReads, TakenText, Zenon
  <1>5. CASE EndOfSource
    <2> DEFINE l == Lexeme("eof", <<>>, p)
               t == Token(l.type, l.val, p, l.next, LineAt(p), ColAt(p))
    <2>1. toks' = Append(toks, t) /\ src' = src /\ ~Reading' /\ pos' = l.next
      BY <1>1, <1>5, Zenon DEF EndOfSource, Take, Add, AdvanceTo, Reading, NoString
    <2>2. l.next = p /\ l.type = "eof"
      BY Fields
    <2>3. t.type = l.type /\ t.from = p /\ t.to = l.next
      BY TokenFields
    <2> HIDE DEF t, l
    <2>4. LastEnd <= p /\ IgnoredIn(src, LastEnd, p)
      BY <1>1, HeadFollows
    <2>5. "eof" \notin Plain
      BY DEF Plain
    <2> HIDE DEF p
    <2>6. p <= p
      BY <1>2
    <2>7. TextOk(src, LastEnd, t)
      BY <2>2, <2>3, <2>4, <2>5, <2>6, Zenon DEF TextOk
    <2> QED
      BY <1>2, <2>1, <2>2, <2>3, <2>7, AddKept, Zenon
  <1> QED
    BY <1>3, <1>4, <1>5

LEMMA TextOpens ==
  ASSUME TypeInv, TextInv, OpenString
  PROVE  TextInv'
  <1>1. PICK mark, r : Open(mark, r) /\ Ahead(src, p + 1, r + Len(Opener(src, r)))
    BY OpenStringIs, Zenon
  <1>2. ~Reading /\ src' = src /\ toks' = toks /\ pos' = r + Len(Opener(src, r))
    BY <1>1, Zenon DEF OpenString, Between, Reading, Open, AdvanceTo
  <1>3. str'.from = p /\ "from" \in DOMAIN str' /\ Reading'
    <2> HIDE DEF p
    <2>1. str'.from = p /\ "from" \in DOMAIN str'
      BY <1>1 DEF Open
    <2>2. "from" \notin DOMAIN NoString
      BY DEF NoString
    <2>3. NoString' = NoString
      BY Zenon DEF NoString
    <2> QED
      BY <2>1, <2>2, <2>3, Zenon DEF Reading
  <1>4. LastEnd <= p /\ LastEnd \in Nat \ {0} /\ IgnoredIn(src, LastEnd, p)
    BY <1>2, HeadFollows
  <1>5. TokensAreText' /\ LastEnd' = LastEnd
    <2>1. TokensAreText
      BY Zenon DEF TextInv
    <2> QED
      BY <1>2, <2>1 DEF TokensAreText, GapStart, Ignored, LastEnd
  <1>6. p \in 1 .. pos' /\ LastEnd \in 1 .. p
    <2>1. p \in Nat \ {0} /\ Ahead(src, p + 1, pos')
      BY <1>1, <1>2, HeadIs, Zenon
    <2> HIDE DEF p
    <2> QED
      BY <1>4, <2>1 DEF Ahead
  <1> QED
    BY <1>2, <1>3, <1>4, <1>5, <1>6, Zenon DEF TextInv

(* The end of a string that was read to q.                                 *)
LEMMA TextEnds ==
  ASSUME TypeInv, TextInv, Reading, src' = src,
         NEW buf, NEW q, StringEnds(buf, q), Ahead(src, pos, q), pos' = q
  PROVE  TextInv'
  <1> DEFINE t == Token("string", str.mark \o CString(buf), str.from, q, str.line, str.col)
  <1>1. toks' = Append(toks, t) /\ ~Reading'
    BY Zenon DEF StringEnds, Add, Reading, NoString
  <1>2. t.type = "string" /\ t.from = str.from /\ t.to = q
    BY TokenFields
  <1> HIDE DEF t
  <1>3. /\ str.from \in 1 .. pos /\ LastEnd \in 1 .. str.from
        /\ IgnoredIn(src, LastEnd, str.from)
    BY Zenon DEF TextInv
  <1>4. "string" \notin Plain
    BY DEF Plain
  <1>5. LastEnd <= str.from /\ str.from <= q /\ q \in Nat \ {0}
    <2>1. pos \in Nat \ {0}
      BY HeadIs
    <2> QED
      BY <1>3, <2>1 DEF Ahead
  <1>6. TextOk(src, LastEnd, t)
    BY <1>2, <1>3, <1>4, <1>5, Zenon DEF TextOk
  <1> QED
    BY <1>1, <1>2, <1>5, <1>6, AddKept, Zenon

LEMMA TextReads ==
  ASSUME TypeInv, TextInv, Keep \/ Close
  PROVE  TextInv'
  <1>1. Reading /\ src' = src /\ pos \in Nat \ {0} /\ Ahead(src, pos, pos)
    <2>1. Ahead(src, pos, pos)
      <3>1. pos \in 1 .. Len(src) + 1 /\ Len(src) \in Nat
        BY HeadIs DEF TypeInv
      <3> QED
        BY <3>1 DEF Ahead
    <2> QED
      BY <2>1, HeadIs, Zenon DEF Keep, Close, Reading
  <1>2. ASSUME NEW q, Reads(q)
        PROVE  Ahead(src, pos, q) /\ pos' = q
    <2>1. Ahead(src, pos + 1, q)
      BY <1>2, Zenon DEF Reads
    <2>2. Ahead(src, pos, q)
      BY <1>1, <2>1 DEF Ahead
    <2> QED
      BY <1>2, <2>2, Zenon DEF Reads, AdvanceTo
  <1>3. CASE Keep
    <2>1. Reads(KeptTo)
      BY <1>3, KeepIs
    <2>2. CASE Len(KeptBuf) >= Cap
      BY <1>1, <1>2, <1>3, <2>1, <2>2, KeepIs, TextEnds, Zenon
    <2>3. CASE ~(Len(KeptBuf) >= Cap)
      <3>1. str' = [str EXCEPT !.buf = KeptBuf] /\ toks' = toks
        BY <1>3, <2>3, KeepIs, Zenon
      <3>2. "from" \in DOMAIN str /\ str.from \in 1 .. pos /\ LastEnd \in 1 .. str.from
            /\ IgnoredIn(src, LastEnd, str.from) /\ TokensAreText
        BY <1>1, Zenon DEF TextInv
      <3>3. str'.from = str.from /\ "from" \in DOMAIN str'
        <4> HIDE DEF KeptBuf
        <4> QED
          BY <3>1, <3>2
      <3>4. TokensAreText' /\ LastEnd' = LastEnd
        BY <1>1, <3>1, <3>2 DEF TokensAreText, GapStart, Ignored, LastEnd
      <3>5. Reading'
        <4>1. "from" \notin DOMAIN NoString
          BY DEF NoString
        <4> QED
          BY <3>3, <4>1, Zenon DEF Reading, NoString
      <3>6. str.from \in 1 .. pos'
        <4>1. Ahead(src, pos, pos')
          BY <1>2, <2>1, Zenon
        <4> QED
          BY <1>1, <3>2, <4>1 DEF Ahead
      <3> QED
        BY <1>1, <3>2, <3>3, <3>4, <3>5, <3>6, Zenon DEF TextInv
    <2> QED
      BY <2>2, <2>3
  <1>4. CASE Close
    BY <1>1, <1>2, <1>4, CloseIs, TextEnds, Zenon
  <1> QED
    BY <1>3, <1>4

(* Nothing of the program is lost between two tokens or read twice, and    *)
(* words, numbers and operators are the text they were read from.          *)
THEOREM NothingIsLost == Spec => []TokensAreText
  <1>1. TextInv => TokensAreText
    BY Zenon DEF TextInv
  <1>2. Init => TextInv
    BY TextInit
  <1>3. TypeInv /\ TextInv /\ [Next]_vars => TextInv'
    <2> SUFFICES ASSUME TypeInv, TextInv, [Next]_vars PROVE TextInv'
      OBVIOUS
    <2>1. CASE UNCHANGED vars
      <3>1. TextInv /\ UNCHANGED <<src, pos, str, toks>>
        BY <2>1, Zenon DEF vars
      <3> QED
        BY <3>1 DEF TextInv, TokensAreText, GapStart, Ignored, LastEnd, Reading, IgnoredIn
    <2> QED
      BY <2>1, TextSkips, TextTakes, TextOpens, TextReads, Zenon DEF Next
  <1> QED
    BY <1>1, <1>2, <1>3, TypeCorrect, PTL DEF Spec

-----------------------------------------------------------------------------
(* The backslashes before q, back to a at the most.                        *)
Slashes(s, a, q, n) == /\ n \in 0 .. q - a
                       /\ \A j \in q - n .. q - 1 : s[j] = "\\"
                       /\ n = q - a \/ s[q - n - 1] # "\\"

SlashCount(s, a, q) == CHOOSE n \in 0 .. q - a :
                         /\ \A j \in q - n .. q - 1 : s[j] = "\\"
                         /\ n = q - a \/ s[q - n - 1] # "\\"
EscapedIn(s, a, q) == SlashCount(s, a, q) % 2 = 1

LEMMA EscapedIs ==
  ASSUME NEW a, NEW q
  PROVE  Escaped(a, q) <=> EscapedIn(src, a, q)
  <1>1. Backslashes(a, q) = SlashCount(src, a, q)
    BY DEF Backslashes, SlashCount
  <1> QED
    BY <1>1, Zenon DEF Escaped, EscapedIn

LEMMA SlashesOne ==
  ASSUME NEW s, NEW a \in Nat, NEW q \in Nat, NEW m, Slashes(s, a, q, m), NEW n, Slashes(s, a, q, n)
  PROVE  m <= n
  <1>1. m \in 0 .. q - a /\ n \in 0 .. q - a
    BY Zenon DEF Slashes
  <1> SUFFICES ASSUME n < m PROVE FALSE
    BY <1>1
  <1>2. n # q - a /\ q - n - 1 \in q - m .. q - 1
    BY <1>1
  <1> QED
    BY <1>2, Zenon DEF Slashes

LEMMA SlashCountIs ==
  ASSUME NEW s, NEW a \in Nat, NEW q \in Nat, NEW n, Slashes(s, a, q, n)
  PROVE  SlashCount(s, a, q) = n
  <1> DEFINE m == SlashCount(s, a, q)
  <1>1. Slashes(s, a, q, m)
    BY Zenon DEF Slashes, SlashCount
  <1> HIDE DEF m
  <1>2. m <= n /\ n <= m
    BY <1>1, SlashesOne, Zenon
  <1>3. m \in 0 .. q - a /\ n \in 0 .. q - a
    BY <1>1, Zenon DEF Slashes
  <1>4. m = n
    BY <1>2, <1>3
  <1> QED
    BY <1>4 DEF m

(* How the number grows with the text.                                     *)
LEMMA SlashesNone ==
  ASSUME NEW s, NEW a \in Nat, NEW q \in Nat, a <= q, a = q \/ s[q - 1] # "\\"
  PROVE  Slashes(s, a, q, 0)
  <1>1. 0 \in 0 .. q - a /\ q - 0 .. q - 1 = {} /\ q - 0 - 1 = q - 1 /\ (a = q => 0 = q - a)
    OBVIOUS
  <1> QED
    BY <1>1, Zenon DEF Slashes

LEMMA SlashesMore ==
  ASSUME NEW s, NEW a \in Nat, NEW q \in Nat, a <= q, NEW n, Slashes(s, a, q, n), s[q] = "\\"
  PROVE  Slashes(s, a, q + 1, n + 1)
  <1>1. /\ n \in 0 .. q - a
        /\ \A j \in q - n .. q - 1 : s[j] = "\\"
        /\ n = q - a \/ s[q - n - 1] # "\\"
    BY Zenon DEF Slashes
  <1>2. /\ n + 1 \in 0 .. (q + 1) - a
        /\ \A j \in (q + 1) - (n + 1) .. (q + 1) - 1 : j = q \/ j \in q - n .. q - 1
        /\ n = q - a => n + 1 = (q + 1) - a
        /\ (q + 1) - (n + 1) - 1 = q - n - 1
    BY <1>1
  <1> QED
    BY <1>1, <1>2, Zenon DEF Slashes

(* While a string is read that began at first, no closing delimiter stands *)
(* unescaped between it and the lexer, an even number of backslashes       *)
(* stands before the lexer, and what is stored is no longer than what was  *)
(* read.                                                                   *)
Even(s, a, q) == \E n : Slashes(s, a, q, n) /\ n % 2 = 0
Ends(s, a, q, close) == Follows(s, q, close) /\ ~EscapedIn(s, a, q)
StringSpan(s, t) ==
  LET first == FirstOf(s, t.from)
      close == Closer(Opener(s, QuoteOf(s, t.from)))
  IN  /\ \A q \in first .. t.to - Len(close) - 1 : ~Ends(s, first, q, close)
      /\ \/ t.to - Len(close) >= first /\ Ends(s, first, t.to - Len(close), close)
         \/ t.to = Len(s) + 1
         \/ t.to - first >= Cap
StringInv ==
  /\ \A k \in DOMAIN toks : toks[k].type = "string" => StringSpan(src, toks[k])
  /\ Reading => LET first == FirstOf(src, str.from)
                IN  /\ {"from", "opener", "buf"} \subseteq DOMAIN str
                    /\ str.opener = Opener(src, QuoteOf(src, str.from))
                    /\ first \in 1 .. pos
                    /\ \A q \in first .. pos - 1 : ~Ends(src, first, q, Closer(str.opener))
                    /\ Even(src, first, pos) \/ pos = Len(src) + 1
                    /\ SomeSeq(str.buf) /\ Len(str.buf) <= pos - first

LEMMA SpansOfTokens ==
  StringsEndWhereTheyEnd
    <=> \A k \in DOMAIN toks : toks[k].type = "string" => StringSpan(src, toks[k])
  <1>1. \A a, q : Escaped(a, q) <=> EscapedIn(src, a, q)
    BY EscapedIs
  <1> QED
    BY <1>1, Zenon DEF StringsEndWhereTheyEnd, StringSpan, FirstOf, QuoteOf, Ends

(* An even number of backslashes escapes nothing; one more does.           *)
LEMMA EvenIs ==
  ASSUME NEW a \in Nat, NEW q \in Nat, a <= q, Even(src, a, q)
  PROVE  /\ ~EscapedIn(src, a, q)
         /\ src[q] = "\\" => EscapedIn(src, a, q + 1)
         /\ src[q] = "\\" /\ src[q + 1] = "\\" => Even(src, a, q + 2)
  <1>1. PICK n : Slashes(src, a, q, n) /\ n % 2 = 0
    BY Zenon DEF Even
  <1>2. n \in Nat
    <2>1. n \in 0 .. q - a
      BY <1>1, Zenon DEF Slashes
    <2> QED
      BY <2>1
  <1>3. (n + 1) % 2 = 1 /\ (n + 2) % 2 = 0 /\ 0 # 1
    BY <1>1, <1>2
  <1>4. ~EscapedIn(src, a, q)
    <2>1. SlashCount(src, a, q) = n
      BY <1>1, SlashCountIs, Zenon
    <2> QED
      BY <1>1, <1>3, <2>1, Zenon DEF EscapedIn
  <1>5. ASSUME src[q] = "\\"
        PROVE  Slashes(src, a, q + 1, n + 1) /\ EscapedIn(src, a, q + 1)
    <2>1. Slashes(src, a, q + 1, n + 1) /\ q + 1 \in Nat
      BY <1>1, <1>5, SlashesMore
    <2>2. SlashCount(src, a, q + 1) = n + 1
      BY <2>1, SlashCountIs, Zenon
    <2> QED
      BY <1>3, <2>1, <2>2, Zenon DEF EscapedIn
  <1>6. ASSUME src[q] = "\\", src[q + 1] = "\\"
        PROVE  Even(src, a, q + 2)
    <2>1. Slashes(src, a, q + 1, n + 1) /\ q + 1 \in Nat /\ a <= q + 1
      BY <1>5, <1>6
    <2>2. Slashes(src, a, (q + 1) + 1, (n + 1) + 1)
      BY <1>6, <2>1, SlashesMore, Zenon
    <2>3. (q + 1) + 1 = q + 2 /\ (n + 1) + 1 = n + 2
      BY <1>2
    <2> QED
      BY <1>3, <2>2, <2>3, Zenon DEF Even
  <1> QED
    BY <1>4, <1>5, <1>6

LEMMA SeqSome ==
  ASSUME NEW S, NEW f \in Seq(S)
  PROVE  SomeSeq(f) /\ Len(f) \in Nat
  BY DEF SomeSeq

LEMMA ConcatSome ==
  ASSUME NEW f, SomeSeq(f), NEW g, SomeSeq(g)
  PROVE  SomeSeq(f \o g) /\ Len(f \o g) = Len(f) + Len(g) /\ Len(f) \in Nat /\ Len(g) \in Nat
  <1> DEFINE S == {f[k] : k \in DOMAIN f} \cup {g[k] : k \in DOMAIN g}
             h == f \o g
  <1>1. f \in Seq(S) /\ g \in Seq(S)
    BY DEF SomeSeq
  <1> HIDE DEF S
  <1>2. h \in Seq(S) /\ Len(h) = Len(f) + Len(g) /\ Len(f) \in Nat /\ Len(g) \in Nat
    BY <1>1
  <1> HIDE DEF h
  <1>3. SomeSeq(h)
    BY <1>2, SeqSome
  <1> QED
    BY <1>2, <1>3 DEF h

LEMMA TuplesSome ==
  ASSUME NEW x, NEW y
  PROVE  SomeSeq(<<x>>) /\ Len(<<x>>) = 1 /\ SomeSeq(<<x, y>>) /\ Len(<<x, y>>) = 2
  <1> DEFINE S == {x, y}
  <1>1. x \in S /\ y \in S
    OBVIOUS
  <1> HIDE DEF S
  <1>2. /\ <<x>> \in Seq(S) /\ Len(<<x>>) = 1
        /\ <<x, y>> \in Seq(S) /\ Len(<<x, y>>) = 2
    BY <1>1, TupleIs, Zenon
  <1> QED
    BY <1>2, SeqSome, Zenon

LEMMA UnescapedIs ==
  ASSUME NEW a
  PROVE  /\ SomeSeq(Unescaped(a)) /\ Len(Unescaped(a)) \in {1, 2}
         /\ a = "" => Len(Unescaped(a)) = 1
  <1>1. DOMAIN Control = {"n", "t", "r"}
    BY DEF Control
  <1>2. a = "" => Unescaped(a) = <<"\\">>
    BY <1>1, Zenon DEF Unescaped
  <1>3. \/ \E x : Unescaped(a) = <<x>>
        \/ \E x, y : Unescaped(a) = <<x, y>>
    BY Zenon DEF Unescaped
  <1>4. CASE \E x : Unescaped(a) = <<x>>
    <2>1. PICK x : Unescaped(a) = <<x>>
      BY <1>4
    <2>2. SomeSeq(<<x>>) /\ Len(<<x>>) = 1
      BY TuplesSome
    <2> QED
      BY <2>1, <2>2, Zenon
  <1>5. CASE \E x, y : Unescaped(a) = <<x, y>>
    <2>1. PICK x, y : Unescaped(a) = <<x, y>>
      BY <1>5
    <2>2. SomeSeq(<<x, y>>) /\ Len(<<x, y>>) = 2
      BY TuplesSome
    <2>3. Len(<<"\\">>) = 1
      BY TuplesSome
    <2> QED
      BY <1>2, <2>1, <2>2, <2>3, Zenon
  <1> QED
    BY <1>3, <1>4, <1>5

LEMMA Fits ==
  ASSUME NEW n \in Nat, NEW m \in {1, 2}, NEW x \in Nat, NEW a \in 1 .. x, n <= x - a
  PROVE  n + m <= (x + 2) - a /\ a \in 1 .. x + 2
  OBVIOUS

(* What a step that keeps a character leaves true.                         *)
LEMMA KeepsOn ==
  ASSUME TypeInv, Keep, NEW a \in 1 .. pos, NEW close, close = Closer(str.opener),
         \A q \in a .. pos - 1 : ~Ends(src, a, q, close),
         Even(src, a, pos), SomeSeq(str.buf), Len(str.buf) <= pos - a
  PROVE  /\ \A q \in a .. KeptTo - 1 : ~Ends(src, a, q, close)
         /\ Even(src, a, KeptTo) \/ KeptTo = Len(src) + 1
         /\ SomeSeq(KeptBuf) /\ Len(KeptBuf) <= KeptTo - a
         /\ a \in 1 .. KeptTo /\ KeptTo \in Nat
  <1>1. /\ pos \in 1 .. Len(src) /\ ~Follows(src, pos, close) /\ Len(src) \in Nat
        /\ pos \in Nat /\ a \in Nat /\ a <= pos
    BY KeepIs, HeadIs
  <1>2. ~Ends(src, a, pos, close)
    BY <1>1, Zenon DEF Ends
  <1>3. ASSUME NEW q \in Nat, q \in pos .. pos + 2,
               \A x \in pos .. q - 1 : ~Ends(src, a, x, close)
        PROVE  \A x \in a .. q - 1 : ~Ends(src, a, x, close)
    <2>1. \A x \in a .. q - 1 : x \in a .. pos - 1 \/ x \in pos .. q - 1
      BY <1>1
    <2> QED
      BY <1>3, <2>1, Zenon
  <1>4. CASE src[pos] # "\\"
    <2>1. KeptTo = pos + 1 /\ KeptBuf = str.buf \o <<src[pos]>>
      BY <1>4, Zenon DEF KeptTo, KeptBuf
    <2> HIDE DEF KeptTo, KeptBuf
    <2>2. \A q \in a .. KeptTo - 1 : ~Ends(src, a, q, close)
      <3>1. pos + 1 \in Nat /\ pos + 1 \in pos .. pos + 2 /\ \A x \in pos .. (pos + 1) - 1 : x = pos
        BY <1>1
      <3> QED
        BY <1>2, <1>3, <2>1, <3>1, Zenon
    <2>3. Even(src, a, KeptTo)
      <3>1. pos + 1 \in Nat /\ a <= pos + 1 /\ (pos + 1) - 1 = pos /\ 0 % 2 = 0
        BY <1>1
      <3> QED
        BY <1>1, <1>4, <2>1, <3>1, SlashesNone, Zenon DEF Even
    <2>4. SomeSeq(KeptBuf) /\ Len(KeptBuf) = Len(str.buf) + 1 /\ Len(str.buf) \in Nat
      <3>1. SomeSeq(<<src[pos]>>) /\ Len(<<src[pos]>>) = 1
        BY TuplesSome
      <3> QED
        BY <2>1, <3>1, ConcatSome, Zenon
    <2> QED
      BY <1>1, <2>1, <2>2, <2>3, <2>4
  <1>5. CASE src[pos] = "\\"
    <2> DEFINE u == Unescaped(At(src, pos + 1))
    <2>1. KeptTo = Smaller(pos + 2, Len(src) + 1) /\ KeptBuf = str.buf \o u
      BY <1>5, Zenon DEF KeptTo, KeptBuf
    <2>2. SomeSeq(u) /\ Len(u) \in {1, 2} /\ (At(src, pos + 1) = "" => Len(u) = 1)
      BY UnescapedIs, Zenon
    <2> HIDE DEF u, KeptTo, KeptBuf
    <2>3. SomeSeq(KeptBuf) /\ Len(KeptBuf) = Len(str.buf) + Len(u) /\ Len(str.buf) \in Nat
      BY <2>1, <2>2, ConcatSome, Zenon
    <2>4. CASE pos = Len(src)
      <3>1. KeptTo = pos + 1 /\ KeptTo = Len(src) + 1
        BY <1>1, <2>1, <2>4 DEF Smaller
      <3>2. \A q \in a .. KeptTo - 1 : ~Ends(src, a, q, close)
        <4>1. pos + 1 \in Nat /\ pos + 1 \in pos .. pos + 2 /\ \A x \in pos .. (pos + 1) - 1 : x = pos
          BY <1>1
        <4> QED
          BY <1>2, <1>3, <3>1, <4>1, Zenon
      <3>3. Len(u) = 1
        <4>1. pos + 1 \notin DOMAIN src
          BY <1>1, <2>4, TextIs DEF TypeInv
        <4> QED
          BY <2>2, <4>1, Zenon DEF At
      <3> QED
        BY <1>1, <2>3, <3>1, <3>2, <3>3
    <2>5. CASE pos # Len(src)
      <3>1. KeptTo = pos + 2 /\ pos + 1 \in Nat /\ pos + 2 \in Nat
        BY <1>1, <2>1, <2>5 DEF Smaller
      <3>2. \A q \in a .. KeptTo - 1 : ~Ends(src, a, q, close)
        <4>1. EscapedIn(src, a, pos + 1)
          BY <1>1, <1>5, EvenIs, Zenon
        <4>2. ~Ends(src, a, pos + 1, close)
          BY <4>1, Zenon DEF Ends
        <4>3. pos + 2 \in pos .. pos + 2 /\ \A x \in pos .. (pos + 2) - 1 : x = pos \/ x = pos + 1
          BY <1>1
        <4> QED
          BY <1>2, <1>3, <3>1, <4>2, <4>3, Zenon
      <3>3. Even(src, a, KeptTo)
        <4>1. CASE src[pos + 1] = "\\"
          BY <1>1, <1>5, <3>1, <4>1, EvenIs, Zenon
        <4>2. CASE src[pos + 1] # "\\"
          <5>1. a <= pos + 2 /\ (pos + 2) - 1 = pos + 1 /\ 0 % 2 = 0
            BY <1>1
          <5> QED
            BY <1>1, <3>1, <4>2, <5>1, SlashesNone, Zenon DEF Even
        <4> QED
          BY <4>1, <4>2
      <3>4. Len(KeptBuf) <= KeptTo - a /\ a \in 1 .. KeptTo
        BY <1>1, <2>2, <2>3, <3>1, Fits, Zenon
      <3> QED
        BY <2>3, <3>1, <3>2, <3>3, <3>4, Zenon
    <2> QED
      BY <2>4, <2>5
  <1> QED
    BY <1>4, <1>5

(* The part of the invariant about the string that is being read.          *)
Span(s, q, r) ==
  LET first == FirstOf(s, r.from)
  IN  /\ {"from", "opener", "buf"} \subseteq DOMAIN r
      /\ r.opener = Opener(s, QuoteOf(s, r.from))
      /\ first \in 1 .. q
      /\ \A x \in first .. q - 1 : ~Ends(s, first, x, Closer(r.opener))
      /\ Even(s, first, q) \/ q = Len(s) + 1
      /\ SomeSeq(r.buf) /\ Len(r.buf) <= q - first

LEMMA StringInvIs ==
  StringInv <=> /\ \A k \in DOMAIN toks : toks[k].type = "string" => StringSpan(src, toks[k])
                /\ Reading => Span(src, pos, str)
  BY Zenon DEF StringInv, Span

LEMMA AddedSpan ==
  ASSUME TypeInv, StringInv, NEW t, toks' = Append(toks, t), t.type = "string" => StringSpan(src, t)
  PROVE  \A k \in DOMAIN toks' : toks'[k].type = "string" => StringSpan(src, toks'[k])
  <1> SUFFICES ASSUME NEW k \in DOMAIN toks', toks'[k].type = "string"
               PROVE  StringSpan(src, toks'[k])
    OBVIOUS
  <1>1. /\ Len(toks) \in Nat /\ DOMAIN toks = 1 .. Len(toks)
        /\ DOMAIN toks' = 1 .. Len(toks) + 1
        /\ \A i \in 1 .. Len(toks) : toks'[i] = toks[i]
        /\ toks'[Len(toks) + 1] = t
    BY AddedIs, Zenon
  <1>2. k \in 1 .. Len(toks) \/ k = Len(toks) + 1
    <2>1. k \in 1 .. Len(toks) + 1
      BY <1>1, Zenon
    <2> QED
      BY <1>1, <2>1
  <1>3. CASE k \in 1 .. Len(toks)
    BY <1>1, <1>3, Zenon DEF StringInv
  <1>4. CASE k = Len(toks) + 1
    BY <1>1, <1>4, Zenon
  <1> QED
    BY <1>2, <1>3, <1>4

(* A string ends in one of three ways.                                     *)
LEMMA SpanOfEnd ==
  ASSUME NEW s, NEW from, NEW to, NEW t, t.from = from, t.to = to,
         LET first == FirstOf(s, from)
             close == Closer(Opener(s, QuoteOf(s, from)))
         IN  /\ \A x \in first .. to - Len(close) - 1 : ~Ends(s, first, x, close)
             /\ \/ to - Len(close) >= first /\ Ends(s, first, to - Len(close), close)
                \/ to = Len(s) + 1
                \/ to - first >= Cap
  PROVE  StringSpan(s, t)
  BY Zenon DEF StringSpan

LEMMA EndedText ==
  ASSUME TypeInv, StringInv, NEW buf, NEW q, StringEnds(buf, q), src' = src,
         \A t : t.from = str.from /\ t.to = q => StringSpan(src, t)
  PROVE  StringInv'
  <1> DEFINE t == Token("string", str.mark \o CString(buf), str.from, q, str.line, str.col)
  <1>1. toks' = Append(toks, t) /\ ~Reading'
    BY Zenon DEF StringEnds, Add, Reading, NoString
  <1>2. t.from = str.from /\ t.to = q
    BY TokenFields
  <1> HIDE DEF t
  <1>3. StringSpan(src, t)
    BY <1>2, Zenon
  <1>4. \A k \in DOMAIN toks' : toks'[k].type = "string" => StringSpan(src', toks'[k])
    BY <1>1, <1>3, AddedSpan, Zenon
  <1> QED
    BY <1>1, <1>4, Zenon DEF StringInv

LEMMA StringInit == Init => StringInv
  <1> SUFFICES ASSUME Init PROVE StringInv
    OBVIOUS
  <1>1. ~Reading /\ toks = <<>>
    BY Zenon DEF Init, Reading
  <1>2. DOMAIN toks = {}
    BY <1>1
  <1> QED
    BY <1>1, <1>2, Zenon DEF StringInv

LEMMA StringOpens ==
  ASSUME TypeInv, StringInv, OpenString
  PROVE  StringInv'
  <1>1. PICK mark, r : /\ Open(mark, r) /\ r = QuoteOf(src, p)
                       /\ Ahead(src, p + 1, r + Len(Opener(src, r)))
    BY OpenStringIs, Zenon
  <1> DEFINE first == FirstOf(src, p)
  <1>2. src' = src /\ toks' = toks /\ pos' = first
    BY <1>1, Zenon DEF Open, AdvanceTo, FirstOf
  <1>3. /\ {"from", "opener", "buf"} \subseteq DOMAIN str'
        /\ str'.from = p /\ str'.opener = Opener(src, r) /\ str'.buf = <<>>
    <2> HIDE DEF p
    <2> QED
      BY <1>1 DEF Open
  <1>4. first \in Nat \ {0} /\ first \in 1 .. first
    <2>1. Ahead(src, p + 1, first) /\ p \in Nat
      BY <1>1, HeadIs, Zenon DEF FirstOf
    <2> HIDE DEF first, p
    <2> QED
      BY <2>1 DEF Ahead
  <1>5. Even(src, first, first)
    <2>1. first \in Nat /\ first <= first /\ 0 % 2 = 0
      BY <1>4
    <2> HIDE DEF first
    <2> QED
      BY <2>1, SlashesNone, Zenon DEF Even
  <1>6. SomeSeq(<<>>) /\ Len(<<>>) <= first - first /\ first .. first - 1 = {}
    <2> HIDE DEF first
    <2>1. first .. first - 1 = {} /\ Len(<<>>) <= first - first
      BY <1>4
    <2> QED
      BY <2>1 DEF SomeSeq
  <1> HIDE DEF first
  <1>7. FirstOf(src, str'.from) = first
    BY <1>3, Zenon DEF first
  <1>8. Span(src', pos', str')
    BY <1>1, <1>2, <1>3, <1>4, <1>5, <1>6, <1>7 DEF Span
  <1>9. (\A k \in DOMAIN toks : toks[k].type = "string" => StringSpan(src, toks[k]))'
    BY <1>2, Zenon DEF StringInv
  <1>10. (StringInv <=> /\ \A k \in DOMAIN toks : toks[k].type = "string" => StringSpan(src, toks[k])
                        /\ Reading => Span(src, pos, str))'
    BY StringInvIs, PTL
  <1> QED
    BY <1>8, <1>9, <1>10

LEMMA StringReads ==
  ASSUME TypeInv, StringInv, Keep \/ Close
  PROVE  StringInv'
  <1> DEFINE a == FirstOf(src, str.from)
             close == Closer(str.opener)
  <1>1. /\ Reading /\ src' = src /\ pos \in Nat /\ Len(src) \in Nat
        /\ src \in Seq(STRING) /\ str.opener \in Openers
    BY HeadIs, Zenon DEF Keep, Close, TypeInv, Reading
  <1>2. /\ {"from", "opener", "buf"} \subseteq DOMAIN str
        /\ str.opener = Opener(src, QuoteOf(src, str.from))
        /\ a \in 1 .. pos
        /\ \A q \in a .. pos - 1 : ~Ends(src, a, q, close)
        /\ Even(src, a, pos) \/ pos = Len(src) + 1
        /\ SomeSeq(str.buf) /\ Len(str.buf) <= pos - a
    BY <1>1, Zenon DEF StringInv
  <1>3. Len(close) \in Nat \ {0} /\ Spelling(close) /\ Len(str.opener) = Len(close)
    BY <1>1, OpenersSpelled, Zenon
  <1>4. close = Closer(Opener(src, QuoteOf(src, str.from)))
    BY <1>2, Zenon
  <1>5. CASE Keep
    <2>1. pos \in 1 .. Len(src)
      BY <1>5, KeepIs
    <2>2. Even(src, a, pos)
      <3>1. pos # Len(src) + 1
        BY <1>1, <2>1
      <3> QED
        BY <1>2, <3>1, Zenon
    <2> HIDE DEF a, close
    <2>3. /\ \A q \in a .. KeptTo - 1 : ~Ends(src, a, q, close)
          /\ Even(src, a, KeptTo) \/ KeptTo = Len(src) + 1
          /\ SomeSeq(KeptBuf) /\ Len(KeptBuf) <= KeptTo - a
          /\ a \in 1 .. KeptTo /\ KeptTo \in Nat
      BY <1>2, <1>5, <2>2, KeepsOn, Zenon DEF close
    <2>4. pos' = KeptTo
      BY <1>5, KeepIs, Zenon DEF Reads, AdvanceTo
    <2>5. CASE Len(KeptBuf) >= Cap
      <3>1. StringEnds(KeptBuf, KeptTo)
        BY <1>5, <2>5, KeepIs, Zenon
      <3>2. KeptTo - a >= Cap
        <4>1. Len(KeptBuf) \in Nat /\ a \in Nat
          BY <2>3 DEF SomeSeq
        <4> QED
          BY <2>3, <2>5, <4>1, CapAssumption
      <3>3. \A q \in a .. KeptTo - Len(close) - 1 : ~Ends(src, a, q, close)
        <4>1. \A q \in a .. KeptTo - Len(close) - 1 : q \in a .. KeptTo - 1
          BY <1>3, <2>3
        <4> QED
          BY <2>3, <4>1, Zenon
      <3>4. \A t : t.from = str.from /\ t.to = KeptTo => StringSpan(src, t)
        BY <1>4, <3>2, <3>3, SpanOfEnd, Zenon DEF a
      <3> QED
        BY <1>1, <3>1, <3>4, EndedText, Zenon
    <2>6. CASE ~(Len(KeptBuf) >= Cap)
      <3>1. str' = [str EXCEPT !.buf = KeptBuf] /\ toks' = toks
        BY <1>5, <2>6, KeepIs, Zenon
      <3>2. /\ str'.from = str.from /\ str'.opener = str.opener /\ str'.buf = KeptBuf
            /\ {"from", "opener", "buf"} \subseteq DOMAIN str'
        <4> HIDE DEF KeptBuf
        <4> QED
          BY <1>2, <3>1
      <3>3. Span(src', pos', str')
        BY <1>1, <1>2, <2>3, <2>4, <3>2, Zenon DEF Span, a, close
      <3>4. (\A k \in DOMAIN toks : toks[k].type = "string" => StringSpan(src, toks[k]))'
        BY <1>1, <3>1, Zenon DEF StringInv
      <3>5. (StringInv <=> /\ \A k \in DOMAIN toks : toks[k].type = "string" => StringSpan(src, toks[k])
                           /\ Reading => Span(src, pos, str))'
        BY StringInvIs, PTL
      <3> QED
        BY <3>3, <3>4, <3>5
    <2> QED
      BY <2>5, <2>6
  <1>6. CASE Close
    <2> HIDE DEF a, close
    <2>1. CASE pos = Len(src) + 1 /\ StringEnds(str.buf, pos)
      <3>1. \A q \in a .. pos - Len(close) - 1 : ~Ends(src, a, q, close)
        <4>1. \A q \in a .. pos - Len(close) - 1 : q \in a .. pos - 1
          BY <1>1, <1>2, <1>3
        <4> QED
          BY <1>2, <4>1, Zenon
      <3>2. \A t : t.from = str.from /\ t.to = pos => StringSpan(src, t)
        BY <1>4, <2>1, <3>1, SpanOfEnd, Zenon DEF a
      <3> QED
        BY <1>1, <2>1, <3>2, EndedText, Zenon
    <2>2. CASE Follows(src, pos, close) /\ StringEnds(str.buf, pos + Len(str.opener))
      <3> DEFINE q == pos + Len(str.opener)
      <3>1. q - Len(close) = pos /\ q - Len(close) - 1 = pos - 1 /\ pos >= a /\ pos \in Nat \ {0}
        BY <1>1, <1>2, <1>3
      <3>2. pos # Len(src) + 1
        <4>1. pos \in 1 .. Len(src)
          BY <1>1, <1>3, <2>2, <3>1, FollowsIs, Zenon
        <4> QED
          BY <1>1, <4>1
      <3>3. Ends(src, a, pos, close)
        <4>1. a \in Nat /\ a <= pos
          BY <1>1, <1>2
        <4> QED
          BY <1>1, <1>2, <2>2, <3>2, <4>1, EvenIs, Zenon DEF Ends
      <3> HIDE DEF q
      <3>4. \A t : t.from = str.from /\ t.to = q => StringSpan(src, t)
        <4>1. \A x \in a .. q - Len(close) - 1 : ~Ends(src, a, x, close)
          BY <1>2, <3>1, Zenon
        <4>2. q - Len(close) >= a /\ Ends(src, a, q - Len(close), close)
          BY <3>1, <3>3, Zenon
        <4> QED
          BY <1>4, <4>1, <4>2, SpanOfEnd, Zenon DEF a
      <3> QED
        BY <1>1, <2>2, <3>4, EndedText, Zenon DEF q
    <2> QED
      BY <1>6, <2>1, <2>2, CloseIs, Zenon DEF close
  <1> QED
    BY <1>5, <1>6

LEMMA StringsApart ==
  ASSUME TypeInv, StringInv, Comment \/ NewLine \/ ReadLexeme \/ EndOfSource
  PROVE  StringInv'
  <1>1. src' = src /\ ~Reading'
    BY Zenon DEF Comment, NewLine, ReadLexeme, EndOfSource, Between, Take, Reading, NoString
  <1>2. \/ toks' = toks
        \/ \E t : toks' = Append(toks, t) /\ t.type # "string"
    <2>1. ASSUME NEW l, Take(l), l.type # "string"
          PROVE  \E t : toks' = Append(toks, t) /\ t.type # "string"
      <3> DEFINE t == Token(l.type, l.val, p, l.next, LineAt(p), ColAt(p))
      <3>1. toks' = Append(toks, t)
        BY <2>1, Zenon DEF Take, Add
      <3>2. t.type = l.type
        BY TokenFields
      <3> HIDE DEF t
      <3> QED
        BY <2>1, <3>1, <3>2, Zenon
    <2>2. CASE Comment
      BY <2>2, Zenon DEF Comment
    <2>3. CASE NewLine
      <3> DEFINE l == Lexeme("newline", <<"\n">>, p + 1)
      <3>1. Take(l)
        BY <2>3, Zenon DEF NewLine
      <3>2. l.type = "newline"
        BY Fields
      <3> HIDE DEF l
      <3>3. l.type # "string"
        BY <3>2, Zenon
      <3> QED
        BY <2>1, <3>1, <3>3, Zenon
    <2>4. CASE ReadLexeme
      BY <2>1, <2>4, LexemeReads, Zenon DEF ReadLexeme, Made
    <2>5. CASE EndOfSource
      <3> DEFINE l == Lexeme("eof", <<>>, p)
      <3>1. Take(l)
        BY <2>5, Zenon DEF EndOfSource
      <3>2. l.type = "eof"
        BY Fields
      <3> HIDE DEF l
      <3>3. l.type # "string"
        BY <3>2, Zenon
      <3> QED
        BY <2>1, <3>1, <3>3, Zenon
    <2> QED
      BY <2>2, <2>3, <2>4, <2>5
  <1>3. \A k \in DOMAIN toks' : toks'[k].type = "string" => StringSpan(src, toks'[k])
    <2>1. CASE toks' = toks
      BY <2>1, Zenon DEF StringInv
    <2>2. CASE \E t : toks' = Append(toks, t) /\ t.type # "string"
      BY <2>2, AddedSpan, Zenon
    <2> QED
      BY <1>2, <2>1, <2>2
  <1> QED
    BY <1>1, <1>3, Zenon DEF StringInv

(* A string token reaches exactly to the first delimiter that is not       *)
(* escaped, unless the buffer is full or the source ends first.            *)
THEOREM StringsEnd == Spec => []StringsEndWhereTheyEnd
  <1>1. StringInv => StringsEndWhereTheyEnd
    BY SpansOfTokens, Zenon DEF StringInv
  <1>2. Init => StringInv
    BY StringInit
  <1>3. TypeInv /\ StringInv /\ [Next]_vars => StringInv'
    <2> SUFFICES ASSUME TypeInv, StringInv, [Next]_vars PROVE StringInv'
      OBVIOUS
    <2>1. CASE UNCHANGED vars
      <3>1. StringInv /\ src' = src /\ pos' = pos /\ str' = str /\ toks' = toks
        BY <2>1, Zenon DEF vars
      <3> QED
        BY <3>1, Zenon DEF StringInv, Reading, NoString
    <2> QED
      BY <2>1, StringsApart, StringOpens, StringReads, Zenon DEF Next
  <1> QED
    BY <1>1, <1>2, <1>3, TypeCorrect, PTL DEF Spec
=============================================================================
