-------------------------- MODULE V5IncludesProofs --------------------------
(***************************************************************************)
(* Splicing while parsing implements IncludeOnce, and pass 2 emits what    *)
(* pass 1 has built, for every tree of files and every search.             *)
(***************************************************************************)
EXTENDS V5Includes, WellFoundedInduction, SequenceTheorems, TLAPS

-----------------------------------------------------------------------------
(* A set of numbers has a least one: the order on pairs first.             *)
LEMMA LeastIn ==
  ASSUME NEW R, NEW S \in SUBSET Nat,
         \A x, y \in Nat : y < x => <<y, x>> \in R,
         NEW x \in S, \A y \in S : ~(<<y, x>> \in R)
  PROVE  \A y \in S : x <= y
  <1> SUFFICES ASSUME NEW y \in S, ~(x <= y) PROVE FALSE
    OBVIOUS
  <1>1. x \in Nat /\ y \in Nat /\ y < x
    OBVIOUS
  <1>2. <<y, x>> \in R
    BY <1>1, Zenon
  <1> QED
    BY <1>2, Zenon

LEMMA Least ==
  ASSUME NEW S \in SUBSET Nat, S # {}
  PROVE  \E x \in S : \A y \in S : x <= y
  <1> DEFINE R == OpToRel(<, Nat)
  <1>1. \E x \in S : \A y \in S : ~(<<y, x>> \in R)
    BY NatLessThanWellFounded, WFMin
  <1>2. \A x, y \in Nat : y < x => <<y, x>> \in R
    BY DEF OpToRel
  <1> HIDE DEF R
  <1> QED
    BY <1>1, <1>2, LeastIn

(* Induction over an interval: a set with its first number that holds the  *)
(* next one with each holds them all.                                      *)
LEMMA UpTo ==
  ASSUME NEW a \in Int, NEW b \in Int, NEW S, a <= b => a \in S,
         \A k \in a .. b - 1 : k \in S => k + 1 \in S
  PROVE  a .. b \subseteq S
  <1> SUFFICES ASSUME NEW k \in a .. b, k \notin S PROVE FALSE
    OBVIOUS
  <1> DEFINE M == {m \in Nat : a + m <= b /\ a + m \notin S}
  <1>1. k - a \in M
    OBVIOUS
  <1>2. PICK m \in M : \A x \in M : m <= x
    BY <1>1, Least
  <1>3. m \in Nat /\ a + m <= b /\ a + m \notin S
    BY <1>2
  <1>4. m # 0
    BY <1>3
  <1>5. m - 1 \in Nat /\ a + (m - 1) \in a .. b - 1 /\ (a + (m - 1)) + 1 = a + m
    BY <1>3, <1>4
  <1>6. a + (m - 1) \notin S
    BY <1>3, <1>5
  <1>7. m - 1 \in M
    BY <1>3, <1>5, <1>6
  <1> QED
    BY <1>2, <1>3, <1>7

(* f is defined by recursion over 0 .. n, from base by the steps G.        *)
Recursive(X, base, n, G, f) ==
  /\ f \in [0 .. n -> X]
  /\ f[0] = base
  /\ \A k \in 1 .. n : f[k] = G[<<k, f[k - 1]>>]

(* There is such a function.                                               *)
LEMMA Recursion ==
  ASSUME NEW X, NEW base \in X, NEW n \in Nat, NEW G \in [(1 .. n) \X X -> X]
  PROVE  \E f : Recursive(X, base, n, G, f)
  <1> DEFINE Upto(m) == \E f \in [0 .. m -> X] :
                          /\ f[0] = base
                          /\ \A k \in 1 .. m : f[k] = G[<<k, f[k - 1]>>]
             S == {m \in 0 .. n : Upto(m)}
  <1>1. 0 \in S
    <2> DEFINE f == [k \in 0 .. 0 |-> base]
    <2>1. f \in [0 .. 0 -> X] /\ f[0] = base /\ \A k \in 1 .. 0 : f[k] = G[<<k, f[k - 1]>>]
      OBVIOUS
    <2> HIDE DEF f
    <2>2. Upto(0)
      BY <2>1
    <2> QED
      BY <2>2
  <1>2. ASSUME NEW m \in 0 .. n - 1, m \in S PROVE m + 1 \in S
    <2>1. PICK f \in [0 .. m -> X] : /\ f[0] = base
                                     /\ \A k \in 1 .. m : f[k] = G[<<k, f[k - 1]>>]
      BY <1>2
    <2>2. G[<<m + 1, f[m]>>] \in X
      OBVIOUS
    <2> DEFINE g == [k \in 0 .. m + 1 |-> IF k <= m THEN f[k] ELSE G[<<m + 1, f[m]>>]]
    <2>3. g \in [0 .. m + 1 -> X] /\ g[0] = base
      BY <2>1, <2>2
    <2>4. ASSUME NEW k \in 1 .. m + 1 PROVE g[k] = G[<<k, g[k - 1]>>]
      <3>1. k - 1 \in 0 .. m /\ g[k - 1] = f[k - 1]
        OBVIOUS
      <3>2. CASE k <= m
        BY <2>1, <3>1, <3>2
      <3>3. CASE k = m + 1
        <4>1. k - 1 = m /\ g[k] = G[<<m + 1, f[m]>>]
          BY <3>3
        <4> QED
          BY <3>1, <3>3, <4>1, Zenon
      <3> QED
        BY <3>2, <3>3
    <2> HIDE DEF g
    <2>5. Upto(m + 1)
      BY <2>3, <2>4
    <2> QED
      BY <2>5
  <1> HIDE DEF S
  <1>3. 0 .. n \subseteq S
    <2>1. \A k \in 0 .. n - 1 : k \in S => k + 1 \in S
      BY <1>2
    <2> QED
      BY <1>1, <2>1, UpTo
  <1> QED
    BY <1>3 DEF S, Recursive

Token == Path \X (Nat \ {0})

(* The declarations among the first n tokens of a stream, with the files   *)
(* and the stream as parameters: Declared(n) is Picks(body, toks, n).      *)
Picked(b, t) == b[RealPath[t[1]]][t[2]] = Text
Picks(b, ts, n) ==
  LET picks[k \in 0..n] ==
        IF k = 0 THEN <<>>
        ELSE IF Picked(b, ts[k])
               THEN Append(picks[k - 1], <<RealPath[ts[k][1]], ts[k][2]>>)
               ELSE picks[k - 1]
  IN  picks[n]

(* f is the function picks.                                                *)
IsPicks(b, ts, n, f) ==
  f = [k \in 0..n |->
         IF k = 0 THEN <<>>
         ELSE IF Picked(b, ts[k])
                THEN Append(f[k - 1], <<RealPath[ts[k][1]], ts[k][2]>>)
                ELSE f[k - 1]]

(* f grows as Picks does.                                                  *)
Grows(b, ts, n, f) ==
  /\ f[0] = <<>>
  /\ \A k \in 1..n :
       f[k] = IF Picked(b, ts[k])
                THEN Append(f[k - 1], <<RealPath[ts[k][1]], ts[k][2]>>)
                ELSE f[k - 1]

LEMMA GrowsExists ==
  ASSUME NEW b, NEW ts, NEW n \in Nat
  PROVE  \E f : IsPicks(b, ts, n, f)
  <1> DEFINE E == [k \in 1..n |-> <<RealPath[ts[k][1]], ts[k][2]>>]
             S == {E[k] : k \in 1..n}
             G == [kx \in (1..n) \X Seq(S) |->
                     IF Picked(b, ts[kx[1]]) THEN Append(kx[2], E[kx[1]]) ELSE kx[2]]
  <1>1. ASSUME NEW k \in 1..n, NEW x \in Seq(S)
        PROVE  /\ G[<<k, x>>] = IF Picked(b, ts[k]) THEN Append(x, E[k]) ELSE x
               /\ G[<<k, x>>] \in Seq(S)
    <2>1. G[<<k, x>>] = IF Picked(b, ts[k]) THEN Append(x, E[k]) ELSE x
      OBVIOUS
    <2>2. E[k] \in S
      OBVIOUS
    <2> HIDE DEF S, G, E
    <2>3. Append(x, E[k]) \in Seq(S)
      BY <2>2
    <2> QED
      BY <2>1, <2>3
  <1>2. \A k \in 1..n : E[k] = <<RealPath[ts[k][1]], ts[k][2]>>
    OBVIOUS
  <1>3. G \in [(1..n) \X Seq(S) -> Seq(S)]
    <2>1. G = [kx \in (1..n) \X Seq(S) |-> G[kx]]
      OBVIOUS
    <2>2. ASSUME NEW kx \in (1..n) \X Seq(S) PROVE G[kx] \in Seq(S)
      <3>1. kx[1] \in 1..n /\ kx[2] \in Seq(S) /\ kx = <<kx[1], kx[2]>>
        OBVIOUS
      <3> HIDE DEF G, S, E
      <3> QED
        BY <3>1, <1>1
    <2> HIDE DEF G, S, E
    <2> QED
      BY <2>1, <2>2
  <1>4. <<>> \in Seq(S)
    OBVIOUS
  <1> HIDE DEF G, S, E
  <1>5. PICK f \in [0..n -> Seq(S)] :
          f[0] = <<>> /\ \A k \in 1..n : f[k] = G[<<k, f[k - 1]>>]
    <2> DEFINE X == Seq(S)
               none == <<>>
    <2>1. G \in [(1..n) \X X -> X] /\ none \in X
      BY <1>3, <1>4
    <2> HIDE DEF X, none
    <2>2. PICK f : Recursive(X, none, n, G, f)
      BY <2>1, Recursion
    <2> QED
      BY <2>2, Zenon DEF X, none, Recursive
  <1>6. \A k \in 1..n : f[k] = IF Picked(b, ts[k])
                                 THEN Append(f[k - 1], <<RealPath[ts[k][1]], ts[k][2]>>)
                                 ELSE f[k - 1]
    <2> SUFFICES ASSUME NEW k \in 1..n
                 PROVE  f[k] = IF Picked(b, ts[k])
                                 THEN Append(f[k - 1], <<RealPath[ts[k][1]], ts[k][2]>>)
                                 ELSE f[k - 1]
      OBVIOUS
    <2>1. k - 1 \in 0..n
      OBVIOUS
    <2>2. f[k - 1] \in Seq(S)
      BY <2>1
    <2>3. f[k] = IF Picked(b, ts[k]) THEN Append(f[k - 1], E[k]) ELSE f[k - 1]
      BY <1>1, <1>5, <2>2
    <2> QED
      BY <2>3, <1>2, Zenon
  <1>7. \A k \in 0..n : k = 0 \/ k \in 1..n
    OBVIOUS
  <1> QED
    BY <1>5, <1>6, <1>7 DEF IsPicks

LEMMA PicksGrows ==
  ASSUME NEW b, NEW ts, NEW n \in Nat
  PROVE  \E f : Grows(b, ts, n, f) /\ Picks(b, ts, n) = f[n]
  <1> DEFINE g == CHOOSE f : IsPicks(b, ts, n, f)
  <1>1. IsPicks(b, ts, n, g)
    BY GrowsExists, Zenon
  <1>2. Picks(b, ts, n) = g[n]
    BY Zenon DEF Picks, IsPicks
  <1> HIDE DEF g
  <1>3. Grows(b, ts, n, g)
    <2>1. \A k \in 0..n : g[k] = IF k = 0 THEN <<>>
                       ELSE IF Picked(b, ts[k])
                              THEN Append(g[k - 1], <<RealPath[ts[k][1]], ts[k][2]>>)
                              ELSE g[k - 1]
      BY <1>1 DEF IsPicks
    <2>2. 0 \in 0..n /\ \A k \in 1..n : k \in 0..n /\ k # 0
      OBVIOUS
    <2> QED
      BY <2>1, <2>2, Zenon DEF Grows
  <1> QED
    BY <1>2, <1>3

(* Two streams that begin with the same n tokens have the same             *)
(* declarations among them.                                                *)
LEMMA GrowsAlike ==
  ASSUME NEW b, NEW ts, NEW us, NEW n \in Nat, NEW f, NEW g,
         Grows(b, ts, n, f), Grows(b, us, n, g), \A k \in 1..n : ts[k] = us[k]
  PROVE  f[n] = g[n]
  <1> DEFINE S == {k \in 0..n : f[k] = g[k]}
  <1>1. 0 \in S
    BY DEF Grows
  <1>2. ASSUME NEW k \in 0..n - 1, k \in S PROVE k + 1 \in S
    <2>1. k + 1 \in 1..n /\ (k + 1) - 1 = k /\ f[k] = g[k]
      BY <1>2
    <2>2. f[k + 1] = g[k + 1]
      BY <2>1, Zenon DEF Grows
    <2> QED
      BY <2>1, <2>2
  <1> HIDE DEF S
  <1>3. 0..n \subseteq S
    <2>1. \A k \in 0..n - 1 : k \in S => k + 1 \in S
      BY <1>2
    <2> QED
      BY <1>1, <2>1, UpTo
  <1> QED
    BY <1>3 DEF S

LEMMA PicksAlike ==
  ASSUME NEW b, NEW ts, NEW us, NEW n \in Nat, \A k \in 1..n : ts[k] = us[k]
  PROVE  Picks(b, ts, n) = Picks(b, us, n)
  BY PicksGrows, GrowsAlike

LEMMA PicksNext ==
  ASSUME NEW b, NEW ts, NEW n \in Nat \ {0}
  PROVE  Picks(b, ts, n) = IF Picked(b, ts[n])
                             THEN Append(Picks(b, ts, n - 1), <<RealPath[ts[n][1]], ts[n][2]>>)
                             ELSE Picks(b, ts, n - 1)
  <1>1. PICK f : Grows(b, ts, n, f) /\ Picks(b, ts, n) = f[n]
    BY PicksGrows
  <1>2. n - 1 \in Nat /\ n \in 1..n /\ \A k \in 1..n - 1 : k \in 1..n
    OBVIOUS
  <1>3. Grows(b, ts, n - 1, f)
    BY <1>1, <1>2, Zenon DEF Grows
  <1>4. PICK g : Grows(b, ts, n - 1, g) /\ Picks(b, ts, n - 1) = g[n - 1]
    BY <1>2, PicksGrows
  <1>5. f[n - 1] = g[n - 1]
    BY <1>2, <1>3, <1>4, GrowsAlike
  <1> QED
    BY <1>1, <1>2, <1>4, <1>5, Zenon DEF Grows

LEMMA PicksNone == ASSUME NEW b, NEW ts PROVE Picks(b, ts, 0) = <<>>
  BY PicksGrows DEF Grows

LEMMA DeclaredIs == \A n : Declared(n) = Picks(body, toks, n)
  BY Zenon DEF Declared, Picks, Picked, LineAt, Lines, Item
-----------------------------------------------------------------------------
(* Every token is a line of the file it came from.                         *)
TypeInv ==
  /\ body \in [Path -> Seq(Line)]
  /\ toks \in Seq(Token)
  /\ \A k \in 1..Len(toks) : toks[k][2] \in 1..Len(Lines(toks[k][1]))
  /\ pos \in 1..(Len(toks) + 1)
  /\ seen \subseteq Path
  /\ pass \in {"scan", "emit"}
  /\ status \in {"run", "ok"} \cup Errors

(* What pass 2 has emitted, and where it ends.                             *)
EmitInv ==
  /\ pass = "emit" => out = Picks(body, toks, pos - 1)
  /\ status = "ok" => pass = "emit" /\ pos = Len(toks) + 1

IInv == TypeInv /\ EmitInv

(* The tokens of a file.                                                   *)
LEMMA FileTokens ==
  ASSUME body \in [Path -> Seq(Line)], NEW q \in Path
  PROVE  /\ TokensOf(q) \in Seq(Token)
         /\ \A k \in 1..Len(TokensOf(q)) :
              TokensOf(q)[k][2] \in 1..Len(Lines(TokensOf(q)[k][1]))
  <1>1. RealPath[q] \in Path /\ Lines(q) \in Seq(Line)
    BY V5Assumption DEF V5Assumption, Lines
  <1>2. Len(Lines(q)) \in Nat
    BY <1>1
  <1>3. \A k \in 1..Len(Lines(q)) : <<q, k>> \in Token
    BY DEF Token
  <1>4. TokensOf(q) \in Seq(Token) /\ Len(TokensOf(q)) = Len(Lines(q))
    BY <1>2, <1>3 DEF TokensOf
  <1>5. \A k \in 1..Len(Lines(q)) : TokensOf(q)[k] = <<q, k>>
    BY DEF TokensOf
  <1> QED
    BY <1>4, <1>5

(* What stands at the position, and what a directive names.                *)
LEMMA TokenAt ==
  ASSUME TypeInv, AtToken
  PROVE  /\ pos \in 1..Len(toks) /\ Len(toks) \in Nat
         /\ toks[pos] \in Token
         /\ LineAt(toks[pos]) \in Line
         /\ LineAt(toks[pos]) # Text =>
              Named \in Path \cup {NoPath} /\ (Named # NoPath => Target \in Path)
  <1>1. pos \in 1..Len(toks) /\ Len(toks) \in Nat
    BY DEF TypeInv, AtToken
  <1>2. toks[pos] \in Token /\ toks[pos][1] \in Path
    BY <1>1 DEF TypeInv, Token
  <1>3. Lines(toks[pos][1]) \in Seq(Line)
    BY <1>2, V5Assumption DEF V5Assumption, TypeInv, Lines
  <1>4. LineAt(toks[pos]) \in Line
    BY <1>1, <1>3 DEF TypeInv, LineAt
  <1>5. LineAt(toks[pos]) # Text =>
          Named \in Path \cup {NoPath} /\ (Named # NoPath => Target \in Path)
    BY <1>2, <1>4, V5Assumption DEF V5Assumption, Line, Named, Target
  <1> QED
    BY <1>1, <1>2, <1>4, <1>5

(* The elements of two sequences put together, and what follows the first. *)
LEMMA SecondPart ==
  ASSUME NEW S, NEW a \in Seq(S), NEW c \in Seq(S), NEW n, n = Len(a) + 1
  PROVE  SubSeq(a \o c, n, Len(a \o c)) = c
  <1> DEFINE u == a \o c
             v == SubSeq(u, n, Len(u))
  <1>1. /\ u \in Seq(S) /\ Len(u) = Len(a) + Len(c)
        /\ Len(a) \in Nat /\ Len(c) \in Nat
        /\ \A i \in 1..Len(a) + Len(c) : u[i] = IF i <= Len(a) THEN a[i] ELSE c[i - Len(a)]
    BY ConcatProperties
  <1> HIDE DEF u
  <1>2. v \in Seq(S) /\ Len(v) = Len(c) /\ \A i \in 1..Len(c) : v[i] = u[n + i - 1]
    BY <1>1
  <1> HIDE DEF v
  <1>3. ASSUME NEW i \in 1..Len(c) PROVE v[i] = c[i]
    <2>1. n + i - 1 = Len(a) + i /\ Len(a) + i \in 1..Len(a) + Len(c)
      BY <1>1
    <2>2. ~(Len(a) + i <= Len(a)) /\ (Len(a) + i) - Len(a) = i
      BY <1>1
    <2>3. u[Len(a) + i] = c[i]
      BY <1>1, <2>1, <2>2
    <2> QED
      BY <1>2, <2>1, <2>3
  <1>4. v = c
    BY <1>2, <1>3, SeqEqual
  <1> QED
    BY <1>4 DEF v, u

LEMMA ElementsOfTwo ==
  ASSUME NEW S, NEW a \in Seq(S), NEW c \in Seq(S), NEW i \in 1..Len(a \o c)
  PROVE  \/ \E j \in 1..Len(a) : (a \o c)[i] = a[j]
         \/ \E j \in 1..Len(c) : (a \o c)[i] = c[j]
  <1> DEFINE u == a \o c
  <1>1. /\ Len(u) = Len(a) + Len(c)
        /\ Len(a) \in Nat /\ Len(c) \in Nat
        /\ \A k \in 1..Len(a) + Len(c) : u[k] = IF k <= Len(a) THEN a[k] ELSE c[k - Len(a)]
    BY ConcatProperties
  <1>2. i \in 1..Len(u)
    OBVIOUS
  <1> HIDE DEF u
  <1>3. CASE i <= Len(a)
    <2>1. i \in 1..Len(a) /\ u[i] = a[i]
      BY <1>1, <1>2, <1>3
    <2> QED
      BY <2>1 DEF u
  <1>4. CASE ~(i <= Len(a))
    <2>1. i - Len(a) \in 1..Len(c) /\ u[i] = c[i - Len(a)]
      BY <1>1, <1>2, <1>4
    <2> QED
      BY <2>1 DEF u
  <1> QED
    BY <1>3, <1>4

(* A sequence cut behind its q-th element.                                 *)
LEMMA CutFront ==
  ASSUME NEW S, NEW s \in Seq(S), NEW q \in Nat, q <= Len(s)
  PROVE  /\ SubSeq(s, 1, q) \in Seq(S)
         /\ Len(SubSeq(s, 1, q)) = q
         /\ \A k \in 1..q : SubSeq(s, 1, q)[k] = s[k]
  OBVIOUS

LEMMA CutBack ==
  ASSUME NEW S, NEW s \in Seq(S), NEW q \in Nat, q <= Len(s)
  PROVE  /\ SubSeq(s, q + 1, Len(s)) \in Seq(S)
         /\ Len(SubSeq(s, q + 1, Len(s))) = Len(s) - q
         /\ \A k \in 1..Len(s) - q : SubSeq(s, q + 1, Len(s))[k] = s[q + k]
  OBVIOUS

(* u is a and c put together.                                              *)
Joined(S, u, a, c) ==
  /\ u \in Seq(S)
  /\ Len(u) = Len(a) + Len(c)
  /\ \A k \in 1..Len(a) : u[k] = a[k]
  /\ SubSeq(u, Len(a) + 1, Len(u)) = c
  /\ \A k \in 1..Len(u) : \/ \E j \in 1..Len(a) : u[k] = a[j]
                          \/ \E j \in 1..Len(c) : u[k] = c[j]

LEMMA TwoParts ==
  ASSUME NEW S, NEW a \in Seq(S), NEW c \in Seq(S)
  PROVE  Joined(S, a \o c, a, c)
  <1> DEFINE u == a \o c
  <1>1. /\ u \in Seq(S) /\ Len(u) = Len(a) + Len(c)
        /\ \A k \in 1..(Len(a) + Len(c)) : u[k] = IF k <= Len(a) THEN a[k] ELSE c[k - Len(a)]
    BY ConcatProperties
  <1>2. SubSeq(u, Len(a) + 1, Len(u)) = c
    BY SecondPart
  <1>3. \A k \in 1..Len(u) : \/ \E j \in 1..Len(a) : u[k] = a[j]
                            \/ \E j \in 1..Len(c) : u[k] = c[j]
    BY ElementsOfTwo
  <1>4. Len(a) \in Nat /\ Len(c) \in Nat
    OBVIOUS
  <1> HIDE DEF u
  <1>5. \A k \in 1..Len(a) : u[k] = a[k]
    <2>1. \A k \in 1..Len(a) : k \in 1..(Len(a) + Len(c)) /\ k <= Len(a)
      BY <1>4
    <2> QED
      BY <1>1, <2>1
  <1> QED
    BY <1>1, <1>2, <1>3, <1>5 DEF u, Joined

(* u is a, t and b put together.                                           *)
Joined3(S, u, a, t, b) ==
  /\ u \in Seq(S)
  /\ Len(u) = Len(a) + Len(t) + Len(b)
  /\ \A k \in 1..Len(a) : u[k] = a[k]
  /\ SubSeq(u, Len(a) + 1, Len(u)) = t \o b
  /\ \A k \in 1..Len(u) : \/ \E j \in 1..Len(a) : u[k] = a[j]
                          \/ \E j \in 1..Len(t) : u[k] = t[j]
                          \/ \E j \in 1..Len(b) : u[k] = b[j]

LEMMA ThreeParts ==
  ASSUME NEW S, NEW a \in Seq(S), NEW t \in Seq(S), NEW b \in Seq(S)
  PROVE  Joined3(S, a \o t \o b, a, t, b)
  <1> DEFINE c == t \o b
             u == a \o t \o b
  <1>1. u = a \o c
    BY ConcatAssociative
  <1>2. c \in Seq(S) /\ Len(c) = Len(t) + Len(b)
    BY ConcatProperties
  <1>3. \A k \in 1..Len(c) : \/ \E j \in 1..Len(t) : c[k] = t[j]
                            \/ \E j \in 1..Len(b) : c[k] = b[j]
    BY ElementsOfTwo
  <1>4. Len(a) \in Nat /\ Len(t) \in Nat /\ Len(b) \in Nat
    OBVIOUS
  <1>5. SubSeq(u, Len(a) + 1, Len(u)) = c => SubSeq(u, Len(a) + 1, Len(u)) = t \o b
    OBVIOUS
  <1> HIDE DEF c, u
  <1>6. Joined(S, a \o c, a, c)
    BY <1>2, TwoParts
  <1> DEFINE v == a \o c
  <1>7. u = v
    BY <1>1
  <1>8. /\ v \in Seq(S) /\ Len(v) = Len(a) + Len(c)
        /\ \A k \in 1..Len(a) : v[k] = a[k]
        /\ SubSeq(v, Len(a) + 1, Len(v)) = c
        /\ \A k \in 1..Len(v) : \/ \E j \in 1..Len(a) : v[k] = a[j]
                               \/ \E j \in 1..Len(c) : v[k] = c[j]
    BY <1>6 DEF Joined
  <1> HIDE DEF v
  <1>9. Len(v) = Len(a) + Len(t) + Len(b)
    BY <1>2, <1>4, <1>8
  <1>10. ASSUME NEW k \in 1..Len(v)
        PROVE  \/ \E j \in 1..Len(a) : v[k] = a[j]
               \/ \E j \in 1..Len(t) : v[k] = t[j]
               \/ \E j \in 1..Len(b) : v[k] = b[j]
    <2>2. CASE \E j \in 1..Len(c) : v[k] = c[j]
      <3>1. PICK j \in 1..Len(c) : v[k] = c[j]
        BY <2>2
      <3>2. (\E i \in 1..Len(t) : c[j] = t[i]) \/ (\E i \in 1..Len(b) : c[j] = b[i])
        BY <1>3
      <3> QED
        BY <3>1, <3>2
    <2> QED
      BY <1>8, <2>2
  <1> QED
    BY <1>5, <1>7, <1>8, <1>9, <1>10 DEF u, Joined3

(* Splicing leaves the tokens up to the position alone and puts those of   *)
(* the file between them and the rest.                                     *)
Spliced ==
  /\ AtDirective
  /\ Named # NoPath
  /\ toks' = SubSeq(toks, 1, pos) \o TokensOf(Named) \o SubSeq(toks, pos + 1, Len(toks))

LEMMA SpliceIs ==
  ASSUME TypeInv, Spliced
  PROVE  /\ toks' \in Seq(Token)
         /\ Len(toks') = Len(toks) + Len(TokensOf(Named)) /\ Len(TokensOf(Named)) \in Nat
         /\ \A k \in 1..pos : toks'[k] = toks[k]
         /\ SubSeq(toks', pos + 1, Len(toks')) =
              TokensOf(Named) \o SubSeq(toks, pos + 1, Len(toks))
         /\ \A k \in 1..Len(toks') : toks'[k][2] \in 1..Len(Lines(toks'[k][1]))
  <1>1. pos \in Nat /\ pos <= Len(toks) /\ Len(toks) \in Nat /\ Named \in Path
    BY TokenAt DEF Spliced, AtDirective
  <1>2. body \in [Path -> Seq(Line)] /\ toks \in Seq(Token)
    BY DEF TypeInv
  <1> DEFINE a == SubSeq(toks, 1, pos)
             t == TokensOf(Named)
             b == SubSeq(toks, pos + 1, Len(toks))
             Fits(x) == x[2] \in 1..Len(Lines(x[1]))
  <1>3. t \in Seq(Token) /\ \A k \in 1..Len(t) : Fits(t[k])
    BY <1>1, <1>2, FileTokens
  <1>4. a \in Seq(Token) /\ Len(a) = pos /\ \A k \in 1..pos : a[k] = toks[k]
    BY <1>1, <1>2, CutFront
  <1>5. /\ b \in Seq(Token) /\ Len(b) = Len(toks) - pos
        /\ \A k \in 1..Len(toks) - pos : b[k] = toks[pos + k]
    BY <1>1, <1>2, CutBack
  <1>6. toks' = a \o t \o b
    BY DEF Spliced
  <1>7. \A k \in 1..Len(toks) : Fits(toks[k])
    BY DEF TypeInv
  <1> HIDE DEF a, t, b, Fits
  <1>8. /\ toks' \in Seq(Token)
        /\ Len(toks') = Len(a) + Len(t) + Len(b)
        /\ \A k \in 1..Len(a) : toks'[k] = a[k]
        /\ SubSeq(toks', Len(a) + 1, Len(toks')) = t \o b
        /\ \A k \in 1..Len(toks') : \/ \E j \in 1..Len(a) : toks'[k] = a[j]
                                    \/ \E j \in 1..Len(t) : toks'[k] = t[j]
                                    \/ \E j \in 1..Len(b) : toks'[k] = b[j]
    <2>1. Joined3(Token, a \o t \o b, a, t, b)
      BY <1>3, <1>4, <1>5, ThreeParts
    <2> QED
      BY <1>6, <2>1, Zenon DEF Joined3
  <1>9. Len(t) \in Nat
    BY <1>3
  <1>10. \A k \in 1..pos : toks'[k] = toks[k]
    BY <1>4, <1>8, Zenon
  <1>11. \A j \in 1..Len(a) : Fits(a[j])
    <2>1. \A j \in 1..pos : j \in 1..Len(toks)
      BY <1>1
    <2> QED
      BY <1>4, <1>7, <2>1, Zenon
  <1>12. \A j \in 1..Len(b) : Fits(b[j])
    <2>1. \A j \in 1..Len(toks) - pos : pos + j \in 1..Len(toks)
      BY <1>1
    <2> QED
      BY <1>5, <1>7, <2>1, Zenon
  <1>13. \A k \in 1..Len(toks') : Fits(toks'[k])
    BY <1>3, <1>8, <1>11, <1>12, Zenon
  <1>14. Len(toks') = Len(toks) + Len(t)
    BY <1>1, <1>4, <1>5, <1>8, <1>9
  <1>15. SubSeq(toks', pos + 1, Len(toks')) = t \o b
    BY <1>4, <1>8, Zenon
  <1> QED
    BY <1>8, <1>9, <1>10, <1>13, <1>14, <1>15 DEF t, b, Fits

LEMMA TypeInit == Init => IInv
  <1> SUFFICES ASSUME Init PROVE IInv
    OBVIOUS
  <1>1. body \in [Path -> Seq(Line)] /\ Main \in Path
    BY V5Assumption DEF V5Assumption, Init
  <1>2. toks = TokensOf(Main)
    BY DEF Init
  <1>3. toks \in Seq(Token) /\ \A k \in 1..Len(toks) : toks[k][2] \in 1..Len(Lines(toks[k][1]))
    BY <1>1, <1>2, FileTokens
  <1> QED
    BY <1>1, <1>3 DEF Init, IInv, TypeInv, EmitInv

LEMMA TypeNext == TypeInv /\ [Next]_vars => TypeInv'
  <1> SUFFICES ASSUME TypeInv, [Next]_vars PROVE TypeInv'
    OBVIOUS
  <1>1. CASE Declaration
    BY <1>1, TokenAt DEF Declaration, TypeInv, Lines
  <1>2. CASE Redeclaration
    BY <1>2 DEF Redeclaration, TypeInv, Errors, Lines
  <1>9. CASE Refused
    BY <1>9 DEF Refused, TypeInv, Errors, Lines
  <1>3. CASE NotFound
    BY <1>3 DEF NotFound, TypeInv, Errors, Lines
  <1>4. CASE AlreadyIncluded
    BY <1>4, TokenAt DEF AlreadyIncluded, AtDirective, TypeInv, Lines
  <1>5. CASE Splice
    <2>1. /\ pos \in 1..Len(toks) /\ Len(toks) \in Nat
          /\ Named \in Path /\ Target \in Path
      BY <1>5, TokenAt DEF Splice, AtDirective
    <2>2. seen' \subseteq Path /\ body' = body /\ pass' = pass
      BY <1>5, <2>1 DEF Splice, TypeInv
    <2>3. CASE toks' = toks /\ pos' = pos /\ status' \in Errors
      BY <2>2, <2>3 DEF TypeInv, Lines
    <2>4. CASE /\ toks' = SubSeq(toks, 1, pos) \o TokensOf(Named)
                            \o SubSeq(toks, pos + 1, Len(toks))
               /\ pos' = pos + 1
               /\ status' = status
      <3>1. Spliced
        BY <1>5, <2>1, <2>4 DEF Spliced, Splice
      <3>2. /\ toks' \in Seq(Token)
            /\ Len(toks') = Len(toks) + Len(TokensOf(Named)) /\ Len(TokensOf(Named)) \in Nat
            /\ \A k \in 1..Len(toks') : toks'[k][2] \in 1..Len(Lines(toks'[k][1]))
        BY <3>1, SpliceIs
      <3>3. pos' \in 1..(Len(toks') + 1)
        <4> DEFINE more == Len(TokensOf(Named))
                   len == Len(toks')
        <4>1. more \in Nat /\ len = Len(toks) + more
          BY <3>2
        <4> HIDE DEF more, len
        <4>2. pos + 1 \in 1..(len + 1)
          BY <2>1, <4>1
        <4> QED
          BY <2>4, <4>2 DEF len
      <3>5. body' \in [Path -> Seq(Line)] /\ pass' \in {"scan", "emit"}
            /\ status' \in {"run", "ok"} \cup Errors
        BY <2>2, <2>4 DEF TypeInv
      <3>6. \A k \in 1..Len(toks') : toks'[k][2] \in 1..Len(body'[RealPath[toks'[k][1]]])
        BY <2>2, <3>2, Zenon DEF Lines
      <3> QED
        BY <2>2, <3>2, <3>3, <3>5, <3>6, Zenon DEF TypeInv, Lines
    <2> QED
      BY <1>5, <2>3, <2>4 DEF Splice, Errors
  <1>6. CASE PassOver
    BY <1>6, TokenAt DEF PassOver, AtDirective, TypeInv, Lines
  <1>7. CASE EndOfStream
    BY <1>7 DEF EndOfStream, TypeInv, Lines
  <1>8. CASE UNCHANGED vars
    BY <1>8 DEF vars, TypeInv, Lines
  <1> QED
    BY <1>1, <1>2, <1>3, <1>4, <1>5, <1>6, <1>7, <1>8, <1>9 DEF Next

(* What the step over a token does to the declarations before the position. *)
LEMMA OneMore ==
  ASSUME TypeInv, AtToken
  PROVE  /\ (pos + 1) - 1 = pos /\ pos \in Nat \ {0}
         /\ Picks(body, toks, pos) =
              IF LineAt(toks[pos]) = Text
                THEN Append(Picks(body, toks, pos - 1), Item(toks[pos]))
                ELSE Picks(body, toks, pos - 1)
  <1>1. pos \in Nat \ {0} /\ (pos + 1) - 1 = pos
    BY DEF TypeInv
  <1> QED
    BY <1>1, PicksNext, Zenon DEF Picked, LineAt, Lines, Item

LEMMA EmitNext == IInv /\ [Next]_vars => EmitInv'
  <1> SUFFICES ASSUME TypeInv, EmitInv, [Next]_vars PROVE EmitInv'
    BY DEF IInv
  <1>1. CASE Declaration
    <2>1. AtToken
      BY <1>1 DEF Declaration
    <2>2. /\ body' = body /\ toks' = toks /\ pass' = pass /\ status' = "run" /\ pos' = pos + 1
          /\ pass = "emit" => out' = Append(out, Item(toks[pos]))
      BY <1>1 DEF Declaration, AtToken
    <2>3. pass = "emit" => out' = Picks(body, toks, pos)
      BY <1>1, <2>1, <2>2, OneMore DEF Declaration, EmitInv
    <2>4. pos' - 1 = pos
      BY <2>1, <2>2, OneMore
    <2> QED
      BY <2>2, <2>3, <2>4 DEF EmitInv
  <1>2. CASE Redeclaration
    BY <1>2 DEF Redeclaration, EmitInv
  <1>9. CASE Refused
    BY <1>9 DEF Refused, EmitInv
  <1>3. CASE NotFound
    BY <1>3 DEF NotFound, EmitInv
  <1>4. CASE AlreadyIncluded
    BY <1>4 DEF AlreadyIncluded, AtDirective, AtToken, EmitInv
  <1>5. CASE Splice
    BY <1>5 DEF Splice, AtDirective, AtToken, EmitInv
  <1>6. CASE PassOver
    <2>1. AtToken /\ LineAt(toks[pos]) # Text
      BY <1>6 DEF PassOver, AtDirective
    <2>2. /\ body' = body /\ toks' = toks /\ pass' = pass /\ status' = "run" /\ pos' = pos + 1
          /\ out' = out
      BY <1>6 DEF PassOver, AtDirective, AtToken
    <2>3. pass = "emit" => out' = Picks(body, toks, pos)
      BY <2>1, <2>2, OneMore DEF EmitInv
    <2>4. pos' - 1 = pos
      BY <2>1, <2>2, OneMore
    <2> QED
      BY <2>2, <2>3, <2>4 DEF EmitInv
  <1>7. CASE EndOfStream
    <2>1. CASE pass = "scan"
      <3>1. pos' - 1 = 0 /\ out' = <<>> /\ status' = "run"
        BY <1>7, <2>1 DEF EndOfStream
      <3>2. Picks(body', toks', pos' - 1) = <<>>
        BY <3>1, PicksNone
      <3> QED
        BY <3>1, <3>2 DEF EmitInv
    <2>2. CASE pass # "scan"
      <3>1. pass = "emit" /\ pos = Len(toks) + 1
        BY <1>7, <2>2 DEF EndOfStream, TypeInv
      <3> QED
        BY <1>7, <2>2, <3>1 DEF EndOfStream, EmitInv
    <2> QED
      BY <2>1, <2>2
  <1>8. CASE UNCHANGED vars
    BY <1>8 DEF vars, EmitInv
  <1> QED
    BY <1>1, <1>2, <1>3, <1>4, <1>5, <1>6, <1>7, <1>8, <1>9 DEF Next

(* The types of the two passes, and what pass 2 has emitted, in every state. *)
THEOREM Inductive == Spec => []IInv
  <1>1. IInv /\ [Next]_vars => IInv'
    BY TypeNext, EmitNext DEF IInv
  <1> QED
    BY TypeInit, <1>1, PTL DEF Spec

(* Pass 2 emits the stream pass 1 has built, in its order and completely,   *)
(* whatever the files contain and wherever the names lead (v5_transpile).   *)
THEOREM EmitsTheStream == Spec => []EmitsWhatWasScanned
  <1>1. IInv => EmitsWhatWasScanned
    <2> SUFFICES ASSUME IInv PROVE EmitsWhatWasScanned
      OBVIOUS
    <2>1. status = "ok" => pos - 1 = Len(toks)
      BY DEF IInv, EmitInv, TypeInv
    <2> QED
      BY <2>1, DeclaredIs DEF IInv, EmitInv, EmitsWhatWasScanned
  <1> QED
    BY Inductive, <1>1, PTL
-----------------------------------------------------------------------------
(* The refinement: the stream behind the position is the work list, and the *)
(* declarations before it are the text.                                    *)
UTodo == IF pass = "scan" THEN SubSeq(toks, pos, Len(toks)) ELSE <<>>
UText == Declared(IF pass = "scan" THEN pos - 1 ELSE Len(toks))
UOut == IF status \in Errors THEN "failed" ELSE status

LEMMA TextIs == UText = Picks(body, toks, IF pass = "scan" THEN pos - 1 ELSE Len(toks))
  BY DeclaredIs, Zenon DEF UText
LEMMA TextNext ==
  UText' = Picks(body', toks', IF pass' = "scan" THEN pos' - 1 ELSE Len(toks'))
  BY Zenon DEF UText, Declared, Picks, Picked, LineAt, Lines, Item

LEMMA FirstOfRest ==
  ASSUME NEW S, NEW s \in Seq(S), NEW p \in Nat \ {0}, p <= Len(s)
  PROVE  /\ SubSeq(s, p, Len(s)) # <<>>
         /\ Head(SubSeq(s, p, Len(s))) = s[p]
         /\ Tail(SubSeq(s, p, Len(s))) = SubSeq(s, p + 1, Len(s))
  <1> DEFINE r == SubSeq(s, p, Len(s))
  <1>1. r \in Seq(S) /\ Len(r) = Len(s) - p + 1 /\ r[1] = s[p]
    OBVIOUS
  <1>2. Tail(r) = SubSeq(s, p + 1, Len(s))
    OBVIOUS
  <1> HIDE DEF r
  <1>3. r # <<>>
    BY <1>1
  <1>4. Head(r) = r[1]
    BY <1>1, <1>3
  <1> QED
    BY <1>1, <1>2, <1>3, <1>4 DEF r

(* What the specification sees while pass 1 stands at a token.             *)
LEMMA Seen ==
  ASSUME TypeInv, AtToken, pass = "scan"
  PROVE  /\ UTodo # <<>> /\ Head(UTodo) = toks[pos]
         /\ Tail(UTodo) = SubSeq(toks, pos + 1, Len(toks))
         /\ UOut = "run"
         /\ UText = Picks(body, toks, pos - 1)
  <1>1. toks \in Seq(Token) /\ pos \in Nat \ {0} /\ pos <= Len(toks)
    BY DEF TypeInv, AtToken
  <1>2. UTodo = SubSeq(toks, pos, Len(toks))
    BY DEF UTodo
  <1>3. UOut = "run"
    BY DEF UOut, AtToken, Errors
  <1>4. UText = Picks(body, toks, pos - 1)
    BY TextIs
  <1> QED
    BY <1>1, <1>2, <1>3, <1>4, FirstOfRest

LEMMA InitRefines == Init => Unit!Init
  <1> SUFFICES ASSUME Init PROVE Unit!Init
    OBVIOUS
  <1>1. body \in [Path -> Seq(Line)] /\ Main \in Path
    BY V5Assumption DEF V5Assumption, Init
  <1>2. toks = TokensOf(Main) /\ pos = 1 /\ pass = "scan" /\ status = "run" /\ seen = {}
    BY DEF Init
  <1>3. toks \in Seq(Token)
    BY <1>1, <1>2, FileTokens
  <1>4. SubSeq(toks, 1, Len(toks)) = toks
    BY <1>3
  <1>5. UTodo = TokensOf(Main)
    BY <1>2, <1>4, Zenon DEF UTodo
  <1>6. UText = <<>>
    BY <1>2, TextIs, PicksNone
  <1>7. UOut = "run"
    BY <1>2 DEF UOut, Errors
  <1> QED
    BY <1>1, <1>2, <1>5, <1>6, <1>7, Zenon
       DEF Unit!Init, UTodo, UText, UOut, Unit!LinesOf, Unit!Lines, Unit!Line, TokensOf, Lines, Line

LEMMA CopyStep == TypeInv /\ Declaration /\ pass = "scan" => Unit!Copy
  <1> SUFFICES ASSUME TypeInv, Declaration, pass = "scan" PROVE Unit!Copy
    OBVIOUS
  <1>1. AtToken /\ LineAt(toks[pos]) = Text
    BY DEF Declaration
  <1>2. /\ body' = body /\ toks' = toks /\ pass' = "scan" /\ status' = status
        /\ pos' = pos + 1 /\ seen' = seen
    BY DEF Declaration
  <1>3. /\ UTodo # <<>> /\ Head(UTodo) = toks[pos] /\ UOut = "run"
        /\ Tail(UTodo) = SubSeq(toks, pos + 1, Len(toks))
        /\ UText = Picks(body, toks, pos - 1)
    BY <1>1, Seen
  <1>4. UTodo' = Tail(UTodo)
    BY <1>2, <1>3 DEF UTodo
  <1>5. UText' = Append(UText, Item(toks[pos]))
    <2>1. pos' - 1 = pos /\ Picks(body, toks, pos) = Append(UText, Item(toks[pos]))
      BY <1>1, <1>2, <1>3, OneMore
    <2> QED
      BY <1>2, <2>1, TextNext
  <1>6. UOut' = UOut
    BY <1>2 DEF UOut
  <1> QED
    BY <1>1, <1>2, <1>3, <1>4, <1>5, <1>6, Zenon
       DEF Unit!Copy, UTodo, UText, UOut, Unit!LineAt, Unit!Lines, LineAt, Lines, Item

LEMMA SkipStep == TypeInv /\ AlreadyIncluded => Unit!Skip
  <1> SUFFICES ASSUME TypeInv, AlreadyIncluded PROVE Unit!Skip
    OBVIOUS
  <1>1. AtToken /\ LineAt(toks[pos]) # Text /\ pass = "scan" /\ Named # NoPath /\ Target \in seen
    BY DEF AlreadyIncluded, AtDirective
  <1>2. /\ body' = body /\ toks' = toks /\ pass' = "scan" /\ status' = status
        /\ pos' = pos + 1 /\ seen' = seen
    BY DEF AlreadyIncluded
  <1>3. /\ UTodo # <<>> /\ Head(UTodo) = toks[pos] /\ UOut = "run"
        /\ Tail(UTodo) = SubSeq(toks, pos + 1, Len(toks))
        /\ UText = Picks(body, toks, pos - 1)
    BY <1>1, Seen
  <1>4. UTodo' = Tail(UTodo)
    BY <1>2, <1>3 DEF UTodo
  <1>5. UText' = UText
    <2>1. pos' - 1 = pos /\ Picks(body, toks, pos) = UText
      BY <1>1, <1>2, <1>3, OneMore
    <2> QED
      BY <1>2, <2>1, TextNext
  <1>6. UOut' = UOut
    BY <1>1, <1>2 DEF UOut
  <1> QED
    BY <1>1, <1>2, <1>3, <1>4, <1>5, <1>6, Zenon
       DEF Unit!Skip, Unit!AtDirective, Unit!Named, UTodo, UText, UOut, Unit!LineAt, Unit!Lines,
           LineAt, Lines, Named, Target

LEMMA PullStep == TypeInv /\ Splice /\ status' = "run" => Unit!Pull
  <1> SUFFICES ASSUME TypeInv, Splice, status' = "run" PROVE Unit!Pull
    OBVIOUS
  <1>1. AtToken /\ LineAt(toks[pos]) # Text /\ pass = "scan" /\ Named # NoPath /\ Target \notin seen
    BY DEF Splice, AtDirective
  <1>2. /\ body' = body /\ pass' = "scan" /\ status' = status
        /\ pos' = pos + 1 /\ seen' = seen \cup {Target} /\ Spliced
    BY <1>1 DEF Splice, Spliced, AtToken
  <1>3. /\ UTodo # <<>> /\ Head(UTodo) = toks[pos] /\ UOut = "run"
        /\ Tail(UTodo) = SubSeq(toks, pos + 1, Len(toks))
        /\ UText = Picks(body, toks, pos - 1)
    BY <1>1, Seen
  <1>4. UTodo' = TokensOf(Named) \o Tail(UTodo)
    <2>1. SubSeq(toks', pos + 1, Len(toks')) = TokensOf(Named) \o SubSeq(toks, pos + 1, Len(toks))
      BY <1>2, SpliceIs
    <2>2. UTodo' = SubSeq(toks', pos', Len(toks'))
      BY <1>2, Zenon DEF UTodo
    <2> QED
      BY <1>2, <1>3, <2>1, <2>2, Zenon
  <1>5. UText' = UText
    <2>1. pos' - 1 = pos /\ pos \in Nat /\ Picks(body, toks, pos) = UText
      BY <1>1, <1>2, <1>3, OneMore
    <2>2. \A k \in 1..pos : toks[k] = toks'[k]
      BY <1>2, SpliceIs
    <2>3. Picks(body, toks, pos) = Picks(body, toks', pos)
      BY <2>1, <2>2, PicksAlike
    <2>4. UText' = Picks(body', toks', pos' - 1)
      BY <1>2, TextNext, Zenon
    <2> QED
      BY <1>2, <2>1, <2>3, <2>4, Zenon
  <1>6. UOut' = UOut
    BY <1>1, <1>2 DEF UOut
  <1>7. Named \in Path
    BY <1>1, TokenAt
  <1> QED
    BY <1>1, <1>2, <1>3, <1>4, <1>5, <1>6, <1>7, Zenon
       DEF Unit!Pull, Unit!AtDirective, Unit!Named, UTodo, UText, UOut, Unit!LineAt, Unit!Lines,
           Unit!LinesOf, LineAt, Lines, Named, Target, TokensOf

(* A run that is refused in pass 1.                                        *)
LEMMA FailStep ==
  ASSUME TypeInv, AtToken, pass = "scan", status' \in Errors, seen \subseteq seen',
         UNCHANGED <<body, toks, pos, pass>>
  PROVE  Unit!Fail
  <1>1. UTodo # <<>> /\ UOut = "run"
    BY Seen
  <1>2. UTodo' = UTodo
    BY DEF UTodo
  <1>3. UText' = UText
    BY TextIs, TextNext
  <1>4. UOut' = "failed"
    BY DEF UOut
  <1> QED
    BY <1>1, <1>2, <1>3, <1>4, Zenon DEF Unit!Fail, UTodo, UText, UOut

(* Pass 1 comes to the end of the stream: nothing the specification sees.  *)
LEMMA HandOver == TypeInv /\ EndOfStream /\ pass = "scan" => UNCHANGED Unit!vars
  <1> SUFFICES ASSUME TypeInv, EndOfStream, pass = "scan" PROVE UNCHANGED Unit!vars
    OBVIOUS
  <1>1. /\ body' = body /\ toks' = toks /\ seen' = seen /\ status' = "run" /\ status = "run"
        /\ pass' = "emit"
    BY DEF EndOfStream
  <1>2. pos - 1 = Len(toks) /\ pos = Len(toks) + 1 /\ toks \in Seq(Token)
    BY DEF EndOfStream, TypeInv
  <1>3. UTodo = <<>> /\ UTodo' = <<>>
    <2>1. SubSeq(toks, pos, Len(toks)) = <<>>
      BY <1>2
    <2> QED
      BY <1>1, <2>1 DEF UTodo
  <1>4. UText' = UText
    BY <1>1, <1>2, TextIs, TextNext
  <1>5. UOut' = UOut
    BY <1>1 DEF UOut
  <1> QED
    BY <1>1, <1>3, <1>4, <1>5, Zenon DEF Unit!vars, UTodo, UText, UOut

(* Pass 2 changes nothing the specification sees but the outcome.          *)
LEMMA EmitStep ==
  ASSUME pass = "emit", pass' = "emit", UNCHANGED <<body, toks, seen>>
  PROVE  /\ UTodo = <<>> /\ UTodo' = UTodo /\ UText' = UText
         /\ status' = status => UNCHANGED Unit!vars
  <1>1. UTodo = <<>> /\ UTodo' = UTodo
    BY DEF UTodo
  <1>2. UText' = UText
    BY TextIs, TextNext
  <1>3. status' = status => UOut' = UOut
    BY DEF UOut
  <1> QED
    BY <1>1, <1>2, <1>3, Zenon DEF Unit!vars, UTodo, UText, UOut

(* Pass 2 comes to the end of the stream.                                  *)
LEMMA FinishStep == EndOfStream /\ pass = "emit" => Unit!Finish
  <1> SUFFICES ASSUME EndOfStream, pass = "emit" PROVE Unit!Finish
    OBVIOUS
  <1>1. pass' = "emit" /\ UNCHANGED <<body, toks, seen>> /\ status = "run" /\ status' = "ok"
    BY DEF EndOfStream
  <1>2. UOut = "run" /\ UOut' = "ok"
    BY <1>1 DEF UOut, Errors
  <1>3. UTodo = <<>> /\ UTodo' = UTodo /\ UText' = UText
    BY <1>1, EmitStep
  <1> QED
    BY <1>1, <1>2, <1>3, Zenon DEF Unit!Finish, UTodo, UText, UOut

(* Pass 2 comes to a declaration it does not accept.                       *)
LEMMA RefuseStep == Refused /\ pass = "emit" => Unit!Refuse
  <1> SUFFICES ASSUME Refused, pass = "emit" PROVE Unit!Refuse
    OBVIOUS
  <1>1. /\ pass' = "emit" /\ UNCHANGED <<body, toks, seen>> /\ status = "run"
        /\ status' = "refused"
    BY DEF Refused, AtToken
  <1>2. UOut = "run" /\ UOut' = "failed"
    BY <1>1 DEF UOut, Errors
  <1>3. UTodo = <<>> /\ UTodo' = UTodo /\ UText' = UText
    BY <1>1, EmitStep
  <1> QED
    BY <1>1, <1>2, <1>3, Zenon DEF Unit!Refuse, UTodo, UText, UOut

LEMMA StepRefines == TypeInv /\ [Next]_vars => [Unit!Next]_(Unit!vars)
  <1> SUFFICES ASSUME TypeInv, [Next]_vars PROVE Unit!Next \/ UNCHANGED Unit!vars
    OBVIOUS
  <1>1. CASE Declaration
    <2>1. CASE pass = "scan"
      BY <1>1, <2>1, CopyStep DEF Unit!Next
    <2>2. CASE pass = "emit"
      <3>1. pass' = "emit" /\ UNCHANGED <<body, toks, seen>> /\ status' = status
        BY <1>1, <2>2 DEF Declaration, AtToken
      <3> QED
        BY <2>2, <3>1, EmitStep
    <2> QED
      BY <2>1, <2>2 DEF TypeInv
  <1>2. CASE Redeclaration
    <2>1. /\ AtToken /\ pass = "scan" /\ status' \in Errors /\ seen' = seen
          /\ UNCHANGED <<body, toks, pos, pass>>
      BY <1>2 DEF Redeclaration, Errors
    <2> QED
      BY <2>1, FailStep DEF Unit!Next
  <1>9. CASE Refused
    <2>1. CASE pass = "scan"
      <3>1. /\ AtToken /\ status' \in Errors /\ seen' = seen
            /\ UNCHANGED <<body, toks, pos, pass>>
        BY <1>9 DEF Refused, Errors
      <3> QED
        BY <2>1, <3>1, FailStep DEF Unit!Next
    <2>2. CASE pass = "emit"
      BY <1>9, <2>2, RefuseStep DEF Unit!Next
    <2> QED
      BY <2>1, <2>2 DEF TypeInv
  <1>3. CASE NotFound
    <2>1. /\ AtToken /\ pass = "scan" /\ status' \in Errors /\ seen' = seen
          /\ UNCHANGED <<body, toks, pos, pass>>
      BY <1>3 DEF NotFound, AtDirective, Errors
    <2> QED
      BY <2>1, FailStep DEF Unit!Next
  <1>4. CASE AlreadyIncluded
    BY <1>4, SkipStep DEF Unit!Next
  <1>5. CASE Splice
    <2>1. CASE status' = "run"
      BY <1>5, <2>1, PullStep DEF Unit!Next
    <2>2. CASE status' # "run"
      <3>1. /\ AtToken /\ pass = "scan" /\ status' \in Errors /\ seen \subseteq seen'
            /\ UNCHANGED <<body, toks, pos, pass>>
        BY <1>5, <2>2 DEF Splice, AtDirective, AtToken, Errors
      <3> QED
        BY <3>1, FailStep DEF Unit!Next
    <2> QED
      BY <2>1, <2>2
  <1>6. CASE PassOver
    <2>1. /\ pass = "emit" /\ pass' = "emit" /\ UNCHANGED <<body, toks, seen>>
          /\ status' = status
      BY <1>6 DEF PassOver
    <2> QED
      BY <2>1, EmitStep
  <1>7. CASE EndOfStream
    <2>1. CASE pass = "scan"
      BY <1>7, <2>1, HandOver
    <2>2. CASE pass = "emit"
      BY <1>7, <2>2, FinishStep DEF Unit!Next
    <2> QED
      BY <2>1, <2>2 DEF TypeInv
  <1>8. CASE UNCHANGED vars
    <2>1. UNCHANGED <<body, toks, pos, seen, pass, status>>
      BY <1>8 DEF vars
    <2>2. UTodo' = UTodo /\ UOut' = UOut
      BY <2>1 DEF UTodo, UOut
    <2>3. UText' = UText
      BY <2>1, TextIs, TextNext
    <2> QED
      BY <2>1, <2>2, <2>3, Zenon DEF Unit!vars, UTodo, UText, UOut
  <1> QED
    BY <1>1, <1>2, <1>3, <1>4, <1>5, <1>6, <1>7, <1>8, <1>9 DEF Next

(* Splicing behind the directive while parsing reads the unit IncludeOnce   *)
(* describes, for every tree of files (parse_include, splice_tokens), and   *)
(* it is delivered only when pass 2 has accepted all of it (v5_transpile). *)
THEOREM SplicingIsIncludeOnce == Spec => ImplementsIncludeOnce
  <1>1. IInv /\ [Next]_vars => [Unit!Next]_(Unit!vars)
    BY StepRefines DEF IInv
  <1> QED
    BY InitRefines, Inductive, <1>1, PTL DEF Spec, ImplementsIncludeOnce, Unit!Spec
=============================================================================
