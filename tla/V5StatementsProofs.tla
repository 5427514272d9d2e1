------------------------- MODULE V5StatementsProofs -------------------------
(***************************************************************************)
(* Proofs about V5Statements: what the reader knows of the names and       *)
(* braces it emits, and where control may go in the emitted text.          *)
(***************************************************************************)
EXTENDS V5Statements, WellFoundedInduction, FiniteSetTheorems, TLAPS

-----------------------------------------------------------------------------
(* A set of numbers has a least one: the order on pairs first.             *)
LEMMA LeastIn ==
  ASSUME NEW R, NEW S \in SUBSET Nat,
         \A x, y \in Nat : y < x => <<y, x>> \in R,
         NEW x \in S, \A y \in S : ~(<<y, x>> \in R)
  PROVE  \A y \in S : x <= y
  <1> SUFFICES ASSUME NEW y \in S, ~(x <= y) PROVE FALSE
    OBVIOUS
  <1>1. x \in Nat /\ y \in Nat /\ y < x
    OBVIOUS
  <1>2. <<y, x>> \in R
    BY <1>1, Zenon
  <1> QED
    BY <1>2, Zenon

LEMMA Least ==
  ASSUME NEW S \in SUBSET Nat, S # {}
  PROVE  \E x \in S : \A y \in S : x <= y
  <1> DEFINE R == OpToRel(<, Nat)
  <1>1. \E x \in S : \A y \in S : ~(<<y, x>> \in R)
    BY NatLessThanWellFounded, WFMin
  <1>2. \A x, y \in Nat : y < x => <<y, x>> \in R
    BY DEF OpToRel
  <1> HIDE DEF R
  <1> QED
    BY <1>1, <1>2, LeastIn

(* A bounded set of numbers has a greatest one.                            *)
LEMMA Greatest ==
  ASSUME NEW n \in Nat, NEW S \in SUBSET (0 .. n), S # {}
  PROVE  \E x \in S : \A y \in S : y <= x
  <1> DEFINE U == {m \in Nat : \A y \in S : y <= m}
  <1>1. n \in U
    OBVIOUS
  <1>2. PICK m \in U : \A x \in U : m <= x
    BY <1>1, Least
  <1>3. m \in Nat /\ \A y \in S : y <= m
    BY <1>2
  <1>4. m \in S
    <2> SUFFICES ASSUME m \notin S PROVE FALSE
      OBVIOUS
    <2>1. \A y \in S : y \in Nat /\ y < m
      BY <1>3
    <2>2. m # 0
      <3>1. PICK y \in S : TRUE
        OBVIOUS
      <3> QED
        BY <2>1, <3>1
    <2>3. m - 1 \in U
      BY <1>3, <2>1, <2>2
    <2> QED
      BY <1>2, <1>3, <2>3
  <1> QED
    BY <1>3, <1>4

(* Induction over an interval: a set with its first number that holds the  *)
(* next one with each holds them all.                                      *)
LEMMA UpTo ==
  ASSUME NEW a \in Int, NEW b \in Int, NEW S, a <= b => a \in S,
         \A k \in a .. b - 1 : k \in S => k + 1 \in S
  PROVE  a .. b \subseteq S
  <1> SUFFICES ASSUME NEW k \in a .. b, k \notin S PROVE FALSE
    OBVIOUS
  <1> DEFINE M == {m \in Nat : a + m <= b /\ a + m \notin S}
  <1>1. k - a \in M
    OBVIOUS
  <1>2. PICK m \in M : \A x \in M : m <= x
    BY <1>1, Least
  <1>3. m \in Nat /\ a + m <= b /\ a + m \notin S
    BY <1>2
  <1>4. m # 0
    BY <1>3
  <1>5. m - 1 \in Nat /\ a + (m - 1) \in a .. b - 1 /\ (a + (m - 1)) + 1 = a + m
    BY <1>3, <1>4
  <1>6. a + (m - 1) \notin S
    BY <1>3, <1>5
  <1>7. m - 1 \in M
    BY <1>3, <1>5, <1>6
  <1> QED
    BY <1>2, <1>3, <1>7

(* f is defined by recursion over 0 .. n, from base by the steps G.        *)
Recursive(X, base, n, G, f) ==
  /\ f \in [0 .. n -> X]
  /\ f[0] = base
  /\ \A k \in 1 .. n : f[k] = G[<<k, f[k - 1]>>]

(* There is such a function.                                               *)
LEMMA Recursion ==
  ASSUME NEW X, NEW base \in X, NEW n \in Nat, NEW G \in [(1 .. n) \X X -> X]
  PROVE  \E f : Recursive(X, base, n, G, f)
  <1> DEFINE Upto(m) == \E f \in [0 .. m -> X] :
                          /\ f[0] = base
                          /\ \A k \in 1 .. m : f[k] = G[<<k, f[k - 1]>>]
             S == {m \in 0 .. n : Upto(m)}
  <1>1. 0 \in S
    <2> DEFINE f == [k \in 0 .. 0 |-> base]
    <2>1. f \in [0 .. 0 -> X] /\ f[0] = base /\ \A k \in 1 .. 0 : f[k] = G[<<k, f[k - 1]>>]
      OBVIOUS
    <2> HIDE DEF f
    <2>2. Upto(0)
      BY <2>1
    <2> QED
      BY <2>2
  <1>2. ASSUME NEW m \in 0 .. n - 1, m \in S PROVE m + 1 \in S
    <2>1. PICK f \in [0 .. m -> X] : /\ f[0] = base
                                     /\ \A k \in 1 .. m : f[k] = G[<<k, f[k - 1]>>]
      BY <1>2
    <2>2. G[<<m + 1, f[m]>>] \in X
      OBVIOUS
    <2> DEFINE g == [k \in 0 .. m + 1 |-> IF k <= m THEN f[k] ELSE G[<<m + 1, f[m]>>]]
    <2>3. g \in [0 .. m + 1 -> X] /\ g[0] = base
      BY <2>1, <2>2
    <2>4. ASSUME NEW k \in 1 .. m + 1 PROVE g[k] = G[<<k, g[k - 1]>>]
      <3>1. k - 1 \in 0 .. m /\ g[k - 1] = f[k - 1]
        OBVIOUS
      <3>2. CASE k <= m
        BY <2>1, <3>1, <3>2
      <3>3. CASE k = m + 1
        <4>1. k - 1 = m /\ g[k] = G[<<m + 1, f[m]>>]
          BY <3>3
        <4> QED
          BY <3>1, <3>3, <4>1, Zenon
      <3> QED
        BY <3>2, <3>3
    <2> HIDE DEF g
    <2>5. Upto(m + 1)
      BY <2>3, <2>4
    <2> QED
      BY <2>5
  <1> HIDE DEF S
  <1>3. 0 .. n \subseteq S
    <2>1. \A k \in 0 .. n - 1 : k \in S => k + 1 \in S
      BY <1>2
    <2> QED
      BY <1>1, <2>1, UpTo
  <1> QED
    BY <1>3 DEF S, Recursive

(***************************************************************************)
(* How many members of S are among 1 .. n.                                 *)
(***************************************************************************)
Tally(S, n) == Cardinality(S \cap (1 .. n))

(* The tally of a set grows by one at each of its members. *)
LEMMA TallyStep ==
  ASSUME NEW S
  PROVE  /\ Tally(S, 0) = 0
         /\ \A n \in Nat : /\ Tally(S, n) \in Nat
                           /\ n + 1 \in S => Tally(S, n + 1) = Tally(S, n) + 1
                           /\ n + 1 \notin S => Tally(S, n + 1) = Tally(S, n)
  <1>1. S \cap (1 .. 0) = {}
    OBVIOUS
  <1>2. ASSUME NEW n \in Nat
        PROVE  /\ Tally(S, n) \in Nat
               /\ n + 1 \in S => Tally(S, n + 1) = Tally(S, n) + 1
               /\ n + 1 \notin S => Tally(S, n + 1) = Tally(S, n)
    <2> DEFINE F == S \cap (1 .. n)
               G == S \cap (1 .. n + 1)
    <2>1. IsFiniteSet(1 .. n)
      BY FS_Interval
    <2>2. IsFiniteSet(F)
      BY <2>1, FS_Intersection
    <2>3. Cardinality(F) \in Nat
      BY <2>2, FS_CardinalityType
    <2>4. ASSUME n + 1 \in S PROVE Cardinality(G) = Cardinality(F) + 1
      <3>1. G = F \cup {n + 1} /\ n + 1 \notin F
        BY <2>4
      <3> QED
        BY <2>2, <3>1, FS_AddElement
    <2>5. ASSUME n + 1 \notin S PROVE G = F
      BY <2>5
    <2> QED
      BY <2>3, <2>4, <2>5 DEF Tally
  <1>3. Tally(S, 0) = 0
    BY <1>1, FS_EmptySet DEF Tally
  <1> QED
    BY <1>2, <1>3

(* It depends on no more than those.                                       *)
LEMMA TallyAgree ==
  ASSUME NEW S, NEW U, NEW n, \A k \in 1 .. n : k \in S <=> k \in U
  PROVE  Tally(S, n) = Tally(U, n)
  <1>1. S \cap (1 .. n) = U \cap (1 .. n)
    OBVIOUS
  <1> QED
    BY <1>1 DEF Tally

(* Counting over an interval.                                              *)
LEMMA TallyInterval ==
  ASSUME NEW S, NEW a \in Nat \ {0}, NEW b \in Nat, a <= b + 1
  PROVE  Cardinality({q \in a .. b : q \in S}) = Tally(S, b) - Tally(S, a - 1)
  <1> DEFINE F == S \cap (1 .. a - 1)
             G == {q \in a .. b : q \in S}
  <1>1. IsFiniteSet(1 .. a - 1) /\ IsFiniteSet(a .. b)
    BY FS_Interval
  <1>2. IsFiniteSet(F)
    BY <1>1, FS_Intersection
  <1>3. IsFiniteSet(G)
    BY <1>1, FS_Subset
  <1>4. F \cup G = S \cap (1 .. b) /\ F \cap G = {}
    OBVIOUS
  <1>5. Cardinality(F \cup G) = Cardinality(F) + Cardinality(G) - Cardinality(F \cap G)
    BY <1>2, <1>3, FS_Union
  <1>6. Cardinality({}) = 0
    BY FS_EmptySet
  <1>7. Cardinality(F) \in Nat /\ Cardinality(G) \in Nat
    BY <1>2, <1>3, FS_CardinalityType
  <1>8. Tally(S, b) = Cardinality(F \cup G) /\ Tally(S, a - 1) = Cardinality(F)
    BY <1>4 DEF Tally
  <1> HIDE DEF F, G
  <1>9. Cardinality(F \cup G) = Cardinality(F) + Cardinality(G)
    <2>1. Cardinality(F \cap G) = 0
      BY <1>4, <1>6, Zenon
    <2> QED
      BY <1>5, <1>7, <2>1
  <1>10. Cardinality(G) = Tally(S, b) - Tally(S, a - 1)
    BY <1>7, <1>8, <1>9
  <1> QED
    BY <1>10 DEF G

----------------------------------------------------------------------------
(***************************************************************************)
(* Emitted text and its braces.                                            *)
(***************************************************************************)
NameOrNone == Name \cup {""}

OpNames == {"bind", "use", "set", "free", "break", "continue", "return", "inc",
            "temp", "hoist", "close"} \cup Openings

Line == [op : OpNames, x : NameOrNone]

OpenLines(c) == {q \in 1..Len(c) : c[q].op \in Openings}
CloseLines(c) == {q \in 1..Len(c) : c[q].op = "close"}

(* How many braces are open after the first n lines.                       *)
Bal(c, n) == Tally(OpenLines(c), n) - Tally(CloseLines(c), n)

Same(c, d, n) == n <= Len(c) /\ n <= Len(d) /\ \A q \in 1..n : d[q] = c[q]

(* A line that opens a brace raises the balance by one, a closing line lowers
   it, any other line keeps it. *)
LEMMA BalSteps ==
  ASSUME NEW c \in Seq(Line)
  PROVE  /\ Bal(c, 0) = 0
         /\ \A n \in Nat : Bal(c, n) \in Int
         /\ \A n \in 1..Len(c) :
              /\ n - 1 \in Nat
              /\ c[n].op \in Openings => Bal(c, n) = Bal(c, n - 1) + 1
              /\ c[n].op = "close" => Bal(c, n) = Bal(c, n - 1) - 1
              /\ c[n].op \notin Openings /\ c[n].op # "close" =>
                   Bal(c, n) = Bal(c, n - 1)
  <1> DEFINE A == OpenLines(c)
             B == CloseLines(c)
  <1>1. Len(c) \in Nat
    OBVIOUS
  <1>2. ASSUME NEW n \in 1..Len(c)
        PROVE  /\ n \in A <=> c[n].op \in Openings
               /\ n \in B <=> c[n].op = "close"
               /\ ~(n \in A /\ n \in B)
    <2>1. "close" \notin Openings
      BY DEF Openings, Loops
    <2> QED
      BY <2>1 DEF OpenLines, CloseLines
  <1>3. \A n \in Nat : Tally(A, n) \in Nat /\ Tally(B, n) \in Nat
    BY TallyStep
  <1>4. Tally(A, 0) = 0 /\ Tally(B, 0) = 0
    BY TallyStep
  <1>5. ASSUME NEW n \in 1..Len(c)
        PROVE  /\ n - 1 \in Nat
               /\ n \in A => Tally(A, n) = Tally(A, n - 1) + 1
               /\ n \notin A => Tally(A, n) = Tally(A, n - 1)
               /\ n \in B => Tally(B, n) = Tally(B, n - 1) + 1
               /\ n \notin B => Tally(B, n) = Tally(B, n - 1)
    <2>1. n - 1 \in Nat /\ (n - 1) + 1 = n
      BY <1>1
    <2> HIDE DEF A, B
    <2> QED
      BY <2>1, TallyStep
  <1> HIDE DEF A, B
  <1>6. \A n \in Nat : Bal(c, n) = Tally(A, n) - Tally(B, n)
    BY DEF Bal, A, B
  <1>7. ASSUME NEW n \in 1..Len(c)
        PROVE  /\ n - 1 \in Nat
               /\ n \in A /\ n \notin B => Bal(c, n) = Bal(c, n - 1) + 1
               /\ n \notin A /\ n \in B => Bal(c, n) = Bal(c, n - 1) - 1
               /\ n \notin A /\ n \notin B => Bal(c, n) = Bal(c, n - 1)
    <2>1. n \in Nat /\ n - 1 \in Nat
      BY <1>1
    <2>2. /\ Bal(c, n) = Tally(A, n) - Tally(B, n)
          /\ Bal(c, n - 1) = Tally(A, n - 1) - Tally(B, n - 1)
      BY <2>1, <1>6
    <2>3. /\ Tally(A, n) \in Nat /\ Tally(B, n) \in Nat
          /\ Tally(A, n - 1) \in Nat /\ Tally(B, n - 1) \in Nat
      BY <2>1, <1>3, Zenon
    <2>4. n \notin B => Tally(B, n) = Tally(B, n - 1)
      BY <1>5, Zenon
    <2>5. n \in A => Tally(A, n) = Tally(A, n - 1) + 1
      BY <1>5, Zenon
    <2>6. n \in B => Tally(B, n) = Tally(B, n - 1) + 1
      BY <1>5, Zenon
    <2>7. n \notin A => Tally(A, n) = Tally(A, n - 1)
      BY <1>5, Zenon
    <2> QED
      BY <2>1, <2>2, <2>3, <2>4, <2>5, <2>6, <2>7
  <1>8. \A n \in Nat : Bal(c, n) \in Int
    BY <1>3, <1>6
  <1>9. Bal(c, 0) = 0
    BY <1>4, <1>6
  <1> QED
    BY <1>2, <1>7, <1>8, <1>9, Zenon

(* The balance up to a line depends only on the lines up to it. *)
LEMMA BalSame ==
  ASSUME NEW c \in Seq(Line), NEW d \in Seq(Line), NEW n \in Nat, Same(c, d, n)
  PROVE  \A q \in 0..n : Bal(d, q) = Bal(c, q)
  <1> SUFFICES ASSUME NEW q \in 0..n PROVE Bal(d, q) = Bal(c, q)
    OBVIOUS
  <1>1. \A k \in 1..q : k \in OpenLines(c) <=> k \in OpenLines(d)
    BY DEF OpenLines, Same
  <1>2. \A k \in 1..q : k \in CloseLines(c) <=> k \in CloseLines(d)
    BY DEF CloseLines, Same
  <1>3. Tally(OpenLines(c), q) = Tally(OpenLines(d), q)
    BY <1>1, TallyAgree
  <1>4. Tally(CloseLines(c), q) = Tally(CloseLines(d), q)
    BY <1>2, TallyAgree
  <1> QED
    BY <1>3, <1>4 DEF Bal

(* An appended line disturbs none before it. *)
LEMMA SameAppend ==
  ASSUME NEW c \in Seq(Line), NEW i \in Line
  PROVE  /\ Append(c, i) \in Seq(Line) /\ Len(Append(c, i)) = Len(c) + 1
         /\ Same(c, Append(c, i), Len(c)) /\ Append(c, i)[Len(c) + 1] = i
         /\ Len(c) \in Nat
  BY DEF Same

(* Appending a line.                                                       *)
LEMMA BalAppend ==
  ASSUME NEW c \in Seq(Line), NEW i \in Line
  PROVE  /\ \A q \in 0..Len(c) : Bal(Append(c, i), q) = Bal(c, q)
         /\ i.op \in Openings => Bal(Append(c, i), Len(c) + 1) = Bal(c, Len(c)) + 1
         /\ i.op = "close" => Bal(Append(c, i), Len(c) + 1) = Bal(c, Len(c)) - 1
         /\ i.op \notin Openings /\ i.op # "close" =>
              Bal(Append(c, i), Len(c) + 1) = Bal(c, Len(c))
         /\ Bal(c, Len(c)) \in Int
  <1> DEFINE d == Append(c, i)
             n == Len(c)
  <1>1. /\ d \in Seq(Line) /\ Len(d) = n + 1 /\ Same(c, d, n) /\ d[n + 1] = i
        /\ n \in Nat
    BY SameAppend
  <1> HIDE DEF d, n
  <1>2. \A q \in 0..n : Bal(d, q) = Bal(c, q)
    BY <1>1, BalSame
  <1>3. n + 1 \in 1..Len(d) /\ (n + 1) - 1 = n /\ n \in 0..n
    BY <1>1
  <1>4. /\ d[n + 1].op \in Openings => Bal(d, n + 1) = Bal(d, (n + 1) - 1) + 1
        /\ d[n + 1].op = "close" => Bal(d, n + 1) = Bal(d, (n + 1) - 1) - 1
        /\ d[n + 1].op \notin Openings /\ d[n + 1].op # "close" =>
             Bal(d, n + 1) = Bal(d, (n + 1) - 1)
    BY <1>1, <1>3, BalSteps, Zenon
  <1>5. Bal(d, (n + 1) - 1) = Bal(c, n)
    BY <1>2, <1>3
  <1>6. Bal(c, n) \in Int
    BY <1>1, BalSteps
  <1> QED
    BY <1>1, <1>2, <1>4, <1>5, <1>6 DEF d, n

(* No brace around line q is closed.                                       *)
Held(c, q) == \A last \in q..Len(c) : Bal(c, last) >= Bal(c, q)

(* A scope stays open over an appended line while the balance does not fall
   below its own. *)
LEMMA HeldAppend ==
  ASSUME NEW c \in Seq(Line), NEW i \in Line
  PROVE  /\ \A q \in 1..Len(c) :
              /\ Held(Append(c, i), q) <=>
                   Held(c, q) /\ Bal(Append(c, i), Len(c) + 1) >= Bal(c, q)
              /\ Held(c, q) => Bal(c, q) <= Bal(c, Len(c))
              /\ Bal(c, q) \in Int
         /\ Held(Append(c, i), Len(c) + 1)
  <1> DEFINE d == Append(c, i)
             n == Len(c)
  <1>1. /\ d \in Seq(Line) /\ Len(d) = n + 1 /\ n \in Nat
    BY SameAppend
  <1>2. \A q \in 0..n : Bal(d, q) = Bal(c, q)
    BY BalAppend
  <1>3. \A q \in 0..n + 1 : Bal(d, q) \in Int
    <2>1. \A q \in Nat : Bal(d, q) \in Int
      BY <1>1, BalSteps
    <2> QED
      BY <1>1, <2>1
  <1> HIDE DEF d, n
  <1>4. ASSUME NEW q \in 1..n
        PROVE  Held(d, q) <=> Held(c, q) /\ Bal(d, n + 1) >= Bal(c, q)
    <2>1. Bal(d, q) = Bal(c, q) /\ \A last \in q..n : Bal(d, last) = Bal(c, last)
      BY <1>1, <1>2
    <2>2. \A last \in q..n + 1 : last \in q..n \/ last = n + 1
      BY <1>1
    <2>3. \A last \in q..n : last \in q..n + 1
      BY <1>1
    <2>4. n + 1 \in q..n + 1
      BY <1>1
    <2> QED
      BY <1>1, <2>1, <2>2, <2>3, <2>4 DEF Held, n
  <1>5. ASSUME NEW q \in 1..n, Held(c, q) PROVE Bal(c, q) <= Bal(c, n)
    <2>1. Bal(c, n) >= Bal(c, q)
      BY <1>1, <1>5 DEF Held, n
    <2>2. Bal(c, n) \in Int /\ Bal(c, q) \in Int
      BY <1>1, <1>2, <1>3
    <2> QED
      BY <2>1, <2>2
  <1>6. Held(d, n + 1)
    <2>1. \A last \in n + 1 .. Len(d) : last = n + 1
      BY <1>1
    <2>2. Bal(d, n + 1) \in Int
      BY <1>1, <1>3
    <2> QED
      BY <2>1, <2>2 DEF Held
  <1>7. \A q \in 1..n : Bal(c, q) \in Int
    BY <1>1, <1>2, <1>3
  <1> QED
    BY <1>4, <1>5, <1>6, <1>7 DEF d, n

Declaring == {"bind", "scope", "each"}
Visible(c) == {q \in 1..Len(c) : c[q].op \in Declaring /\ Held(c, q)}

(* Counting openings and closings between two lines gives the difference of
   the running balance. *)
LEMMA CountIsTally ==
  ASSUME code \in Seq(Line), NEW q \in 1..Len(code), NEW last \in q..Len(code)
  PROVE  Count(q, last, Openings) - Count(q, last, {"close"})
           = Bal(code, last) - Bal(code, q - 1)
         /\ Count(q, last, Openings) \in Int /\ Count(q, last, {"close"}) \in Int
  <1> DEFINE A == OpenLines(code)
             B == CloseLines(code)
  <1>1. q \in Nat \ {0} /\ last \in Nat /\ q <= last + 1 /\ q - 1 \in Nat
    OBVIOUS
  <1>2. {k \in q..last : code[k].op \in Openings} = {k \in q..last : k \in A}
    BY DEF OpenLines
  <1>3. {k \in q..last : code[k].op \in {"close"}} = {k \in q..last : k \in B}
    BY DEF CloseLines
  <1>4. Cardinality({k \in q..last : k \in A}) = Tally(A, last) - Tally(A, q - 1)
    BY <1>1, TallyInterval
  <1>5. Cardinality({k \in q..last : k \in B}) = Tally(B, last) - Tally(B, q - 1)
    BY <1>1, TallyInterval
  <1>6. /\ Tally(A, last) \in Nat /\ Tally(A, q - 1) \in Nat
        /\ Tally(B, last) \in Nat /\ Tally(B, q - 1) \in Nat
    BY <1>1, TallyStep
  <1>7. /\ Count(q, last, Openings) = Tally(A, last) - Tally(A, q - 1)
        /\ Count(q, last, {"close"}) = Tally(B, last) - Tally(B, q - 1)
    BY <1>2, <1>3, <1>4, <1>5 DEF Count
  <1>8. /\ Bal(code, last) = Tally(A, last) - Tally(B, last)
        /\ Bal(code, q - 1) = Tally(A, q - 1) - Tally(B, q - 1)
    BY DEF Bal
  <1> HIDE DEF A, B
  <1> QED
    BY <1>6, <1>7, <1>8

(* The declarations a back end still sees, by braces.                      *)
LEMMA VisibleIs ==
  ASSUME code \in Seq(Line)
  PROVE  VisibleLines = Visible(code)
  <1>1. ASSUME NEW q \in 1..Len(code), code[q].op \in Declaring
        PROVE  (\A last \in q..Len(code) :
                  LET opened == Count(q, last, Openings)
                      closed == Count(q, last, {"close"})
                  IN  IF code[q].op = "bind" THEN closed <= opened
                                             ELSE closed < opened)
               <=> Held(code, q)
    <2>1. q - 1 \in Nat /\ q \in Nat /\ \A last \in q..Len(code) : last \in Nat
      OBVIOUS
    <2>2. /\ Bal(code, q) \in Int /\ Bal(code, q - 1) \in Int
          /\ \A last \in q..Len(code) : Bal(code, last) \in Int
      BY <2>1, BalSteps
    <2>3. /\ code[q].op = "bind" => Bal(code, q) = Bal(code, q - 1)
          /\ code[q].op # "bind" => Bal(code, q) = Bal(code, q - 1) + 1
      <3>1. \/ code[q].op = "bind" /\ code[q].op \notin Openings /\ code[q].op # "close"
            \/ code[q].op # "bind" /\ code[q].op \in Openings
        BY <1>1, Zenon DEF Declaring, Openings, Loops
      <3> QED
        BY <3>1, BalSteps
    <2>4. ASSUME NEW last \in q..Len(code)
          PROVE  (IF code[q].op = "bind"
                    THEN Count(q, last, {"close"}) <= Count(q, last, Openings)
                    ELSE Count(q, last, {"close"}) < Count(q, last, Openings))
                 <=> Bal(code, last) >= Bal(code, q)
      <3>1. /\ Count(q, last, Openings) - Count(q, last, {"close"})
                 = Bal(code, last) - Bal(code, q - 1)
            /\ Count(q, last, Openings) \in Int /\ Count(q, last, {"close"}) \in Int
        BY CountIsTally
      <3>2. Bal(code, last) \in Int
        BY <2>2
      <3> QED
        BY <2>2, <2>3, <3>1, <3>2
    <2> QED
      BY <2>4 DEF Held
  <1> QED
    BY <1>1 DEF VisibleLines, Visible, Declaring

(* How the declarations seen change with a line.                           *)
LEMMA VisibleAppend ==
  ASSUME NEW c \in Seq(Line), NEW i \in Line
  PROVE  /\ i.op # "close" =>
              \A q \in 1..Len(c) : q \in Visible(Append(c, i)) <=> q \in Visible(c)
         /\ i.op = "close" =>
              \A q \in 1..Len(c) : q \in Visible(Append(c, i)) <=>
                 q \in Visible(c) /\ Bal(c, q) < Bal(c, Len(c))
         /\ Len(c) + 1 \in Visible(Append(c, i)) <=> i.op \in Declaring
         /\ \A q \in Visible(c) : /\ q \in 1..Len(c)
                                  /\ Bal(c, q) \in Int
                                  /\ Bal(c, q) <= Bal(c, Len(c))
                                  /\ Append(c, i)[q] = c[q]
                                  /\ Bal(Append(c, i), q) = Bal(c, q)
         /\ \A q \in Visible(Append(c, i)) : q \in 1..Len(c) \/ q = Len(c) + 1
  <1> DEFINE d == Append(c, i)
             n == Len(c)
  <1>1. /\ d \in Seq(Line) /\ Len(d) = n + 1 /\ n \in Nat /\ Same(c, d, n)
        /\ d[n + 1] = i
    BY SameAppend
  <1>2. \A q \in 1..n : d[q] = c[q]
    BY <1>1 DEF Same
  <1>3. /\ \A q \in 0..n : Bal(d, q) = Bal(c, q)
        /\ i.op \in Openings => Bal(d, n + 1) = Bal(c, n) + 1
        /\ i.op = "close" => Bal(d, n + 1) = Bal(c, n) - 1
        /\ i.op \notin Openings /\ i.op # "close" => Bal(d, n + 1) = Bal(c, n)
        /\ Bal(c, n) \in Int
    BY BalAppend
  <1>4. /\ \A q \in 1..n :
              /\ Held(d, q) <=> Held(c, q) /\ Bal(d, n + 1) >= Bal(c, q)
              /\ Held(c, q) => Bal(c, q) <= Bal(c, n)
              /\ Bal(c, q) \in Int
        /\ Held(d, n + 1)
    BY HeldAppend
  <1> HIDE DEF d, n
  <1>5. /\ \A q : q \in Visible(c) <=> q \in 1..n /\ c[q].op \in Declaring /\ Held(c, q)
        /\ \A q : q \in Visible(d) <=> q \in 1..n + 1 /\ d[q].op \in Declaring /\ Held(d, q)
    BY <1>1 DEF Visible, n
  <1>6. \A q \in 1..n : q \in 1..n + 1
    BY <1>1
  <1>7. ASSUME i.op # "close", NEW q \in 1..n PROVE q \in Visible(d) <=> q \in Visible(c)
    <2>1. Held(c, q) => Bal(d, n + 1) >= Bal(c, q)
      BY <1>3, <1>4, <1>7
    <2> QED
      BY <1>2, <1>4, <1>5, <1>6, <2>1
  <1>8. ASSUME i.op = "close", NEW q \in 1..n
        PROVE  q \in Visible(d) <=> q \in Visible(c) /\ Bal(c, q) < Bal(c, n)
    <2>1. Bal(d, n + 1) >= Bal(c, q) <=> Bal(c, q) < Bal(c, n)
      BY <1>3, <1>4, <1>8
    <2> QED
      BY <1>2, <1>4, <1>5, <1>6, <2>1
  <1>9. n + 1 \in Visible(d) <=> i.op \in Declaring
    BY <1>1, <1>4, <1>5
  <1>10. ASSUME NEW q \in Visible(c)
         PROVE  /\ q \in 1..n /\ Bal(c, q) \in Int /\ Bal(c, q) <= Bal(c, n)
                /\ d[q] = c[q] /\ Bal(d, q) = Bal(c, q)
    <2>1. q \in 1..n /\ Held(c, q)
      BY <1>5
    <2>2. q \in 0..n
      BY <2>1
    <2> QED
      BY <2>1, <2>2, <1>2, <1>3, <1>4
  <1>11. \A q \in Visible(d) : q \in 1..n \/ q = n + 1
    BY <1>1, <1>5
  <1> QED
    BY <1>7, <1>8, <1>9, <1>10, <1>11, Zenon DEF d, n

----------------------------------------------------------------------------
(***************************************************************************)
(* The table of names against the emitted text.                            *)
(***************************************************************************)
Local == [name : Name, freed : BOOLEAN]

(* The entries of the table are the declarations seen, one for one.        *)
Agree(l, c) ==
  /\ \A j, k \in 1..Len(l) : l[j].name = l[k].name => j = k
  /\ \A k \in 1..Len(l) : \E q \in Visible(c) : c[q].x = l[k].name
  /\ \A q \in Visible(c) : \E k \in 1..Len(l) : c[q].x = l[k].name
  /\ \A q, r \in Visible(c) : c[q].x = c[r].x => q = r

(* The first m entries are those declared within fewer than d braces.      *)
Cut(l, c, m, d) ==
  /\ m \in 0..Len(l)
  /\ \A k \in 1..Len(l) : \A q \in Visible(c) :
       c[q].x = l[k].name => (k <= m <=> Bal(c, q) < d)

(* A line that neither declares nor closes.                                *)
LEMMA Keep ==
  ASSUME NEW c \in Seq(Line), NEW l \in Seq(Local), NEW i \in Line,
         i.op # "close", i.op \notin Declaring
  PROVE  /\ Agree(l, c) => Agree(l, Append(c, i))
         /\ \A m, d : Cut(l, c, m, d) => Cut(l, Append(c, i), m, d)
  <1> DEFINE e == Append(c, i)
             V == Visible(c)
             W == Visible(e)
  <1>1. /\ \A q \in 1..Len(c) : q \in W <=> q \in V
        /\ Len(c) + 1 \notin W
        /\ \A q \in V : q \in 1..Len(c) /\ e[q] = c[q] /\ Bal(e, q) = Bal(c, q)
        /\ \A q \in W : q \in 1..Len(c) \/ q = Len(c) + 1
    BY VisibleAppend, Zenon
  <1>2. \A q : q \in W <=> q \in V
    BY <1>1, Zenon
  <1>3. \A q \in W : e[q].x = c[q].x /\ Bal(e, q) = Bal(c, q) /\ q \in V
    BY <1>1, <1>2
  <1>4. Agree(l, c) => Agree(l, e)
    <2> SUFFICES ASSUME Agree(l, c) PROVE Agree(l, e)
      OBVIOUS
    <2> HIDE DEF e, V, W
    <2>1. \A k \in 1..Len(l) : \E q \in W : e[q].x = l[k].name
      BY <1>2, <1>3 DEF Agree, V
    <2>2. \A q \in W : \E k \in 1..Len(l) : e[q].x = l[k].name
      BY <1>2, <1>3 DEF Agree, V
    <2>3. \A q, r \in W : e[q].x = e[r].x => q = r
      BY <1>2, <1>3 DEF Agree, V
    <2> QED
      BY <2>1, <2>2, <2>3 DEF Agree, W
  <1>5. ASSUME NEW m, NEW d, Cut(l, c, m, d) PROVE Cut(l, e, m, d)
    <2> HIDE DEF e, V, W
    <2>1. \A k \in 1..Len(l) : \A q \in W :
            e[q].x = l[k].name => (k <= m <=> Bal(e, q) < d)
      BY <1>3, <1>5 DEF Cut, V
    <2> QED
      BY <2>1, <1>5 DEF Cut, W
  <1> QED
    BY <1>4, <1>5

(* A closing brace drops the names declared inside it.                     *)
LEMMA Forget ==
  ASSUME NEW c \in Seq(Line), NEW l \in Seq(Local), NEW i \in Line,
         i.op = "close", NEW m, Agree(l, c), Cut(l, c, m, Bal(c, Len(c)))
  PROVE  /\ Agree(SubSeq(l, 1, m), Append(c, i))
         /\ \A m2, d2 \in Int : d2 < Bal(c, Len(c)) /\ Cut(l, c, m2, d2) =>
              Cut(SubSeq(l, 1, m), Append(c, i), m2, d2) /\ m2 <= m
         /\ SubSeq(l, 1, m) \in Seq(Local) /\ Len(SubSeq(l, 1, m)) = m
  <1> DEFINE e == Append(c, i)
             V == Visible(c)
             W == Visible(e)
             T == Bal(c, Len(c))
             s == SubSeq(l, 1, m)
  <1>1. /\ \A q \in 1..Len(c) : q \in W <=> q \in V /\ Bal(c, q) < T
        /\ \A q \in V : /\ q \in 1..Len(c) /\ e[q] = c[q] /\ Bal(e, q) = Bal(c, q)
                        /\ Bal(c, q) \in Int /\ Bal(c, q) <= T
        /\ \A q \in W : q \in 1..Len(c) \/ q = Len(c) + 1
        /\ Len(c) + 1 \in W <=> i.op \in Declaring
    BY VisibleAppend, Zenon
  <1>2. i.op \notin Declaring
    BY Zenon DEF Declaring
  <1>3. \A q : q \in W <=> q \in V /\ Bal(c, q) < T
    BY <1>1, <1>2, Zenon
  <1>4. \A q \in W : e[q].x = c[q].x /\ Bal(e, q) = Bal(c, q) /\ q \in V
    BY <1>1, <1>3
  <1>5. T \in Int
    BY BalAppend
  <1>6. m \in 0..Len(l) /\ Len(l) \in Nat
    BY DEF Cut
  <1>7. s \in Seq(Local) /\ Len(s) = m /\ \A k \in 1..m : s[k] = l[k]
    BY <1>6
  <1>8. \A k \in 1..m : k \in 1..Len(l)
    BY <1>6
  <1>9. /\ \A j, k \in 1..Len(l) : l[j].name = l[k].name => j = k
        /\ \A k \in 1..Len(l) : \E q \in V : c[q].x = l[k].name
        /\ \A q \in V : \E k \in 1..Len(l) : c[q].x = l[k].name
        /\ \A q, r \in V : c[q].x = c[r].x => q = r
    BY DEF Agree
  <1>10. \A k \in 1..Len(l) : \A q \in V :
           c[q].x = l[k].name => (k <= m <=> Bal(c, q) < T)
    BY DEF Cut
  <1> HIDE DEF e, V, W, T, s
  <1>11. Agree(s, e)
    <2>1. \A j, k \in 1..Len(s) : s[j].name = s[k].name => j = k
      BY <1>7, <1>8, <1>9
    <2>2. ASSUME NEW k \in 1..Len(s) PROVE \E q \in W : e[q].x = s[k].name
      <3>1. k \in 1..Len(l) /\ s[k] = l[k] /\ k <= m
        BY <1>7, <1>8
      <3>2. PICK q \in V : c[q].x = l[k].name
        BY <3>1, <1>9
      <3>3. q \in W
        BY <3>1, <3>2, <1>3, <1>10
      <3> QED
        BY <3>1, <3>2, <3>3, <1>4
    <2>3. ASSUME NEW q \in W PROVE \E k \in 1..Len(s) : e[q].x = s[k].name
      <3>1. q \in V /\ e[q].x = c[q].x /\ Bal(c, q) < T
        BY <1>3, <1>4
      <3>2. PICK k \in 1..Len(l) : c[q].x = l[k].name
        BY <3>1, <1>9
      <3>3. k <= m
        BY <3>1, <3>2, <1>10
      <3>4. k \in 1..m
        BY <3>3, <1>6
      <3> QED
        BY <3>1, <3>2, <3>4, <1>7
    <2>4. \A q, r \in W : e[q].x = e[r].x => q = r
      BY <1>4, <1>9
    <2> QED
      BY <2>1, <2>2, <2>3, <2>4 DEF Agree, W
  <1>12. ASSUME NEW m2 \in Int, NEW d2 \in Int, d2 < T, Cut(l, c, m2, d2)
         PROVE  Cut(s, e, m2, d2) /\ m2 <= m
    <2>1. m2 \in 0..Len(l) /\ \A k \in 1..Len(l) : \A q \in V :
            c[q].x = l[k].name => (k <= m2 <=> Bal(c, q) < d2)
      BY <1>12 DEF Cut, V
    <2>2. m2 <= m
      <3> SUFFICES ASSUME m2 > m PROVE FALSE
        BY <1>6
      <3>1. m2 \in 1..Len(l)
        BY <2>1, <1>6
      <3>2. PICK q \in V : c[q].x = l[m2].name
        BY <3>1, <1>9
      <3>3. Bal(c, q) < d2
        BY <3>1, <3>2, <2>1
      <3>4. Bal(c, q) < T
        BY <3>3, <1>1, <1>5, <1>12
      <3>5. m2 <= m
        BY <3>1, <3>2, <3>4, <1>10
      <3> QED
        BY <3>5, <1>6
    <2>3. ASSUME NEW k \in 1..Len(s), NEW q \in W, e[q].x = s[k].name
          PROVE  k <= m2 <=> Bal(e, q) < d2
      <3>1. k \in 1..Len(l) /\ s[k] = l[k]
        BY <1>7, <1>8
      <3>2. q \in V /\ e[q].x = c[q].x /\ Bal(e, q) = Bal(c, q)
        BY <1>4
      <3> QED
        BY <3>1, <3>2, <2>1, <2>3
    <2>4. m2 \in 0..Len(s)
      BY <2>1, <2>2, <1>6, <1>7
    <2> QED
      BY <2>2, <2>3, <2>4 DEF Cut, W
  <1> QED
    BY <1>7, <1>11, <1>12 DEF e, T, s

(* A line that declares a name that is not in the table.                   *)
LEMMA Learn ==
  ASSUME NEW c \in Seq(Line), NEW l \in Seq(Local), NEW i \in Line, NEW n \in Local,
         i.op \in Declaring, i.x = n.name, Agree(l, c),
         \A k \in 1..Len(l) : l[k].name # n.name
  PROVE  /\ Agree(Append(l, n), Append(c, i))
         /\ \A m, d \in Int :
              d <= Bal(Append(c, i), Len(c) + 1) /\ Cut(l, c, m, d) =>
                Cut(Append(l, n), Append(c, i), m, d)
         /\ Append(l, n) \in Seq(Local) /\ Len(Append(l, n)) = Len(l) + 1
  <1> DEFINE e == Append(c, i)
             V == Visible(c)
             W == Visible(e)
             p == Append(l, n)
             new == Len(c) + 1
  <1>1. i.op # "close"
    BY Zenon DEF Declaring
  <1>2. /\ \A q \in 1..Len(c) : q \in W <=> q \in V
        /\ \A q \in V : q \in 1..Len(c) /\ e[q] = c[q] /\ Bal(e, q) = Bal(c, q)
        /\ \A q \in W : q \in 1..Len(c) \/ q = new
        /\ new \in W
    BY <1>1, VisibleAppend, Zenon
  <1>3. \A q : q \in W <=> q \in V \/ q = new
    BY <1>2, Zenon
  <1>4. e[new] = i /\ new \notin V
    BY <1>2, SameAppend
  <1>5. p \in Seq(Local) /\ Len(p) = Len(l) + 1 /\ Len(l) \in Nat
        /\ p[Len(l) + 1] = n /\ \A k \in 1..Len(l) : p[k] = l[k] /\ k \in 1..Len(p)
    OBVIOUS
  <1>6. \A k \in 1..Len(p) : k \in 1..Len(l) \/ k = Len(l) + 1
    BY <1>5
  <1>7. /\ \A j, k \in 1..Len(l) : l[j].name = l[k].name => j = k
        /\ \A k \in 1..Len(l) : \E q \in V : c[q].x = l[k].name
        /\ \A q \in V : \E k \in 1..Len(l) : c[q].x = l[k].name
        /\ \A q, r \in V : c[q].x = c[r].x => q = r
    BY DEF Agree
  <1>8. \A q \in V : c[q].x # n.name
    BY <1>7
  <1>9. Bal(e, new) \in Int
    <2>1. e \in Seq(Line) /\ new \in Nat
      BY SameAppend
    <2> QED
      BY <2>1, BalSteps
  <1> HIDE DEF e, V, W, p, new
  <1>10. Agree(p, e)
    <2>1. \A j, k \in 1..Len(p) : p[j].name = p[k].name => j = k
      BY <1>5, <1>6, <1>7
    <2> \A q \in V : e[q].x = c[q].x /\ q \in W
      BY <1>2, <1>3
    <2> e[new].x = n.name /\ new \in W
      BY <1>3, <1>4
    <2>2. ASSUME NEW k \in 1..Len(p) PROVE \E q \in W : e[q].x = p[k].name
      <3>1. CASE k = Len(l) + 1
        BY <3>1, <1>5
      <3>2. CASE k \in 1..Len(l)
        <4>1. PICK q \in V : c[q].x = l[k].name
          BY <3>2, <1>7
        <4> QED
          BY <4>1, <3>2, <1>5
      <3> QED
        BY <3>1, <3>2, <1>6
    <2>4. ASSUME NEW q \in W PROVE \E k \in 1..Len(p) : e[q].x = p[k].name
      <3>1. CASE q = new
        <4>1. Len(l) + 1 \in 1..Len(p)
          BY <1>5
        <4> QED
          BY <4>1, <3>1, <1>5
      <3>2. CASE q \in V
        <4>1. PICK k \in 1..Len(l) : c[q].x = l[k].name
          BY <3>2, <1>7
        <4> QED
          BY <4>1, <3>2, <1>5
      <3> QED
        BY <3>1, <3>2, <1>3
    <2>5. ASSUME NEW q \in W, NEW r \in W, e[q].x = e[r].x PROVE q = r
      <3>1. CASE q \in V /\ r \in V
        BY <3>1, <2>5, <1>7
      <3>2. CASE q = new /\ r \in V
        BY <3>2, <2>5, <1>8
      <3>3. CASE q \in V /\ r = new
        BY <3>3, <2>5, <1>8
      <3> QED
        BY <3>1, <3>2, <3>3, <1>3
    <2> QED
      BY <2>1, <2>2, <2>4, <2>5 DEF Agree, W
  <1>11. ASSUME NEW m \in Int, NEW d \in Int, d <= Bal(e, new), Cut(l, c, m, d)
         PROVE  Cut(p, e, m, d)
    <2>1. m \in 0..Len(l) /\ \A k \in 1..Len(l) : \A q \in V :
            c[q].x = l[k].name => (k <= m <=> Bal(c, q) < d)
      BY <1>11 DEF Cut, V
    <2>2. ASSUME NEW k \in 1..Len(p), NEW q \in W, e[q].x = p[k].name
          PROVE  k <= m <=> Bal(e, q) < d
      <3>1. CASE k \in 1..Len(l) /\ q \in V
        <4>1. p[k] = l[k] /\ e[q] = c[q] /\ Bal(e, q) = Bal(c, q)
          BY <3>1, <1>2, <1>5
        <4> QED
          BY <4>1, <3>1, <2>1, <2>2
      <3>2. CASE k = Len(l) + 1 /\ q = new
        BY <3>2, <2>1, <1>5, <1>9, <1>11
      <3>3. CASE k \in 1..Len(l) /\ q = new
        BY <3>3, <2>2, <1>4, <1>5
      <3>4. CASE k = Len(l) + 1 /\ q \in V
        <4>1. p[k] = n /\ e[q] = c[q]
          BY <3>4, <1>2, <1>5
        <4> QED
          BY <4>1, <3>4, <2>2, <1>8
      <3> QED
        BY <3>1, <3>2, <3>3, <3>4, <1>3, <1>6
    <2>3. m \in 0..Len(p)
      BY <2>1, <1>5
    <2> QED
      BY <2>2, <2>3 DEF Cut, W
  <1> QED
    BY <1>5, <1>10, <1>11 DEF e, p, new

(* Everything declared so far is declared within what is open.             *)
LEMMA CutAll ==
  ASSUME NEW c \in Seq(Line), NEW l \in Seq(Local), NEW d \in Int,
         Bal(c, Len(c)) < d
  PROVE  Cut(l, c, Len(l), d)
  <1>1. PICK i \in Line : TRUE
    <2>1. [op |-> "close", x |-> ""] \in Line
      BY Zenon DEF Line, OpNames, NameOrNone
    <2> QED
      BY <2>1, Zenon
  <1>2. \A q \in Visible(c) : Bal(c, q) \in Int /\ Bal(c, q) <= Bal(c, Len(c))
    BY VisibleAppend, Zenon
  <1>3. Bal(c, Len(c)) \in Int
    BY BalSteps
  <1>4. Len(l) \in Nat /\ Len(l) \in 0..Len(l)
    OBVIOUS
  <1> QED
    BY <1>2, <1>3, <1>4 DEF Cut

(* The flags of the entries play no part.                                  *)
LEMMA SameNames ==
  ASSUME NEW c \in Seq(Line), NEW l \in Seq(Local), NEW k \in Seq(Local),
         Len(k) = Len(l), \A j \in 1..Len(l) : k[j].name = l[j].name
  PROVE  /\ Agree(l, c) => Agree(k, c)
         /\ \A m, d : Cut(l, c, m, d) => Cut(k, c, m, d)
  BY DEF Agree, Cut

----------------------------------------------------------------------------
(***************************************************************************)
(* The stack of blocks, and how many braces stand around each.             *)
(***************************************************************************)
Plain == {"if", "while", "loop", "range", "case", "else"}
Kinds == Plain \cup {"fn", "match", "each"}

BlockType ==
  [kind : Kinds, nloc : Nat, before : Nat, returned : BOOLEAN, all : BOOLEAN,
   hasElse : BOOLEAN, hasCase : BOOLEAN]

Braced(bs) == {b \in 1..Len(bs) : bs[b].kind \notin {"fn", "match"}}
Ranges(bs) == {b \in 1..Len(bs) : bs[b].kind = "range"}

(* The braces of the first b blocks.                                       *)
Lev(bs, b) == Tally(Braced(bs), b) + Tally(Ranges(bs), b)

(* A range block stands for two braces, a function or match for none, every
   other block for one. *)
LEMMA LevSteps ==
  ASSUME NEW bs \in Seq(BlockType)
  PROVE  /\ Lev(bs, 0) = 0
         /\ \A b \in Nat : Lev(bs, b) \in Nat
         /\ \A b \in 1..Len(bs) :
              /\ b - 1 \in Nat
              /\ bs[b].kind \in {"fn", "match"} => Lev(bs, b) = Lev(bs, b - 1)
              /\ bs[b].kind = "range" => Lev(bs, b) = Lev(bs, b - 1) + 2
              /\ bs[b].kind \notin {"fn", "match", "range"} =>
                   Lev(bs, b) = Lev(bs, b - 1) + 1
  <1> DEFINE A == Braced(bs)
             B == Ranges(bs)
  <1>1. Len(bs) \in Nat
    OBVIOUS
  <1>2. ASSUME NEW b \in 1..Len(bs)
        PROVE  /\ b \in A <=> bs[b].kind \notin {"fn", "match"}
               /\ b \in B <=> bs[b].kind = "range"
    BY DEF Braced, Ranges
  <1>3. /\ Tally(A, 0) = 0 /\ Tally(B, 0) = 0
        /\ \A b \in Nat : Tally(A, b) \in Nat /\ Tally(B, b) \in Nat
    BY TallyStep
  <1>4. ASSUME NEW b \in 1..Len(bs)
        PROVE  /\ b - 1 \in Nat /\ b \in Nat
               /\ b \in A => Tally(A, b) = Tally(A, b - 1) + 1
               /\ b \notin A => Tally(A, b) = Tally(A, b - 1)
               /\ b \in B => Tally(B, b) = Tally(B, b - 1) + 1
               /\ b \notin B => Tally(B, b) = Tally(B, b - 1)
    <2>1. b - 1 \in Nat /\ (b - 1) + 1 = b /\ b \in Nat
      BY <1>1
    <2> HIDE DEF A, B
    <2> QED
      BY <2>1, TallyStep
  <1> HIDE DEF A, B
  <1>5. \A b : Lev(bs, b) = Tally(A, b) + Tally(B, b)
    BY DEF Lev, A, B
  <1>6. ASSUME NEW b \in 1..Len(bs)
        PROVE  /\ b - 1 \in Nat
               /\ b \notin A /\ b \notin B => Lev(bs, b) = Lev(bs, b - 1)
               /\ b \in A /\ b \in B => Lev(bs, b) = Lev(bs, b - 1) + 2
               /\ b \in A /\ b \notin B => Lev(bs, b) = Lev(bs, b - 1) + 1
    <2>1. b \in Nat /\ b - 1 \in Nat
      BY <1>4
    <2>2. /\ Tally(A, b) \in Nat /\ Tally(A, b - 1) \in Nat
          /\ Tally(B, b) \in Nat /\ Tally(B, b - 1) \in Nat
      BY <2>1, <1>3, Zenon
    <2>3. /\ Lev(bs, b) = Tally(A, b) + Tally(B, b)
          /\ Lev(bs, b - 1) = Tally(A, b - 1) + Tally(B, b - 1)
      BY <1>5
    <2>4. b \in A => Tally(A, b) = Tally(A, b - 1) + 1
      BY <1>4, Zenon
    <2>5. b \notin A => Tally(A, b) = Tally(A, b - 1)
      BY <1>4, Zenon
    <2>6. b \in B => Tally(B, b) = Tally(B, b - 1) + 1
      BY <1>4, Zenon
    <2>7. b \notin B => Tally(B, b) = Tally(B, b - 1)
      BY <1>4, Zenon
    <2> QED
      BY <2>1, <2>2, <2>3, <2>4, <2>5, <2>6, <2>7
  <1>7. Lev(bs, 0) = 0 /\ \A b \in Nat : Lev(bs, b) \in Nat
    <2>1. Lev(bs, 0) = Tally(A, 0) + Tally(B, 0)
      BY <1>5
    <2>2. ASSUME NEW b \in Nat PROVE Lev(bs, b) \in Nat
      <3>1. Tally(A, b) \in Nat /\ Tally(B, b) \in Nat
        BY <1>3, Zenon
      <3>2. Lev(bs, b) = Tally(A, b) + Tally(B, b)
        BY <1>5
      <3> QED
        BY <3>1, <3>2
    <2> QED
      BY <1>3, <2>1, <2>2
  <1>8. ASSUME NEW b \in 1..Len(bs)
        PROVE  /\ bs[b].kind \in {"fn", "match"} => b \notin A /\ b \notin B
               /\ bs[b].kind = "range" => b \in A /\ b \in B
               /\ bs[b].kind \notin {"fn", "match", "range"} => b \in A /\ b \notin B
    BY <1>2, Zenon
  <1> QED
    BY <1>6, <1>7, <1>8, Zenon

(* The level up to a block depends only on the kinds of the blocks up to it. *)
LEMMA LevSame ==
  ASSUME NEW bs \in Seq(BlockType), NEW cs \in Seq(BlockType), NEW n \in Nat,
         n <= Len(bs), n <= Len(cs), \A k \in 1..n : cs[k].kind = bs[k].kind
  PROVE  \A b \in 0..n : Lev(cs, b) = Lev(bs, b)
  <1> SUFFICES ASSUME NEW b \in 0..n PROVE Lev(cs, b) = Lev(bs, b)
    OBVIOUS
  <1>1. \A k \in 1..b : k \in Braced(cs) <=> k \in Braced(bs)
    BY DEF Braced
  <1>2. \A k \in 1..b : k \in Ranges(cs) <=> k \in Ranges(bs)
    BY DEF Ranges
  <1>3. Tally(Braced(cs), b) = Tally(Braced(bs), b)
    BY <1>1, TallyAgree
  <1>4. Tally(Ranges(cs), b) = Tally(Ranges(bs), b)
    BY <1>2, TallyAgree
  <1> QED
    BY <1>3, <1>4 DEF Lev

(* No block stands for more braces than the whole stack. *)
LEMMA LevTop ==
  ASSUME NEW bs \in Seq(BlockType)
  PROVE  \A b \in 1..Len(bs) : Lev(bs, b) <= Lev(bs, Len(bs))
  <1> SUFFICES ASSUME NEW b \in 1..Len(bs) PROVE Lev(bs, b) <= Lev(bs, Len(bs))
    OBVIOUS
  <1> DEFINE S == {k \in b..Len(bs) : Lev(bs, b) <= Lev(bs, k)}
  <1>1. \A k \in Nat : Lev(bs, k) \in Nat
    BY LevSteps
  <1>2. b \in S
    BY <1>1
  <1>3. ASSUME NEW k \in b..Len(bs) - 1, k \in S PROVE k + 1 \in S
    <2>1. k + 1 \in 1..Len(bs) /\ (k + 1) - 1 = k /\ k + 1 \in b..Len(bs)
          /\ k \in Nat /\ k + 1 \in Nat /\ b \in Nat
      OBVIOUS
    <2>2. \/ Lev(bs, k + 1) = Lev(bs, (k + 1) - 1)
          \/ Lev(bs, k + 1) = Lev(bs, (k + 1) - 1) + 2
          \/ Lev(bs, k + 1) = Lev(bs, (k + 1) - 1) + 1
      BY <2>1, LevSteps, Zenon
    <2>3. Lev(bs, b) <= Lev(bs, k)
      BY <1>3
    <2>4. Lev(bs, b) \in Nat /\ Lev(bs, k) \in Nat /\ Lev(bs, k + 1) \in Nat
      BY <1>1, <2>1
    <2>5. Lev(bs, b) <= Lev(bs, k + 1)
      BY <2>1, <2>2, <2>3, <2>4
    <2> QED
      BY <2>1, <2>5
  <1>4. b..Len(bs) \subseteq S
    <2> HIDE DEF S
    <2>1. b \in Int /\ Len(bs) \in Int
      OBVIOUS
    <2> QED
      BY <1>2, <1>3, <2>1, UpTo
  <1>5. Len(bs) \in b..Len(bs)
    OBVIOUS
  <1> QED
    BY <1>4, <1>5

(* What a pushed block does to the stack and to its level. *)
LEMMA PushPop ==
  ASSUME NEW bs \in Seq(BlockType), NEW k \in BlockType
  PROVE  /\ Append(bs, k) \in Seq(BlockType) /\ Len(Append(bs, k)) = Len(bs) + 1
         /\ Append(bs, k)[Len(bs) + 1] = k /\ Len(bs) \in Nat
         /\ \A b \in 1..Len(bs) : Append(bs, k)[b] = bs[b]
         /\ Lev(Append(bs, k), Len(bs)) = Lev(bs, Len(bs))
         /\ k.kind = "match" =>
              Lev(Append(bs, k), Len(bs) + 1) = Lev(bs, Len(bs))
         /\ k.kind = "range" =>
              Lev(Append(bs, k), Len(bs) + 1) = Lev(bs, Len(bs)) + 2
         /\ k.kind \notin {"fn", "match", "range"} =>
              Lev(Append(bs, k), Len(bs) + 1) = Lev(bs, Len(bs)) + 1
  <1> DEFINE cs == Append(bs, k)
             n == Len(bs)
  <1>1. /\ cs \in Seq(BlockType) /\ Len(cs) = n + 1 /\ cs[n + 1] = k /\ n \in Nat
        /\ \A b \in 1..n : cs[b] = bs[b]
    OBVIOUS
  <1> HIDE DEF cs, n
  <1>2. n <= Len(bs) /\ n <= Len(cs) /\ n \in 0..n
    BY <1>1 DEF n
  <1>3. \A b \in 0..n : Lev(cs, b) = Lev(bs, b)
    BY <1>1, <1>2, LevSame
  <1>4. n + 1 \in 1..Len(cs) /\ (n + 1) - 1 = n
    BY <1>1
  <1>5. /\ k.kind \in {"fn", "match"} => Lev(cs, n + 1) = Lev(cs, (n + 1) - 1)
        /\ k.kind = "range" => Lev(cs, n + 1) = Lev(cs, (n + 1) - 1) + 2
        /\ k.kind \notin {"fn", "match", "range"} =>
             Lev(cs, n + 1) = Lev(cs, (n + 1) - 1) + 1
    BY <1>1, <1>4, LevSteps, Zenon
  <1>6. Lev(cs, (n + 1) - 1) = Lev(bs, n)
    BY <1>2, <1>3, <1>4
  <1> QED
    BY <1>1, <1>2, <1>3, <1>5, <1>6 DEF cs, n

(* What remains of stack and level when the last block is popped. *)
LEMMA Popped ==
  ASSUME NEW bs \in Seq(BlockType), Len(bs) > 1
  PROVE  /\ Front(bs) \in Seq(BlockType) /\ Len(Front(bs)) = Len(bs) - 1
         /\ Len(bs) - 1 \in Nat \ {0} /\ Len(bs) \in 1..Len(bs)
         /\ \A b \in 1..Len(bs) - 1 : Front(bs)[b] = bs[b] /\ b \in 1..Len(bs)
         /\ Last(bs) = bs[Len(bs)]
         /\ Lev(Front(bs), Len(bs) - 1) = Lev(bs, Len(bs) - 1)
         /\ Last(bs).kind = "match" => Lev(bs, Len(bs)) = Lev(bs, Len(bs) - 1)
         /\ Last(bs).kind = "range" => Lev(bs, Len(bs)) = Lev(bs, Len(bs) - 1) + 2
         /\ Last(bs).kind \notin {"fn", "match", "range"} =>
              Lev(bs, Len(bs)) = Lev(bs, Len(bs) - 1) + 1
  <1> DEFINE cs == Front(bs)
             n == Len(bs) - 1
  <1>1. /\ cs \in Seq(BlockType) /\ Len(cs) = n /\ n \in Nat \ {0}
        /\ \A b \in 1..n : cs[b] = bs[b] /\ b \in 1..Len(bs)
        /\ Last(bs) = bs[Len(bs)] /\ Len(bs) \in 1..Len(bs)
    <2>1. Len(bs) \in Nat /\ Len(bs) > 1
      OBVIOUS
    <2> DEFINE size == Len(bs)
    <2> HIDE DEF size
    <2>0. size \in Nat /\ size > 1 => size - 1 \in Nat \ {0} /\ size - 1 <= size
      OBVIOUS
    <2>2. n \in Nat \ {0} /\ n <= Len(bs)
      BY <2>0, <2>1, Zenon DEF size
    <2>3. cs = SubSeq(bs, 1, n)
      BY DEF Front
    <2>4. \A b \in 1..n : b \in 1..Len(bs)
      BY <2>1, <2>2
    <2> HIDE DEF n, cs
    <2>5. cs \in Seq(BlockType) /\ Len(cs) = n /\ \A b \in 1..n : cs[b] = bs[b]
      BY <2>1, <2>2, <2>3, <2>4
    <2> QED
      BY <2>1, <2>2, <2>4, <2>5 DEF Last
  <1>2. n <= Len(bs) /\ n <= Len(cs) /\ n \in 0..n /\ Len(bs) \in Nat
    BY <1>1
  <1> HIDE DEF cs
  <1>3. Lev(cs, n) = Lev(bs, n)
    BY <1>1, <1>2, LevSame
  <1>4. /\ bs[Len(bs)].kind \in {"fn", "match"} => Lev(bs, Len(bs)) = Lev(bs, Len(bs) - 1)
        /\ bs[Len(bs)].kind = "range" => Lev(bs, Len(bs)) = Lev(bs, Len(bs) - 1) + 2
        /\ bs[Len(bs)].kind \notin {"fn", "match", "range"} =>
             Lev(bs, Len(bs)) = Lev(bs, Len(bs) - 1) + 1
    BY <1>1, LevSteps, Zenon
  <1> QED
    BY <1>1, <1>3, <1>4 DEF cs

----------------------------------------------------------------------------
(***************************************************************************)
(* The names a block found when it was opened: they are those declared     *)
(* outside of its braces.                                                  *)
(***************************************************************************)
BlockCuts(bs, b, l, c) ==
  /\ bs[b].kind \in Plain => Cut(l, c, bs[b].nloc, Lev(bs, b))
  /\ bs[b].kind = "range" => Cut(l, c, bs[b].before, Lev(bs, b) - 1)
  /\ bs[b].kind = "each" => Cut(l, c, bs[b].before, Lev(bs, b))

Scoped(bs, l, c) ==
  /\ Agree(l, c)
  /\ Lev(bs, Len(bs)) = Bal(c, Len(c))
  /\ \A b \in 1..Len(bs) : BlockCuts(bs, b, l, c)

Stored(bs, l, c) == bs \in Seq(BlockType) /\ l \in Seq(Local) /\ c \in Seq(Line)

(* What holds of fewer than d braces holds on.                             *)
Carries(l, c, k, e, d) ==
  \A m, u \in Int : u <= d /\ Cut(l, c, m, u) => Cut(k, e, m, u)

Alike(bs, cs, n) ==
  \A b \in 1..n : /\ cs[b].kind = bs[b].kind /\ cs[b].nloc = bs[b].nloc
                  /\ cs[b].before = bs[b].before

(* Blocks that are left alone keep the scopes that cut them, when names and
   code change only above their level. *)
LEMMA CutsCarry ==
  ASSUME NEW bs, NEW l, NEW c, Stored(bs, l, c), NEW n \in 1..Len(bs),
         NEW cs \in Seq(BlockType), n <= Len(cs), Alike(bs, cs, n), NEW k, NEW e,
         Carries(l, c, k, e, Lev(bs, n)),
         \A b \in 1..Len(bs) : BlockCuts(bs, b, l, c)
  PROVE  (\A b \in 1..n : BlockCuts(cs, b, k, e)) /\ Lev(cs, n) = Lev(bs, n)
  <1> bs \in Seq(BlockType)
    BY DEF Stored
  <1>1. \A b \in 1..n : cs[b].kind = bs[b].kind
    BY DEF Alike
  <1>2. n \in Nat /\ n <= Len(bs) /\ n <= Len(cs) /\ n \in 0..n
    OBVIOUS
  <1>3. \A b \in 0..n : Lev(cs, b) = Lev(bs, b)
    BY <1>1, <1>2, LevSame
  <1> DEFINE low == SubSeq(bs, 1, n)
  <1>4. low \in Seq(BlockType) /\ Len(low) = n /\ \A b \in 1..n : low[b] = bs[b]
    OBVIOUS
  <1> HIDE DEF low
  <1>5. \A b \in 0..n : Lev(low, b) = Lev(bs, b)
    BY <1>2, <1>4, LevSame
  <1>6. \A b \in 1..n : Lev(low, b) <= Lev(low, n)
    BY <1>4, LevTop
  <1>7. ASSUME NEW b \in 1..n PROVE BlockCuts(cs, b, k, e)
    <2>1. b \in 1..Len(bs) /\ b \in 0..n /\ b \in Nat
      OBVIOUS
    <2>2. Lev(cs, b) = Lev(bs, b) /\ Lev(bs, b) <= Lev(bs, n)
      BY <2>1, <1>2, <1>3, <1>5, <1>6
    <2>3. Lev(bs, b) \in Nat /\ Lev(bs, n) \in Nat
      BY <2>1, <1>2, LevSteps
    <2>4. BlockCuts(bs, b, l, c)
      BY <2>1
    <2>5. bs[b].nloc \in Int /\ bs[b].before \in Int
      <3>1. bs[b] \in BlockType
        BY <2>1
      <3>2. bs[b].nloc \in Nat /\ bs[b].before \in Nat
        BY <3>1, Zenon DEF BlockType
      <3> QED
        BY <3>2
    <2>6. /\ cs[b].kind = bs[b].kind /\ cs[b].nloc = bs[b].nloc
          /\ cs[b].before = bs[b].before
      BY DEF Alike
    <2>7. \A m, u \in Int : u <= Lev(bs, n) /\ Cut(l, c, m, u) => Cut(k, e, m, u)
      BY DEF Carries
    <2>8. Lev(bs, b) - 1 \in Int /\ Lev(bs, b) - 1 <= Lev(bs, n) /\ Lev(bs, b) \in Int
      BY <2>2, <2>3
    <2>9. ASSUME cs[b].kind \in Plain PROVE Cut(k, e, cs[b].nloc, Lev(cs, b))
      <3>1. Cut(l, c, bs[b].nloc, Lev(bs, b))
        BY <2>4, <2>6, <2>9 DEF BlockCuts
      <3> QED
        BY <3>1, <2>2, <2>5, <2>6, <2>7, <2>8
    <2>10. ASSUME cs[b].kind = "range" PROVE Cut(k, e, cs[b].before, Lev(cs, b) - 1)
      <3>1. Cut(l, c, bs[b].before, Lev(bs, b) - 1)
        BY <2>4, <2>6, <2>10 DEF BlockCuts
      <3> QED
        BY <3>1, <2>2, <2>5, <2>6, <2>7, <2>8
    <2>11. ASSUME cs[b].kind = "each" PROVE Cut(k, e, cs[b].before, Lev(cs, b))
      <3>1. Cut(l, c, bs[b].before, Lev(bs, b))
        BY <2>4, <2>6, <2>11 DEF BlockCuts
      <3> QED
        BY <3>1, <2>2, <2>5, <2>6, <2>7, <2>8
    <2> QED
      BY <2>9, <2>10, <2>11 DEF BlockCuts
  <1> QED
    BY <1>2, <1>3, <1>7

(* Lines, names and flags that leave the braces alone.                     *)
LEMMA ScopedSteady ==
  ASSUME NEW bs, NEW l, NEW c, Stored(bs, l, c), Scoped(bs, l, c), Len(bs) > 0,
         NEW cs \in Seq(BlockType), Len(cs) = Len(bs), Alike(bs, cs, Len(bs))
  PROVE  /\ Scoped(cs, l, c)
         /\ \A i \in Line : i.op \notin Declaring \cup Openings \cup {"close"} =>
              Scoped(cs, l, Append(c, i))
         /\ \A k \in Seq(Local) :
              Len(k) = Len(l) /\ (\A j \in 1..Len(l) : k[j].name = l[j].name) =>
                Scoped(cs, k, c)
         /\ \A i \in Line, n \in Local :
              i.op = "bind" /\ i.x = n.name /\ (\A k \in 1..Len(l) : l[k].name # n.name) =>
                Scoped(cs, Append(l, n), Append(c, i))
  <1> DEFINE h == Len(bs)
             T == Lev(bs, h)
  <1> bs \in Seq(BlockType) /\ l \in Seq(Local) /\ c \in Seq(Line)
    BY DEF Stored
  <1>1. h \in 1..Len(bs) /\ h <= Len(cs) /\ Len(cs) = h
    OBVIOUS
  <1>2. /\ Agree(l, c) /\ T = Bal(c, Len(c)) /\ \A b \in 1..Len(bs) : BlockCuts(bs, b, l, c)
    BY DEF Scoped
  <1>3. Alike(bs, cs, h)
    OBVIOUS
  <1> HIDE DEF h
  <1>4. ASSUME NEW k, NEW e, Carries(l, c, k, e, T), Agree(k, e), Bal(e, Len(e)) = T
        PROVE  Scoped(cs, k, e)
    <2>1. (\A b \in 1..h : BlockCuts(cs, b, k, e)) /\ Lev(cs, h) = Lev(bs, h)
      <3>1. Carries(l, c, k, e, Lev(bs, h))
        BY <1>4
      <3>2. h \in 1..Len(bs) /\ h <= Len(cs) /\ cs \in Seq(BlockType) /\ Stored(bs, l, c)
        BY <1>1
      <3>3. \A b \in 1..Len(bs) : BlockCuts(bs, b, l, c)
        BY <1>2
      <3> QED
        BY <3>1, <3>2, <3>3, <1>3, CutsCarry
    <2> QED
      BY <2>1, <1>1, <1>4 DEF Scoped
  <1> HIDE DEF T
  <1>5. Scoped(cs, l, c)
    <2>1. Carries(l, c, l, c, T)
      BY DEF Carries
    <2> QED
      BY <2>1, <1>2, <1>4
  <1>6. ASSUME NEW i \in Line, i.op \notin Declaring \cup Openings \cup {"close"}
        PROVE  Scoped(cs, l, Append(c, i))
    <2>1. i.op # "close" /\ i.op \notin Declaring /\ i.op \notin Openings
      BY <1>6, Zenon
    <2>2. Agree(l, Append(c, i)) /\ \A m, d : Cut(l, c, m, d) => Cut(l, Append(c, i), m, d)
      BY <2>1, <1>2, Keep
    <2>3. Carries(l, c, l, Append(c, i), T)
      BY <2>2 DEF Carries
    <2>4. Bal(Append(c, i), Len(Append(c, i))) = T
      <3>1. Len(Append(c, i)) = Len(c) + 1
        BY SameAppend
      <3>2. Bal(Append(c, i), Len(c) + 1) = Bal(c, Len(c))
        BY <2>1, BalAppend
      <3> QED
        BY <3>1, <3>2, <1>2
    <2> QED
      BY <2>2, <2>3, <2>4, <1>4
  <1>7. ASSUME NEW k \in Seq(Local), Len(k) = Len(l), \A j \in 1..Len(l) : k[j].name = l[j].name
        PROVE  Scoped(cs, k, c)
    <2>1. Agree(k, c) /\ \A m, d : Cut(l, c, m, d) => Cut(k, c, m, d)
      BY <1>2, <1>7, SameNames
    <2>2. Carries(l, c, k, c, T)
      BY <2>1 DEF Carries
    <2> QED
      BY <2>1, <2>2, <1>2, <1>4
  <1>8. ASSUME NEW i \in Line, NEW n \in Local, i.op = "bind", i.x = n.name,
               \A k \in 1..Len(l) : l[k].name # n.name
        PROVE  Scoped(cs, Append(l, n), Append(c, i))
    <2>1. i.op \in Declaring /\ i.op \notin Openings /\ i.op # "close"
      BY <1>8, Zenon DEF Declaring, Openings, Loops
    <2>2. /\ Agree(Append(l, n), Append(c, i))
          /\ \A m, d \in Int :
               d <= Bal(Append(c, i), Len(c) + 1) /\ Cut(l, c, m, d) =>
                 Cut(Append(l, n), Append(c, i), m, d)
      BY <2>1, <1>2, <1>8, Learn
    <2>3. Bal(Append(c, i), Len(c) + 1) = Bal(c, Len(c))
      BY <2>1, BalAppend
    <2>4. Carries(l, c, Append(l, n), Append(c, i), T)
      BY <2>2, <2>3, <1>2 DEF Carries
    <2>5. Len(Append(c, i)) = Len(c) + 1
      BY SameAppend
    <2> QED
      BY <2>2, <2>3, <2>4, <2>5, <1>2, <1>4
  <1> QED
    BY <1>5, <1>6, <1>7, <1>8

(* A block is opened, with the names of its head.                          *)
LEMMA ScopedOpen ==
  ASSUME NEW bs, NEW l, NEW c, Stored(bs, l, c), Scoped(bs, l, c), Len(bs) > 0,
         NEW b \in BlockType, b.kind # "fn",
         NEW k \in Seq(Local), NEW e \in Seq(Line), Agree(k, e),
         \A m, d \in Int : d <= Bal(c, Len(c)) /\ Cut(l, c, m, d) => Cut(k, e, m, d),
         b.kind = "match" => Bal(e, Len(e)) = Bal(c, Len(c)),
         b.kind = "range" => Bal(e, Len(e)) = Bal(c, Len(c)) + 2,
         b.kind \notin {"match", "range"} => Bal(e, Len(e)) = Bal(c, Len(c)) + 1,
         b.kind \in Plain => Cut(k, e, b.nloc, Bal(e, Len(e))),
         b.kind = "range" => Cut(k, e, b.before, Bal(e, Len(e)) - 1),
         b.kind = "each" => Cut(k, e, b.before, Bal(e, Len(e)))
  PROVE  Scoped(Append(bs, b), k, e)
  <1> DEFINE h == Len(bs)
             cs == Append(bs, b)
             T == Bal(c, Len(c))
  <1> bs \in Seq(BlockType) /\ l \in Seq(Local) /\ c \in Seq(Line)
    BY DEF Stored
  <1>1. /\ Agree(l, c) /\ Lev(bs, h) = T
        /\ \A j \in 1..h : BlockCuts(bs, j, l, c)
    BY DEF Scoped
  <1>2. /\ cs \in Seq(BlockType) /\ Len(cs) = h + 1 /\ cs[h + 1] = b /\ h \in Nat
        /\ \A j \in 1..h : cs[j] = bs[j]
        /\ b.kind = "match" => Lev(cs, h + 1) = Lev(bs, h)
        /\ b.kind = "range" => Lev(cs, h + 1) = Lev(bs, h) + 2
        /\ b.kind \notin {"fn", "match", "range"} => Lev(cs, h + 1) = Lev(bs, h) + 1
    BY PushPop
  <1>3. h \in 1..Len(bs)
    OBVIOUS
  <1> HIDE DEF h, cs, T
  <1>4. h <= Len(cs) /\ Alike(bs, cs, h)
    BY <1>2 DEF Alike
  <1>5. Carries(l, c, k, e, Lev(bs, h))
    BY <1>1 DEF Carries, T
  <1>6. \A j \in 1..Len(bs) : BlockCuts(bs, j, l, c)
    BY <1>1 DEF h
  <1>7. \A j \in 1..h : BlockCuts(cs, j, k, e)
    <2>1. cs \in Seq(BlockType) /\ Stored(bs, l, c)
      BY <1>2
    <2>2. (\A j \in 1..h : BlockCuts(cs, j, k, e)) /\ Lev(cs, h) = Lev(bs, h)
      BY <2>1, <1>3, <1>4, <1>5, <1>6, CutsCarry
    <2> QED
      BY <2>2
  <1>8. Lev(cs, h + 1) = Bal(e, Len(e))
    <2>1. b.kind = "match" \/ b.kind = "range" \/ b.kind \notin {"fn", "match", "range"}
      BY Zenon
    <2> QED
      BY <2>1, <1>1, <1>2 DEF T
  <1>9. BlockCuts(cs, h + 1, k, e)
    BY <1>2, <1>8 DEF BlockCuts
  <1>10. \A j \in 1..Len(cs) : BlockCuts(cs, j, k, e)
    <2>1. \A j \in 1..Len(cs) : j \in 1..h \/ j = h + 1
      BY <1>2
    <2> QED
      BY <2>1, <1>7, <1>9
  <1>11. Scoped(cs, k, e)
    BY <1>2, <1>8, <1>10 DEF Scoped
  <1> QED
    BY <1>11 DEF cs

(* A block is closed, and its names are dropped.                           *)
LEMMA ScopedShut ==
  ASSUME NEW bs, NEW l, NEW c, Stored(bs, l, c), Scoped(bs, l, c), Len(bs) > 1,
         NEW k \in Seq(Local), NEW e \in Seq(Line), Agree(k, e),
         \A m, d \in Int : d <= Lev(bs, Len(bs) - 1) /\ Cut(l, c, m, d) => Cut(k, e, m, d),
         Bal(e, Len(e)) = Lev(bs, Len(bs) - 1)
  PROVE  Scoped(Front(bs), k, e)
  <1> DEFINE h == Len(bs) - 1
             cs == Front(bs)
  <1> bs \in Seq(BlockType) /\ l \in Seq(Local) /\ c \in Seq(Line)
    BY DEF Stored
  <1>1. \A j \in 1..Len(bs) : BlockCuts(bs, j, l, c)
    BY DEF Scoped
  <1>2. /\ cs \in Seq(BlockType) /\ Len(cs) = h /\ h \in Nat \ {0}
        /\ \A j \in 1..h : cs[j] = bs[j] /\ j \in 1..Len(bs)
        /\ Lev(cs, h) = Lev(bs, h)
    BY Popped
  <1>3. h \in 1..Len(bs)
    OBVIOUS
  <1>4. Carries(l, c, k, e, Lev(bs, h)) /\ Bal(e, Len(e)) = Lev(bs, h)
    BY DEF Carries
  <1> HIDE DEF h, cs
  <1>5. h <= Len(cs) /\ Alike(bs, cs, h)
    BY <1>2 DEF Alike
  <1>6. \A j \in 1..h : BlockCuts(cs, j, k, e)
    <2>1. cs \in Seq(BlockType) /\ Stored(bs, l, c)
      BY <1>2
    <2>2. (\A j \in 1..h : BlockCuts(cs, j, k, e)) /\ Lev(cs, h) = Lev(bs, h)
      BY <2>1, <1>1, <1>3, <1>4, <1>5, CutsCarry
    <2> QED
      BY <2>2
  <1>7. Scoped(cs, k, e)
    BY <1>2, <1>4, <1>6 DEF Scoped
  <1> QED
    BY <1>7 DEF cs

----------------------------------------------------------------------------
(***************************************************************************)
(* What the pieces of the actions build.                                   *)
(***************************************************************************)
LEMMA InstrIs ==
  ASSUME NEW op \in OpNames, NEW x \in NameOrNone
  PROVE  Instr(op, x) \in Line /\ Instr(op, x).op = op /\ Instr(op, x).x = x
  BY Zenon DEF Instr, Line

(* The absent name is one a token or line may carry. *)
LEMMA NoneIs == "" \in NameOrNone
  BY Zenon DEF NameOrNone

(* The names of a well-formed statement. *)
LEMMA TokenNames ==
  ASSUME NEW t \in Tokens
  PROVE  /\ t.x \in NameOrNone
         /\ t.k \in {"bind", "range", "each"} => t.x \in Name
  <1>1. t.x \in Name \cup {""} /\ (t.k \in {"bind", "range", "each"} => t.x # "")
    BY StatementAssumption, Zenon
  <1> QED
    BY <1>1, Zenon DEF NameOrNone

(* The text with what computes a condition in front of the next line.      *)
Prepared(c, t) == IF t.x = "" THEN c ELSE Append(c, Instr("hoist", t.x))

(* Preparing a condition emits nothing or one hoist line. *)
LEMMA HoistedIs ==
  ASSUME NEW c, NEW t
  PROVE  \/ Hoisted(t) = <<>> /\ Prepared(c, t) = c
         \/ /\ Hoisted(t) = <<Instr("hoist", t.x)>>
            /\ Prepared(c, t) = Append(c, Instr("hoist", t.x))
  BY Zenon DEF Hoisted, Prepared

(* Several emitted lines are as many appended ones. *)
LEMMA EmitOne ==
  ASSUME NEW c \in Seq(Line), NEW a \in Line, NEW b \in Line, NEW d \in Line
  PROVE  /\ c \o <<a>> = Append(c, a)
         /\ c \o <<a, b>> = Append(Append(c, a), b)
         /\ c \o <<a, b, d>> = Append(Append(Append(c, a), b), d)
  OBVIOUS

(* A prepared condition and its line are appended one after the other. *)
LEMMA EmitPrepared ==
  ASSUME NEW c \in Seq(Line), NEW t \in Tokens, NEW a \in Line, NEW i \in Line
  PROVE  /\ c \o Append(Hoisted(t), i) = Append(Prepared(c, t), i)
         /\ c \o (<<a>> \o Hoisted(t) \o <<i>>)
              = Append(Prepared(Append(c, a), t), i)
  <1>1. "hoist" \in OpNames
    BY Zenon DEF OpNames
  <1>2. Instr("hoist", t.x) \in Line
    BY <1>1, TokenNames, InstrIs
  <1> DEFINE h == Instr("hoist", t.x)
             p == Hoisted(t)
  <1>3. \A e : \/ p = <<>> /\ Prepared(e, t) = e
               \/ p = <<h>> /\ Prepared(e, t) = Append(e, h)
    BY HoistedIs, Zenon
  <1> h \in Line
    BY <1>2
  <1> HIDE DEF h, p
  <1>4. Append(c, a) \in Seq(Line)
    OBVIOUS
  <1>5. CASE p = <<>>
    <2>1. p # <<h>>
      BY <1>5
    <2>2. Prepared(c, t) = c /\ Prepared(Append(c, a), t) = Append(c, a)
      BY <1>3, <2>1
    <2>3. c \o Append(<<>>, i) = Append(c, i)
      OBVIOUS
    <2>4. c \o (<<a>> \o <<>> \o <<i>>) = Append(Append(c, a), i)
      OBVIOUS
    <2> QED
      BY <1>5, <2>2, <2>3, <2>4 DEF p
  <1>6. CASE p = <<h>>
    <2>1. p # <<>>
      BY <1>6
    <2>2. /\ Prepared(c, t) = Append(c, h)
          /\ Prepared(Append(c, a), t) = Append(Append(c, a), h)
      BY <1>3, <2>1
    <2>3. c \o Append(<<h>>, i) = Append(Append(c, h), i)
      OBVIOUS
    <2>4. c \o (<<a>> \o <<h>> \o <<i>>) = Append(Append(Append(c, a), h), i)
      OBVIOUS
    <2> QED
      BY <1>6, <2>2, <2>3, <2>4 DEF p
  <1> QED
    BY <1>3, <1>5, <1>6

(* Flags of the innermost block.                                           *)
LEMMA TopIs ==
  ASSUME NEW bs \in Seq(BlockType), Len(bs) > 0, NEW r \in BlockType
  PROVE  LET cs == [bs EXCEPT ![Len(bs)] = r]
         IN  /\ cs \in Seq(BlockType) /\ Len(cs) = Len(bs) /\ cs[Len(bs)] = r
             /\ \A b \in 1..Len(bs) - 1 : cs[b] = bs[b]
  OBVIOUS

(* Setting a flag of a block leaves a block. *)
LEMMA FlagIs ==
  ASSUME NEW k \in BlockType, NEW f \in BOOLEAN
  PROVE  /\ [k EXCEPT !.returned = f] \in BlockType
         /\ [k EXCEPT !.all = f] \in BlockType
         /\ [k EXCEPT !.hasCase = f] \in BlockType
         /\ [k EXCEPT !.hasElse = f] \in BlockType
  BY DEF BlockType

(* Done() touches only the returned flag of the last block. *)
LEMMA DoneIs ==
  ASSUME NEW bs \in Seq(BlockType), Len(bs) > 0, NEW f \in BOOLEAN
  PROVE  /\ Done(bs, f) \in Seq(BlockType) /\ Len(Done(bs, f)) = Len(bs)
         /\ Alike(bs, Done(bs, f), Len(bs))
         /\ \A b \in 1..Len(bs) - 1 : Done(bs, f)[b] = bs[b]
         /\ Done(bs, f)[Len(bs)].all = bs[Len(bs)].all
         /\ Done(bs, f)[Len(bs)].hasElse = bs[Len(bs)].hasElse
         /\ Done(bs, f)[Len(bs)].hasCase = bs[Len(bs)].hasCase
         /\ Done(bs, f)[Len(bs)].returned <=> (bs[Len(bs)].returned \/ f)
  <1> DEFINE n == Len(bs)
             r == [bs[n] EXCEPT !.returned = @ \/ f]
             cs == Done(bs, f)
  <1>1. n \in 1..Len(bs) /\ bs[n] \in BlockType
    OBVIOUS
  <1>2. bs[n].returned \in BOOLEAN
    BY <1>1, Zenon DEF BlockType
  <1>3. (bs[n].returned \/ f) \in BOOLEAN
    BY Zenon
  <1>4. r \in BlockType
    BY <1>1, <1>3, FlagIs
  <1>5. cs = [bs EXCEPT ![n] = r]
    BY DEF Done
  <1>6. r.kind = bs[n].kind /\ r.nloc = bs[n].nloc /\ r.before = bs[n].before
        /\ r.all = bs[n].all /\ r.hasElse = bs[n].hasElse /\ r.hasCase = bs[n].hasCase
    BY <1>1, Zenon DEF BlockType
  <1>7. r.returned <=> (bs[n].returned \/ f)
    BY <1>1, Zenon DEF BlockType
  <1> HIDE DEF r, cs
  <1>8. /\ cs \in Seq(BlockType) /\ Len(cs) = n /\ cs[n] = r
        /\ \A b \in 1..n - 1 : cs[b] = bs[b]
    BY <1>4, <1>5, TopIs
  <1>9. \A b \in 1..n : b \in 1..n - 1 \/ b = n
    BY <1>1
  <1>10. Alike(bs, cs, n)
    BY <1>6, <1>8, <1>9 DEF Alike
  <1> QED
    BY <1>6, <1>7, <1>8, <1>10 DEF cs

(* The fields of a block as it is opened. *)
LEMMA BlockIs ==
  ASSUME NEW k \in Kinds, NEW n \in Nat, NEW m \in Nat
  PROVE  /\ Block(k, n, m) \in BlockType
         /\ Block(k, n, m).kind = k /\ Block(k, n, m).nloc = n
         /\ Block(k, n, m).before = m /\ ~Block(k, n, m).returned
         /\ Block(k, n, m).all /\ ~Block(k, n, m).hasElse /\ ~Block(k, n, m).hasCase
  BY Zenon DEF Block, BlockType

(* The fields of a block have their types. *)
LEMMA FieldIs ==
  ASSUME NEW k \in BlockType
  PROVE  /\ k.kind \in Kinds /\ k.nloc \in Nat /\ k.before \in Nat
         /\ k.returned \in BOOLEAN /\ k.all \in BOOLEAN
         /\ k.hasElse \in BOOLEAN /\ k.hasCase \in BOOLEAN
  BY Zenon DEF BlockType

(* Cases stand in matches, and nothing else does.                          *)
Shape(bs) ==
  /\ \A b \in 1..Len(bs) : bs[b].kind = "fn" <=> b = 1
  /\ \A b \in 1..Len(bs) :
       bs[b].kind \in {"case", "else"} <=> b > 1 /\ bs[b - 1].kind = "match"

(* Pushing a block keeps the order of kinds: case and else directly above
   their match, the function at the bottom. *)
LEMMA ShapePush ==
  ASSUME NEW bs \in Seq(BlockType), Shape(bs), Len(bs) > 0, NEW k \in BlockType,
         k.kind # "fn", k.kind \in {"case", "else"} <=> Last(bs).kind = "match"
  PROVE  Shape(Append(bs, k))
  <1> DEFINE cs == Append(bs, k)
             n == Len(bs)
  <1>1. /\ cs \in Seq(BlockType) /\ Len(cs) = n + 1 /\ cs[n + 1] = k /\ n \in Nat
        /\ \A b \in 1..n : cs[b] = bs[b]
    OBVIOUS
  <1>2. n > 0 /\ Last(bs) = bs[n]
    BY DEF Last
  <1>3. /\ \A b \in 1..n : bs[b].kind = "fn" <=> b = 1
        /\ \A b \in 1..n :
             bs[b].kind \in {"case", "else"} <=> b > 1 /\ bs[b - 1].kind = "match"
    BY DEF Shape
  <1> HIDE DEF cs, n
  <1>4. \A b \in 1..Len(cs) : cs[b].kind = "fn" <=> b = 1
    <2>1. \A b \in 1..n + 1 : b \in 1..n \/ b = n + 1
      BY <1>1
    <2>2. n + 1 # 1
      BY <1>1, <1>2
    <2> QED
      BY <2>1, <2>2, <1>1, <1>3
  <1>5. ASSUME NEW b \in 1..Len(cs)
        PROVE  cs[b].kind \in {"case", "else"} <=> b > 1 /\ cs[b - 1].kind = "match"
    <2>1. CASE b = n + 1
      <3>1. b - 1 = n /\ b > 1 /\ n \in 1..n
        BY <2>1, <1>1, <1>2
      <3>2. cs[b] = k /\ cs[b - 1] = bs[n]
        BY <2>1, <3>1, <1>1
      <3> QED
        BY <3>1, <3>2, <1>2
    <2>2. CASE b \in 1..n
      <3>1. cs[b] = bs[b]
        BY <2>2, <1>1
      <3>2. b > 1 => b - 1 \in 1..n /\ cs[b - 1] = bs[b - 1]
        BY <2>2, <1>1
      <3> QED
        BY <3>1, <3>2, <1>3, <2>2
    <2> QED
      BY <2>1, <2>2, <1>1
  <1>6. Shape(cs)
    BY <1>4, <1>5 DEF Shape
  <1> QED
    BY <1>6 DEF cs

(* The order of kinds depends only on the kinds. *)
LEMMA ShapeAlike ==
  ASSUME NEW bs \in Seq(BlockType), Shape(bs), NEW cs \in Seq(BlockType),
         Len(cs) <= Len(bs), \A b \in 1..Len(cs) : cs[b].kind = bs[b].kind
  PROVE  Shape(cs)
  <1>1. \A b \in 1..Len(cs) : b \in 1..Len(bs)
    OBVIOUS
  <1>2. \A b \in 1..Len(cs) : b > 1 => b - 1 \in 1..Len(cs)
    OBVIOUS
  <1>3. \A b \in 1..Len(cs) : b > 1 => cs[b - 1].kind = bs[b - 1].kind
    BY <1>2
  <1>4. ASSUME NEW b \in 1..Len(cs)
        PROVE  /\ cs[b].kind = "fn" <=> b = 1
               /\ cs[b].kind \in {"case", "else"} <=> b > 1 /\ cs[b - 1].kind = "match"
    <2>1. /\ bs[b].kind = "fn" <=> b = 1
          /\ bs[b].kind \in {"case", "else"} <=> b > 1 /\ bs[b - 1].kind = "match"
      BY <1>1 DEF Shape
    <2>2. cs[b].kind = bs[b].kind
      OBVIOUS
    <2> QED
      BY <2>1, <2>2, <1>3
  <1> QED
    BY <1>4 DEF Shape

(* No block remembers more names than there are, nor more than a block     *)
(* inside it found.                                                        *)
Found(k) == IF k.kind \in {"range", "each"} THEN k.before ELSE k.nloc

Heights(bs, n) ==
  \A b \in 1..Len(bs) : bs[b].kind # "match" =>
    /\ Found(bs[b]) <= bs[b].nloc
    /\ bs[b].nloc <= n
    /\ \A a \in 1..b - 1 : bs[a].kind # "match" => bs[a].nloc <= Found(bs[b])

(* Saved heights stay monotone under a push at the current height. *)
LEMMA HeightsPush ==
  ASSUME NEW bs \in Seq(BlockType), NEW n \in Nat, Heights(bs, n),
         NEW k \in BlockType, NEW m \in Nat,
         k.kind = "match" \/ (Found(k) = n /\ n <= k.nloc /\ k.nloc <= m), n <= m
  PROVE  Heights(Append(bs, k), m)
  <1> DEFINE cs == Append(bs, k)
             h == Len(bs)
  <1>1. /\ cs \in Seq(BlockType) /\ Len(cs) = h + 1 /\ cs[h + 1] = k /\ h \in Nat
        /\ \A b \in 1..h : cs[b] = bs[b]
    OBVIOUS
  <1> HIDE DEF cs
  <1>2. ASSUME NEW b \in 1..h, bs[b].kind # "match"
        PROVE  /\ Found(bs[b]) <= bs[b].nloc /\ bs[b].nloc <= n /\ bs[b].nloc \in Nat
               /\ \A a \in 1..b - 1 : bs[a].kind # "match" => bs[a].nloc <= Found(bs[b])
    <2>1. bs[b] \in BlockType
      OBVIOUS
    <2> QED
      BY <1>2, <2>1, FieldIs DEF Heights
  <1> HIDE DEF h
  <1>3. ASSUME NEW b \in 1..Len(cs), cs[b].kind # "match"
        PROVE  /\ Found(cs[b]) <= cs[b].nloc
               /\ cs[b].nloc <= m
               /\ \A a \in 1..b - 1 : cs[a].kind # "match" => cs[a].nloc <= Found(cs[b])
    <2>1. CASE b = h + 1
      <3>1. \A a \in 1..b - 1 : a \in 1..h /\ cs[a] = bs[a]
        BY <2>1, <1>1
      <3>2. cs[b] = k /\ Found(k) = n /\ n <= k.nloc /\ k.nloc <= m
        BY <2>1, <1>1, <1>3
      <3> QED
        BY <3>1, <3>2, <1>2
    <2>2. CASE b \in 1..h
      <3>1. \A a \in 1..b - 1 : a \in 1..h /\ cs[a] = bs[a]
        BY <2>2, <1>1
      <3>2. cs[b] = bs[b]
        BY <2>2, <1>1
      <3> QED
        BY <3>1, <3>2, <1>2, <1>3, <2>2
    <2> QED
      BY <2>1, <2>2, <1>1
  <1>4. Heights(cs, m)
    BY <1>3 DEF Heights
  <1> QED
    BY <1>4 DEF cs

(* Saved heights stay monotone when the top block is dropped and names are
   cut to its height. *)
LEMMA HeightsShut ==
  ASSUME NEW bs \in Seq(BlockType), NEW n \in Nat, Heights(bs, n), Len(bs) > 0,
         NEW m \in Nat, Last(bs).kind = "match" => m = n,
         Last(bs).kind # "match" => Found(Last(bs)) <= m,
         NEW cs \in Seq(BlockType), Len(cs) < Len(bs), Alike(bs, cs, Len(cs))
  PROVE  Heights(cs, m)
  <1> DEFINE h == Len(bs)
  <1>1. h \in Nat /\ h > 0 /\ Last(bs) = bs[h] /\ h \in 1..Len(bs) /\ Len(cs) < h
        /\ Len(cs) \in Nat
    BY DEF Last
  <1> HIDE DEF h
  <1>2. ASSUME NEW b \in 1..Len(bs), bs[b].kind # "match"
        PROVE  /\ Found(bs[b]) <= bs[b].nloc /\ bs[b].nloc <= n /\ bs[b].nloc \in Nat
               /\ Found(bs[b]) \in Nat
               /\ \A a \in 1..b - 1 : bs[a].kind # "match" => bs[a].nloc <= Found(bs[b])
    <2>1. bs[b] \in BlockType
      OBVIOUS
    <2>2. bs[b].nloc \in Nat /\ bs[b].before \in Nat
      BY <2>1, FieldIs
    <2> QED
      BY <1>2, <2>1, <2>2 DEF Heights, Found
  <1>3. \A a \in 1..Len(cs) : /\ a \in 1..Len(bs) /\ a \in 1..h - 1
                              /\ cs[a].kind = bs[a].kind /\ cs[a].nloc = bs[a].nloc
                              /\ Found(cs[a]) = Found(bs[a])
    <2> SUFFICES ASSUME NEW a \in 1..Len(cs)
                 PROVE  /\ a \in 1..Len(bs) /\ a \in 1..h - 1
                        /\ cs[a].kind = bs[a].kind /\ cs[a].nloc = bs[a].nloc
                        /\ Found(cs[a]) = Found(bs[a])
      OBVIOUS
    <2>1. a \in 1..Len(bs) /\ a \in 1..h - 1
      BY <1>1 DEF h
    <2>2. cs[a].kind = bs[a].kind /\ cs[a].nloc = bs[a].nloc /\ cs[a].before = bs[a].before
      BY DEF Alike
    <2> QED
      BY <2>1, <2>2 DEF Found
  <1>4. ASSUME NEW a \in 1..Len(cs), bs[a].kind # "match" PROVE bs[a].nloc <= m
    <2>1. a \in 1..Len(bs) /\ a \in 1..h - 1
      BY <1>3
    <2>2. CASE bs[h].kind = "match"
      BY <2>1, <2>2, <1>1, <1>2, <1>4
    <2>3. CASE bs[h].kind # "match"
      <3>1. bs[a].nloc <= Found(bs[h]) /\ Found(bs[h]) <= m
        BY <2>1, <2>3, <1>1, <1>2, <1>4
      <3> QED
        BY <3>1, <2>1, <2>3, <1>1, <1>2, <1>4
    <2> QED
      BY <2>2, <2>3
  <1>5. ASSUME NEW b \in 1..Len(cs), cs[b].kind # "match"
        PROVE  /\ Found(cs[b]) <= cs[b].nloc
               /\ cs[b].nloc <= m
               /\ \A a \in 1..b - 1 : cs[a].kind # "match" => cs[a].nloc <= Found(cs[b])
    <2>1. \A a \in 1..b - 1 : a \in 1..Len(cs)
      OBVIOUS
    <2>2. b \in 1..Len(bs) /\ bs[b].kind # "match"
      BY <1>3, <1>5
    <2> QED
      BY <2>1, <2>2, <1>2, <1>3, <1>4, <1>5
  <1> QED
    BY <1>5 DEF Heights

----------------------------------------------------------------------------
(***************************************************************************)
(* What every step relies on.                                              *)
(***************************************************************************)
LoopBlocks(bs) == {b \in 1..Len(bs) : bs[b].kind \in Loops}

Typed ==
  /\ valued \in BOOLEAN
  /\ blocks \in Seq(BlockType)
  /\ loc \in Seq(Local)
  /\ loops \in Seq(NameOrNone)
  /\ code \in Seq(Line)

(***************************************************************************)
(* What every action does to the text, the names and the blocks.           *)
(***************************************************************************)
FlatOps == {"use", "set", "free", "break", "continue", "inc", "temp", "hoist"}
Simple == {"use", "set", "free", "break"}

Goes == verdict = "parse" /\ verdict' = "parse"
Refused == /\ verdict' = "rejected"
           /\ UNCHANGED <<valued, blocks, loc, loops, code>>

(* The same names in the same order.                                       *)
Renamed(l, k) ==
  k \in Seq(Local) /\ Len(k) = Len(l) /\ \A j \in 1..Len(l) : k[j].name = l[j].name

(* With a line that computes, or without.                                  *)
Ahead(c, d) ==
  d = c \/ \E i \in Line : i.op \in {"inc", "hoist"} /\ d = Append(c, i)

(* How the kinds of emitted lines divide. *)
LEMMA OpsAre ==
  /\ Simple \subseteq FlatOps /\ FlatOps \subseteq OpNames /\ "bind" \in OpNames /\ "return" \in OpNames
  /\ "close" \in OpNames /\ Openings \subseteq OpNames
  /\ \A op \in FlatOps \cup {"return"} :
       op \notin Declaring \cup Openings \cup {"close"} /\ op # "bind"
  BY Zenon DEF Simple, FlatOps, OpNames, Declaring, Openings, Loops

(* Use, set, del and break.                                                *)
LEMMA FlatDoes ==
  ASSUME Typed, NEW t \in Tokens, Use(t) \/ Set(t) \/ Del(t) \/ Break(t),
         verdict = "parse"
  PROVE  \/ Refused
         \/ /\ Goes /\ UNCHANGED <<valued, blocks, loops>> /\ Renamed(loc, loc')
            /\ Last(blocks).kind # "match"
            /\ \E i \in Line : i.op \in Simple /\ code' = Append(code, i)
  <1>1. Last(blocks).kind # "match" /\ valued' = valued
    BY Zenon DEF Use, Set, Del, Break, Statement, InBody, NextToken
  <1>2. /\ Renamed(loc, loc)
        /\ \A x : Renamed(loc, [k \in 1..Len(loc) |->
                                  [loc[k] EXCEPT !.freed = @ \/ loc[k].name = x]])
    <2>1. loc \in Seq(Local)
      BY DEF Typed
    <2>2. Renamed(loc, loc)
      BY <2>1 DEF Renamed
    <2>3. ASSUME NEW x
          PROVE  Renamed(loc, [k \in 1..Len(loc) |->
                                 [loc[k] EXCEPT !.freed = @ \/ loc[k].name = x]])
      <3> DEFINE new(k) == [loc[k] EXCEPT !.freed = @ \/ loc[k].name = x]
                 l == [k \in 1..Len(loc) |-> new(k)]
      <3>1. \A k \in 1..Len(loc) : loc[k] \in Local
        BY <2>1
      <3>2. ASSUME NEW k \in 1..Len(loc) PROVE new(k) \in Local /\ new(k).name = loc[k].name
        <4>1. loc[k] \in Local
          BY <3>1
        <4>2. (loc[k].freed \/ loc[k].name = x) \in BOOLEAN
          BY Zenon
        <4> QED
          BY <4>1, <4>2, Zenon DEF Local
      <3> HIDE DEF new
      <3>3. Len(loc) \in Nat
        BY <2>1
      <3>4. l \in Seq(Local) /\ Len(l) = Len(loc)
        BY <3>2, <3>3
      <3>5. \A k \in 1..Len(loc) : l[k].name = loc[k].name
        BY <3>2
      <3> HIDE DEF l
      <3>6. Renamed(loc, l)
        BY <3>4, <3>5 DEF Renamed
      <3> QED
        BY <3>6 DEF l, new
    <2> QED
      BY <2>2, <2>3
  <1>3. \A op \in Simple, x \in NameOrNone :
          /\ Instr(op, x) \in Line /\ Instr(op, x).op \in Simple
          /\ code \o <<Instr(op, x)>> = Append(code, Instr(op, x))
    <2> SUFFICES ASSUME NEW op \in Simple, NEW x \in NameOrNone
                 PROVE  /\ Instr(op, x) \in Line /\ Instr(op, x).op \in Simple
                        /\ code \o <<Instr(op, x)>> = Append(code, Instr(op, x))
      OBVIOUS
    <2>1. op \in OpNames
      BY OpsAre, Zenon
    <2>2. Instr(op, x) \in Line /\ Instr(op, x).op = op
      BY <2>1, InstrIs
    <2>3. code \in Seq(Line)
      BY DEF Typed
    <2> QED
      BY <2>2, <2>3, EmitOne
  <1>4. "use" \in Simple /\ "set" \in Simple /\ "free" \in Simple /\ "break" \in Simple
    BY DEF Simple
  <1>5. t.x \in NameOrNone /\ "" \in NameOrNone
    BY TokenNames, NoneIs
  <1>6. CASE Use(t)
    <2>1. \/ Reject
          \/ Emit(<<Instr("use", t.x)>>) /\ UNCHANGED <<blocks, loc, loops>>
      BY <1>6, Zenon DEF Use
    <2> QED
      BY <2>1, <1>1, <1>2, <1>3, <1>4, <1>5, Zenon DEF Reject, Emit, Refused, Goes
  <1>7. CASE Set(t)
    <2>1. \/ Reject
          \/ Emit(<<Instr("set", t.x)>>) /\ UNCHANGED <<blocks, loc, loops>>
      BY <1>7, Zenon DEF Set
    <2> QED
      BY <2>1, <1>1, <1>2, <1>3, <1>4, <1>5, Zenon DEF Reject, Emit, Refused, Goes
  <1>8. CASE Del(t)
    <2>1. \/ Reject
          \/ /\ Emit(<<Instr("free", t.x)>>) /\ UNCHANGED <<blocks, loops>>
             /\ loc' = [k \in 1..Len(loc) |->
                          [loc[k] EXCEPT !.freed = @ \/ loc[k].name = t.x]]
      BY <1>8, Zenon DEF Del
    <2> DEFINE l == [k \in 1..Len(loc) |-> [loc[k] EXCEPT !.freed = @ \/ loc[k].name = t.x]]
    <2>2. Renamed(loc, l)
      BY <1>2
    <2> HIDE DEF l
    <2>3. Reject \/ (Emit(<<Instr("free", t.x)>>) /\ UNCHANGED <<blocks, loops>> /\ loc' = l)
      BY <2>1 DEF l
    <2> QED
      BY <2>2, <2>3, <1>1, <1>3, <1>4, <1>5, Zenon DEF Reject, Emit, Refused, Goes
  <1>9. CASE Break(t)
    <2>1. Emit(<<Instr("break", "")>>) /\ UNCHANGED <<blocks, loc, loops>>
      BY <1>9, Zenon DEF Break
    <2> QED
      BY <2>1, <1>1, <1>2, <1>3, <1>4, <1>5, Zenon DEF Emit, Goes
  <1> QED
    BY <1>6, <1>7, <1>8, <1>9

(* Lines of one operation, and those with a name.                          *)
LEMMA LinesAre ==
  ASSUME NEW c \in Seq(Line)
  PROVE  \A op \in OpNames, x \in NameOrNone :
           /\ Instr(op, x) \in Line /\ Instr(op, x).op = op /\ Instr(op, x).x = x
           /\ c \o <<Instr(op, x)>> = Append(c, Instr(op, x))
           /\ Append(c, Instr(op, x)) \in Seq(Line)
  <1> SUFFICES ASSUME NEW op \in OpNames, NEW x \in NameOrNone
               PROVE  /\ Instr(op, x) \in Line /\ Instr(op, x).op = op
                      /\ Instr(op, x).x = x
                      /\ c \o <<Instr(op, x)>> = Append(c, Instr(op, x))
                      /\ Append(c, Instr(op, x)) \in Seq(Line)
    OBVIOUS
  <1>1. Instr(op, x) \in Line /\ Instr(op, x).op = op /\ Instr(op, x).x = x
    BY InstrIs
  <1> QED
    BY <1>1, EmitOne, SameAppend

(* Preparing a condition only adds lines that open nothing and declare
   nothing. *)
LEMMA PreparedIs ==
  ASSUME NEW c \in Seq(Line), NEW t \in Tokens
  PROVE  Ahead(c, Prepared(c, t)) /\ Prepared(c, t) \in Seq(Line)
  <1>1. "hoist" \in OpNames
    BY Zenon DEF OpNames
  <1>2. /\ Instr("hoist", t.x) \in Line /\ Instr("hoist", t.x).op = "hoist"
        /\ Append(c, Instr("hoist", t.x)) \in Seq(Line)
    BY <1>1, TokenNames, LinesAre
  <1> QED
    BY <1>2, Zenon DEF Prepared, Ahead

(* What v5 does with continue: at most an inc line and the jump. *)
LEMMA ContinueDoes ==
  ASSUME Typed, NEW t \in Tokens, Continue(t), verdict = "parse"
  PROVE  /\ Goes /\ UNCHANGED <<valued, blocks, loc, loops>>
         /\ Last(blocks).kind # "match"
         /\ \E c \in Seq(Line) : Ahead(code, c) /\
              \E i \in Line : i.op = "continue" /\ code' = Append(c, i)
  <1>1. /\ Last(blocks).kind # "match" /\ UNCHANGED <<valued, blocks, loc, loops>>
        /\ verdict' = verdict
    BY Zenon DEF Continue, Statement, InBody, NextToken, Emit
  <1>2. \/ loops # <<>> /\ Emit(<<Instr("inc", Last(loops)), Instr("continue", "")>>)
        \/ Emit(<<Instr("continue", "")>>)
    BY Zenon DEF Continue
  <1> code \in Seq(Line) /\ loops \in Seq(NameOrNone)
    BY DEF Typed
  <1>3. "continue" \in OpNames /\ "inc" \in OpNames
    BY Zenon DEF OpNames
  <1> DEFINE i == Instr("continue", "")
  <1>4. i \in Line /\ i.op = "continue"
    BY <1>3, NoneIs, InstrIs
  <1> HIDE DEF i
  <1>5. CASE loops # <<>> /\ Emit(<<Instr("inc", Last(loops)), i>>)
    <2>1. Last(loops) \in NameOrNone
      <3>1. Len(loops) \in 1..Len(loops)
        BY <1>5
      <3> QED
        BY <3>1 DEF Last
    <2> DEFINE h == Instr("inc", Last(loops))
    <2>2. h \in Line /\ h.op = "inc"
      BY <2>1, <1>3, InstrIs
    <2>3. code' = code \o <<h, i>>
      BY <1>5 DEF Emit
    <2> HIDE DEF h
    <2>4. code' = Append(Append(code, h), i) /\ Append(code, h) \in Seq(Line)
      BY <2>2, <2>3, <1>4, EmitOne
    <2>5. Ahead(code, Append(code, h))
      BY <2>2 DEF Ahead
    <2> QED
      BY <2>4, <2>5, <1>1, <1>4, Zenon DEF Goes
  <1>6. CASE Emit(<<i>>)
    <2>1. code' = Append(code, i)
      BY <1>4, <1>6, EmitOne DEF Emit
    <2>2. Ahead(code, code)
      BY DEF Ahead
    <2> QED
      BY <2>1, <2>2, <1>1, <1>4, Zenon DEF Goes
  <1> QED
    BY <1>2, <1>5, <1>6 DEF i

(* What it does with return: the top block has returned. *)
LEMMA RetDoes ==
  ASSUME Typed, NEW t \in Tokens, Ret(t), verdict = "parse"
  PROVE  \/ Refused
         \/ /\ Goes /\ UNCHANGED <<valued, loc, loops>> /\ Last(blocks).kind # "match"
            /\ blocks' = Done(blocks, TRUE)
            /\ \E i \in Line : i.op = "return" /\ code' = Append(code, i)
  <1>1. code \in Seq(Line) /\ "return" \in OpNames /\ "" \in NameOrNone
    BY OpsAre, NoneIs DEF Typed
  <1>2. /\ Instr("return", "") \in Line /\ Instr("return", "").op = "return"
        /\ code \o <<Instr("return", "")>> = Append(code, Instr("return", ""))
    <2>1. \A x \in NameOrNone :
            /\ Instr("return", x) \in Line /\ Instr("return", x).op = "return"
            /\ code \o <<Instr("return", x)>> = Append(code, Instr("return", x))
      <3>1. code \in Seq(Line) /\ "return" \in OpNames
        BY <1>1
      <3> QED
        BY <3>1, LinesAre
    <2> QED
      BY <2>1, <1>1, Zenon
  <1>3. Last(blocks).kind # "match" /\ valued' = valued
    BY Zenon DEF Ret, Statement, InBody, NextToken
  <1>4. \/ Reject
        \/ /\ Emit(<<Instr("return", "")>>) /\ blocks' = Done(blocks, TRUE)
           /\ UNCHANGED <<loc, loops>>
    BY Zenon DEF Ret
  <1> QED
    BY <1>2, <1>3, <1>4, Zenon DEF Reject, Emit, Refused, Goes

Entered(x) == [name |-> x, freed |-> FALSE]

(* enter() adds one name, which was not known before when it is not found. *)
LEMMA EnteredIs ==
  ASSUME NEW x \in Name, loc \in Seq(Local)
  PROVE  /\ Entered(x) \in Local /\ Entered(x).name = x
         /\ WithVar(x) = Append(loc, Entered(x)) /\ WithVar(x) \in Seq(Local)
         /\ Len(WithVar(x)) = Len(loc) + 1
         /\ Find(x) = {} => \A k \in 1..Len(loc) : loc[k].name # x
  <1>1. Entered(x) \in Local /\ Entered(x).name = x
    BY DEF Entered, Local
  <1>2. WithVar(x) = Append(loc, Entered(x))
    BY DEF WithVar, Entered
  <1>3. Find(x) = {} => \A k \in 1..Len(loc) : loc[k].name # x
    BY DEF Find
  <1> QED
    BY <1>1, <1>2, <1>3

(* What it does with a binding. *)
LEMMA BindDoes ==
  ASSUME Typed, NEW t \in Tokens, Bind(t), verdict = "parse"
  PROVE  \/ Refused
         \/ /\ Goes /\ UNCHANGED <<valued, blocks, loops>> /\ Last(blocks).kind # "match"
            /\ t.x \in Name /\ loc' = Append(loc, Entered(t.x))
            /\ \A k \in 1..Len(loc) : loc[k].name # t.x
            /\ \E i \in Line : i.op = "bind" /\ i.x = t.x /\ code' = Append(code, i)
  <1>1. code \in Seq(Line) /\ "bind" \in OpNames /\ loc \in Seq(Local)
    BY OpsAre DEF Typed
  <1>2. Last(blocks).kind # "match" /\ valued' = valued /\ t.k = "bind"
    BY Zenon DEF Bind, Statement, InBody, NextToken
  <1>3. t.x \in NameOrNone /\ t.x \in Name
    <2>1. t.k \in {"bind", "range", "each"}
      BY <1>2, Zenon
    <2> QED
      BY <2>1, TokenNames, Zenon
  <1>4. /\ Instr("bind", t.x) \in Line /\ Instr("bind", t.x).op = "bind"
        /\ Instr("bind", t.x).x = t.x
        /\ code \o <<Instr("bind", t.x)>> = Append(code, Instr("bind", t.x))
    BY <1>1, <1>3, LinesAre, Zenon
  <1>5. \/ Reject
        \/ /\ Find(t.x) = {} /\ Emit(<<Instr("bind", t.x)>>) /\ loc' = WithVar(t.x)
           /\ UNCHANGED <<blocks, loops>>
    BY Zenon DEF Bind
  <1>6. /\ WithVar(t.x) = Append(loc, Entered(t.x))
        /\ Find(t.x) = {} => \A k \in 1..Len(loc) : loc[k].name # t.x
    BY <1>1, <1>3, EnteredIs
  <1> QED
    BY <1>2, <1>3, <1>4, <1>5, <1>6, Zenon DEF Reject, Emit, Refused, Goes

Bare(op) == Instr(op, "")

(* A line without a name is a line. *)
LEMMA BareLines ==
  ASSUME NEW c \in Seq(Line)
  PROVE  \A op \in OpNames :
           /\ Bare(op) \in Line /\ Bare(op).op = op
           /\ c \o <<Bare(op)>> = Append(c, Bare(op))
           /\ Append(c, Bare(op)) \in Seq(Line)
  <1> SUFFICES ASSUME NEW op \in OpNames
               PROVE  /\ Bare(op) \in Line /\ Bare(op).op = op
                      /\ c \o <<Bare(op)>> = Append(c, Bare(op))
                      /\ Append(c, Bare(op)) \in Seq(Line)
    OBVIOUS
  <1>1. \A x \in NameOrNone :
           /\ Instr(op, x) \in Line /\ Instr(op, x).op = op
           /\ c \o <<Instr(op, x)>> = Append(c, Instr(op, x))
           /\ Append(c, Instr(op, x)) \in Seq(Line)
    BY LinesAre
  <1> QED
    BY <1>1, NoneIs, Zenon DEF Bare

(* The kinds of blocks and of opening lines that the statements use. *)
LEMMA KindsAre ==
  /\ {"if", "while", "loop", "range", "each", "match", "case", "else"} \subseteq Kinds
  /\ {"if", "while", "loop", "range", "each", "else", "elseif", "scope"} \subseteq Openings
  /\ {"if", "while", "loop", "range", "each", "else", "elseif", "scope", "temp"}
       \subseteq OpNames
  BY Zenon DEF Kinds, Plain, Openings, Loops, OpNames

(* If, while and loop.                                                     *)
LEMMA OpenDoes ==
  ASSUME Typed, NEW t \in Tokens, OpenIf(t) \/ OpenWhile(t) \/ OpenLoop(t),
         verdict = "parse"
  PROVE  \/ Refused
         \/ /\ Goes /\ UNCHANGED <<valued, loc>> /\ Last(blocks).kind # "match"
            /\ \E k \in {"if", "while", "loop"} :
                 /\ blocks' = Append(blocks, Block(k, Len(loc), 0))
                 /\ loops' = IF k = "if" THEN loops ELSE Append(loops, "")
                 /\ \E c \in Seq(Line) : Ahead(code, c) /\
                      \E i \in Line : /\ i.op = k /\ code' = Append(c, i)
                                      /\ k = "loop" => i.x \in Name
  <1> code \in Seq(Line)
    BY DEF Typed
  <1>1. Last(blocks).kind # "match" /\ valued' = valued
    BY Zenon DEF OpenIf, OpenWhile, OpenLoop, Statement, InBody, NextToken
  <1>2. "if" \in OpNames /\ "while" \in OpNames /\ "loop" \in OpNames
    BY KindsAre, Zenon
  <1>3. t.x \in NameOrNone
    BY TokenNames
  <1>4. ASSUME NEW i \in Line
        PROVE  code \o Append(Hoisted(t), i) = Append(Prepared(code, t), i)
    BY EmitPrepared
  <1>5. Ahead(code, Prepared(code, t)) /\ Prepared(code, t) \in Seq(Line)
    BY PreparedIs
  <1>6. CASE OpenIf(t)
    <2>1. Bare("if") \in Line /\ Bare("if").op = "if"
      BY <1>2, BareLines
    <2>2. \/ Reject
          \/ /\ Emit(Append(Hoisted(t), Bare("if")))
             /\ blocks' = Append(blocks, Block("if", Len(loc), 0))
             /\ UNCHANGED <<loc, loops>>
      BY <1>6, Zenon DEF OpenIf, Bare
    <2>3. code \o Append(Hoisted(t), Bare("if")) = Append(Prepared(code, t), Bare("if"))
      BY <1>4, <2>1
    <2>4. CASE Reject
      BY <2>4, <1>1 DEF Reject, Refused
    <2>5. CASE ~Reject
      <3>1. /\ code' = Append(Prepared(code, t), Bare("if")) /\ verdict' = verdict
            /\ blocks' = Append(blocks, Block("if", Len(loc), 0))
            /\ UNCHANGED <<loc, loops>>
        BY <2>2, <2>3, <2>5, Zenon DEF Emit
      <3>2. "if" # "loop"
        BY Zenon
      <3> QED
        BY <3>1, <3>2, <2>1, <1>1, <1>5, Zenon DEF Goes
    <2> QED
      BY <2>4, <2>5
  <1>7. CASE OpenWhile(t)
    <2>1. Bare("while") \in Line /\ Bare("while").op = "while"
      BY <1>2, BareLines
    <2>2. \/ Reject
          \/ /\ Emit(Append(Hoisted(t), Bare("while")))
             /\ blocks' = Append(blocks, Block("while", Len(loc), 0))
             /\ loops' = Append(loops, "") /\ UNCHANGED loc
      BY <1>7, Zenon DEF OpenWhile, Bare
    <2>3. code \o Append(Hoisted(t), Bare("while")) = Append(Prepared(code, t), Bare("while"))
      BY <1>4, <2>1
    <2>4. CASE Reject
      BY <2>4, <1>1 DEF Reject, Refused
    <2>5. CASE ~Reject
      <3>1. /\ code' = Append(Prepared(code, t), Bare("while")) /\ verdict' = verdict
            /\ blocks' = Append(blocks, Block("while", Len(loc), 0))
            /\ loops' = Append(loops, "") /\ UNCHANGED loc
        BY <2>2, <2>3, <2>5, Zenon DEF Emit
      <3>2. "while" # "if" /\ "while" # "loop"
        BY Zenon
      <3> QED
        BY <3>1, <3>2, <2>1, <1>1, <1>5, Zenon DEF Goes
    <2> QED
      BY <2>4, <2>5
  <1>8. CASE OpenLoop(t)
    <2>1. /\ Instr("loop", t.x) \in Line /\ Instr("loop", t.x).op = "loop"
          /\ Instr("loop", t.x).x = t.x
          /\ code \o <<Instr("loop", t.x)>> = Append(code, Instr("loop", t.x))
      BY <1>2, <1>3, LinesAre
    <2>2. \/ Reject
          \/ /\ Emit(<<Instr("loop", t.x)>>)
             /\ blocks' = Append(blocks, Block("loop", Len(loc), 0))
             /\ loops' = Append(loops, "") /\ UNCHANGED loc
      BY <1>8, Zenon DEF OpenLoop
    <2>4. CASE Reject
      BY <2>4, <1>1 DEF Reject, Refused
    <2>5. CASE ~Reject
      <3>1. /\ code' = Append(code, Instr("loop", t.x)) /\ verdict' = verdict
            /\ blocks' = Append(blocks, Block("loop", Len(loc), 0))
            /\ loops' = Append(loops, "") /\ UNCHANGED loc
        BY <2>1, <2>2, <2>5, Zenon DEF Emit
      <3>2. "loop" # "if" /\ Ahead(code, code)
        BY Zenon DEF Ahead
      <3>3. t.x \in Name
        <4>1. Find(t.x) # {}
          BY <1>8, <2>5, Zenon DEF OpenLoop
        <4>2. PICK k \in 1..Len(loc) : loc[k].name = t.x
          BY <4>1 DEF Find
        <4>3. loc[k] \in Local
          BY DEF Typed
        <4> QED
          BY <4>2, <4>3 DEF Local
      <3> QED
        BY <3>1, <3>2, <3>3, <2>1, <1>1, Zenon DEF Goes
    <2> QED
      BY <2>4, <2>5
  <1> QED
    BY <1>6, <1>7, <1>8

(* What it does with a for over a slice. *)
LEMMA EachDoes ==
  ASSUME Typed, NEW t \in Tokens, OpenEach(t), verdict = "parse"
  PROVE  \/ Refused
         \/ /\ Goes /\ valued' = valued /\ Last(blocks).kind # "match"
            /\ t.x \in Name /\ loc' = Append(loc, Entered(t.x))
            /\ \A k \in 1..Len(loc) : loc[k].name # t.x
            /\ blocks' = Append(blocks, Block("each", Len(loc) + 1, Len(loc)))
            /\ loops' = Append(loops, "")
            /\ \E i \in Line : i.op = "each" /\ i.x = t.x /\ code' = Append(code, i)
  <1> code \in Seq(Line) /\ loc \in Seq(Local)
    BY DEF Typed
  <1>1. Last(blocks).kind # "match" /\ valued' = valued /\ t.k = "each"
    BY Zenon DEF OpenEach, Statement, InBody, NextToken
  <1>2. t.x \in NameOrNone /\ t.x \in Name /\ "each" \in OpNames
    <2>1. t.k \in {"bind", "range", "each"}
      BY <1>1, Zenon
    <2> QED
      BY <2>1, TokenNames, KindsAre, Zenon
  <1>3. /\ Instr("each", t.x) \in Line /\ Instr("each", t.x).op = "each"
        /\ Instr("each", t.x).x = t.x
        /\ code \o <<Instr("each", t.x)>> = Append(code, Instr("each", t.x))
    BY <1>2, LinesAre
  <1>4. \/ Reject
        \/ /\ Find(t.x) = {} /\ Emit(<<Instr("each", t.x)>>) /\ loc' = WithVar(t.x)
           /\ blocks' = Append(blocks, Block("each", Len(loc'), Len(loc)))
           /\ loops' = Append(loops, "")
    BY Zenon DEF OpenEach
  <1>5. /\ WithVar(t.x) = Append(loc, Entered(t.x)) /\ Len(WithVar(t.x)) = Len(loc) + 1
        /\ Find(t.x) = {} => \A k \in 1..Len(loc) : loc[k].name # t.x
    BY <1>2, EnteredIs
  <1> QED
    BY <1>1, <1>2, <1>3, <1>4, <1>5, Zenon DEF Reject, Emit, Refused, Goes

(* What it does with a for over a range: a scope for the variable and a loop
   in it. *)
LEMMA RangeDoes ==
  ASSUME Typed, NEW t \in Tokens, OpenRange(t), verdict = "parse"
  PROVE  \/ Refused
         \/ /\ Goes /\ valued' = valued /\ Last(blocks).kind # "match"
            /\ t.x \in Name /\ loc' = Append(loc, Entered(t.x))
            /\ \A k \in 1..Len(loc) : loc[k].name # t.x
            /\ blocks' = Append(blocks, Block("range", Len(loc) + 1, Len(loc)))
            /\ loops' = Append(loops, t.x)
            /\ \E i, j \in Line : /\ i.op = "scope" /\ i.x = t.x /\ j.op = "range"
                                  /\ code' = Append(Append(code, i), j)
  <1> code \in Seq(Line) /\ loc \in Seq(Local)
    BY DEF Typed
  <1>1. Last(blocks).kind # "match" /\ valued' = valued /\ t.k = "range"
    BY Zenon DEF OpenRange, Statement, InBody, NextToken
  <1>2. t.x \in NameOrNone /\ t.x \in Name /\ "scope" \in OpNames /\ "range" \in OpNames
    <2>1. t.k \in {"bind", "range", "each"}
      BY <1>1, Zenon
    <2> QED
      BY <2>1, TokenNames, KindsAre, Zenon
  <1> DEFINE i == Instr("scope", t.x)
             j == Instr("range", t.x)
  <1>3. i \in Line /\ i.op = "scope" /\ i.x = t.x /\ j \in Line /\ j.op = "range"
    BY <1>2, LinesAre
  <1>4. \/ Reject
        \/ /\ Find(t.x) = {} /\ Emit(<<i, j>>) /\ loc' = WithVar(t.x)
           /\ blocks' = Append(blocks, Block("range", Len(loc'), Len(loc)))
           /\ loops' = Append(loops, t.x)
    BY Zenon DEF OpenRange
  <1> HIDE DEF i, j
  <1>5. code \o <<i, j>> = Append(Append(code, i), j)
    BY <1>3, EmitOne
  <1>6. /\ WithVar(t.x) = Append(loc, Entered(t.x)) /\ Len(WithVar(t.x)) = Len(loc) + 1
        /\ Find(t.x) = {} => \A k \in 1..Len(loc) : loc[k].name # t.x
    BY <1>2, EnteredIs
  <1> QED
    BY <1>1, <1>2, <1>3, <1>4, <1>5, <1>6, Zenon DEF Reject, Emit, Refused, Goes

(* What it does with match: one temporary, and a block without a brace. *)
LEMMA MatchDoes ==
  ASSUME Typed, NEW t \in Tokens, OpenMatch(t), verdict = "parse"
  PROVE  /\ Goes /\ UNCHANGED <<valued, loc, loops>> /\ Last(blocks).kind # "match"
         /\ blocks' = Append(blocks, Block("match", 0, 0))
         /\ \E i \in Line : i.op = "temp" /\ code' = Append(code, i)
  <1> code \in Seq(Line)
    BY DEF Typed
  <1>1. /\ Bare("temp") \in Line /\ Bare("temp").op = "temp"
        /\ code \o <<Bare("temp")>> = Append(code, Bare("temp"))
    <2>1. "temp" \in OpNames
      BY KindsAre, Zenon
    <2> QED
      BY <2>1, BareLines
  <1>2. /\ Last(blocks).kind # "match" /\ valued' = valued /\ Emit(<<Bare("temp")>>)
        /\ blocks' = Append(blocks, Block("match", 0, 0)) /\ UNCHANGED <<loc, loops>>
    BY Zenon DEF OpenMatch, Statement, InBody, NextToken, Bare
  <1> QED
    BY <1>1, <1>2, Zenon DEF Emit, Goes

(* What it does with case: if for the first one, else-if for the others. *)
LEMMA CaseDoes ==
  ASSUME Typed, NEW t \in Tokens, OpenCase(t), verdict = "parse"
  PROVE  /\ Goes /\ UNCHANGED <<valued, loc, loops>> /\ Last(blocks).kind = "match"
         /\ blocks' = Append([blocks EXCEPT ![Len(blocks)].hasCase = TRUE],
                             Block("case", Len(loc), 0))
         /\ \E i \in Line : /\ i.op = (IF Last(blocks).hasCase THEN "elseif" ELSE "if")
                            /\ code' = Append(code, i)
  <1> code \in Seq(Line)
    BY DEF Typed
  <1> DEFINE head == IF Last(blocks).hasCase THEN "elseif" ELSE "if"
  <1>1. head \in OpNames
    <2>1. "elseif" \in OpNames /\ "if" \in OpNames
      BY KindsAre, Zenon
    <2> QED
      BY <2>1
  <1>2. /\ Last(blocks).kind = "match" /\ valued' = valued /\ Emit(<<Bare(head)>>)
        /\ blocks' = Append([blocks EXCEPT ![Len(blocks)].hasCase = TRUE],
                            Block("case", Len(loc), 0))
        /\ UNCHANGED <<loc, loops>>
    BY Zenon DEF OpenCase, NextToken, Bare
  <1> HIDE DEF head
  <1>3. /\ Bare(head) \in Line /\ Bare(head).op = head
        /\ code \o <<Bare(head)>> = Append(code, Bare(head))
    BY <1>1, BareLines
  <1>4. Goes /\ \E i \in Line : i.op = head /\ code' = Append(code, i)
    BY <1>2, <1>3, Zenon DEF Emit, Goes
  <1> QED
    BY <1>2, <1>4 DEF head

(* What it does with the else of a match. *)
LEMMA CaseElseDoes ==
  ASSUME Typed, NEW t \in Tokens, OpenCaseElse(t), verdict = "parse"
  PROVE  /\ Goes /\ UNCHANGED <<valued, loc, loops>> /\ Last(blocks).kind = "match"
         /\ blocks' = Append([blocks EXCEPT ![Len(blocks)].hasElse = TRUE],
                             Block("else", Len(loc), 0))
         /\ \E i \in Line : i.op = "else" /\ code' = Append(code, i)
  <1> code \in Seq(Line)
    BY DEF Typed
  <1>1. /\ Bare("else") \in Line /\ Bare("else").op = "else"
        /\ code \o <<Bare("else")>> = Append(code, Bare("else"))
    <2>1. "else" \in OpNames
      BY KindsAre, Zenon
    <2> QED
      BY <2>1, BareLines
  <1>2. /\ Last(blocks).kind = "match" /\ valued' = valued /\ Emit(<<Bare("else")>>)
        /\ blocks' = Append([blocks EXCEPT ![Len(blocks)].hasElse = TRUE],
                            Block("else", Len(loc), 0))
        /\ UNCHANGED <<loc, loops>>
    BY Zenon DEF OpenCaseElse, NextToken, Bare
  <1> QED
    BY <1>1, <1>2, Zenon DEF Emit, Goes

CloseLine == Bare("close")

(* The closing brace is a line. *)
LEMMA CloseLineIs ==
  ASSUME NEW c \in Seq(Line)
  PROVE  /\ CloseLine \in Line /\ CloseLine.op = "close"
         /\ c \o <<CloseLine>> = Append(c, CloseLine) /\ Append(c, CloseLine) \in Seq(Line)
  BY OpsAre, BareLines DEF CloseLine

(* The block as its next branch finds it.                                  *)
Branched(k, isElse, n) ==
  [k EXCEPT !.all = @ /\ k.returned, !.returned = FALSE, !.nloc = n, !.hasElse = isElse]

(* The fields of a chain when its next branch opens. *)
LEMMA BranchedIs ==
  ASSUME NEW k \in BlockType, NEW f \in BOOLEAN, NEW n \in Nat
  PROVE  /\ Branched(k, f, n) \in BlockType
         /\ Branched(k, f, n).kind = k.kind /\ Branched(k, f, n).nloc = n
         /\ Branched(k, f, n).before = k.before /\ ~Branched(k, f, n).returned
         /\ Branched(k, f, n).all <=> (k.all /\ k.returned)
         /\ Branched(k, f, n).hasElse <=> f
  <1>1. (k.all /\ k.returned) \in BOOLEAN
    BY Zenon
  <1> QED
    BY <1>1, Zenon DEF Branched, BlockType

(* What it does with else and elseif: closes the branch, opens the next. *)
LEMMA BranchDoes ==
  ASSUME Typed, NEW t \in Tokens, NextBranch(t), verdict = "parse"
  PROVE  /\ valued' = valued /\ loops' = loops /\ loc' = Dropped
         /\ Last(blocks).kind = "if" /\ ~Last(blocks).hasElse
         /\ t.k \in {"else", "elseif"}
         /\ \/ verdict' = "rejected" /\ UNCHANGED <<blocks, code>>
            \/ /\ Goes
               /\ blocks' = [blocks EXCEPT ![Len(blocks)] =
                               Branched(Last(blocks), t.k = "else", Len(loc'))]
               /\ \E i \in Line : /\ i.op = t.k
                    /\ code' = Append(Prepared(Append(code, CloseLine), t), i)
  <1> code \in Seq(Line)
    BY DEF Typed
  <1>1. /\ valued' = valued /\ loops' = loops /\ loc' = Dropped
        /\ Last(blocks).kind = "if" /\ ~Last(blocks).hasElse
        /\ t.k \in {"else", "elseif"}
    BY Zenon DEF NextBranch, NextToken
  <1>2. Bare(t.k) \in Line /\ Bare(t.k).op = t.k
    <2>1. t.k \in OpNames
      BY <1>1, KindsAre, Zenon
    <2> QED
      BY <2>1, BareLines
  <1>3. \/ verdict' = "rejected" /\ UNCHANGED <<blocks, code>>
        \/ /\ Emit(<<CloseLine>> \o Hoisted(t) \o <<Bare(t.k)>>)
           /\ blocks' = [blocks EXCEPT ![Len(blocks)] =
                            Branched(Last(blocks), t.k = "else", Len(loc'))]
    BY Zenon DEF NextBranch, CloseLine, Bare, Branched
  <1>4. code \o (<<CloseLine>> \o Hoisted(t) \o <<Bare(t.k)>>)
          = Append(Prepared(Append(code, CloseLine), t), Bare(t.k))
    BY <1>2, CloseLineIs, EmitPrepared
  <1> QED
    BY <1>1, <1>2, <1>3, <1>4, Zenon DEF Emit, Goes

(* Closing braces.                                                         *)
LEMMA ShutIfDoes ==
  ASSUME Typed, NEW t \in Tokens, CloseIf(t), verdict = "parse"
  PROVE  /\ Goes /\ UNCHANGED <<valued, loops>> /\ Last(blocks).kind = "if"
         /\ loc' = Dropped /\ code' = Append(code, CloseLine)
         /\ blocks' = Done(Front(blocks), /\ Last(blocks).hasElse
                                          /\ Last(blocks).all
                                          /\ Last(blocks).returned)
  <1>1. code \o <<CloseLine>> = Append(code, CloseLine)
    BY CloseLineIs DEF Typed
  <1>2. /\ Last(blocks).kind = "if" /\ Emit(<<CloseLine>>) /\ UNCHANGED <<valued, loops>>
        /\ loc' = Dropped
        /\ blocks' = Done(Front(blocks), /\ Last(blocks).hasElse
                                         /\ Last(blocks).all
                                         /\ Last(blocks).returned)
    BY Zenon DEF CloseIf, Closing, NextToken, CloseLine, Bare
  <1> QED
    BY <1>1, <1>2 DEF Emit, Goes

(* What closing while, loop or a for over a slice does. *)
LEMMA ShutLoopDoes ==
  ASSUME Typed, NEW t \in Tokens, CloseLoop(t), verdict = "parse"
  PROVE  /\ Goes /\ valued' = valued /\ Last(blocks).kind \in {"while", "loop", "each"}
         /\ loc' = IF Last(blocks).kind = "each"
                     THEN SubSeq(loc, 1, Last(blocks).before) ELSE Dropped
         /\ code' = Append(code, CloseLine) /\ loops' = Front(loops)
         /\ blocks' = Done(Front(blocks), FALSE)
  <1>1. code \o <<CloseLine>> = Append(code, CloseLine)
    BY CloseLineIs DEF Typed
  <1>2. /\ Last(blocks).kind \in {"while", "loop", "each"} /\ Emit(<<CloseLine>>)
        /\ valued' = valued
        /\ loc' = IF Last(blocks).kind = "each"
                     THEN SubSeq(loc, 1, Last(blocks).before) ELSE Dropped
        /\ blocks' = Done(Front(blocks), FALSE) /\ loops' = Front(loops)
    BY Zenon DEF CloseLoop, Closing, NextToken, CloseLine, Bare
  <1> QED
    BY <1>1, <1>2 DEF Emit, Goes

(* What closing a for over a range does: the increment and two braces. *)
LEMMA ShutRangeDoes ==
  ASSUME Typed, NEW t \in Tokens, CloseRange(t), verdict = "parse", Len(loops) > 0
  PROVE  /\ Goes /\ valued' = valued /\ Last(blocks).kind = "range"
         /\ loc' = SubSeq(loc, 1, Last(blocks).before) /\ loops' = Front(loops)
         /\ blocks' = Done(Front(blocks), FALSE)
         /\ \E i \in Line : /\ i.op = "inc" /\ i.x = Last(loops)
                            /\ code' = Append(Append(Append(code, i), CloseLine), CloseLine)
  <1> code \in Seq(Line)
    BY DEF Typed
  <1> DEFINE i == Instr("inc", Last(loops))
  <1>1. /\ Last(blocks).kind = "range" /\ Emit(<<i, CloseLine, CloseLine>>)
        /\ valued' = valued /\ loc' = SubSeq(loc, 1, Last(blocks).before)
        /\ blocks' = Done(Front(blocks), FALSE) /\ loops' = Front(loops)
    BY Zenon DEF CloseRange, Closing, NextToken, CloseLine, Bare
  <1>2. i \in Line /\ i.op = "inc" /\ i.x = Last(loops)
    <2>1. Last(loops) \in NameOrNone
      <3>1. Len(loops) \in 1..Len(loops) /\ loops \in Seq(NameOrNone)
        BY DEF Typed
      <3> QED
        BY <3>1 DEF Last
    <2>2. "inc" \in OpNames
      BY Zenon DEF OpNames
    <2> QED
      BY <2>1, <2>2, InstrIs
  <1> HIDE DEF i
  <1>3. code \o <<i, CloseLine, CloseLine>>
          = Append(Append(Append(code, i), CloseLine), CloseLine)
    BY <1>2, CloseLineIs, EmitOne
  <1> QED
    BY <1>1, <1>2, <1>3, Zenon DEF Emit, Goes

(* What closing a case does to it and to its match. *)
LEMMA ShutCaseDoes ==
  ASSUME Typed, NEW t \in Tokens, CloseCase(t), verdict = "parse"
  PROVE  /\ Goes /\ UNCHANGED <<valued, loops>> /\ Last(blocks).kind = "case"
         /\ loc' = Dropped /\ code' = Append(code, CloseLine)
         /\ LET below == Front(blocks)
            IN  blocks' = [below EXCEPT ![Len(below)].all = @ /\ Last(blocks).returned]
  <1>1. code \o <<CloseLine>> = Append(code, CloseLine)
    BY CloseLineIs DEF Typed
  <1>2. /\ Last(blocks).kind = "case" /\ Emit(<<CloseLine>>) /\ UNCHANGED <<valued, loops>>
        /\ loc' = Dropped
        /\ LET below == Front(blocks)
           IN  blocks' = [below EXCEPT ![Len(below)].all = @ /\ Last(blocks).returned]
    BY Zenon DEF CloseCase, Closing, NextToken, CloseLine, Bare
  <1> QED
    BY <1>1, <1>2 DEF Emit, Goes

(* What closing the else of a match does: the match is closed with it. *)
LEMMA ShutElseDoes ==
  ASSUME Typed, NEW t \in Tokens, CloseCaseElse(t), verdict = "parse"
  PROVE  /\ Goes /\ UNCHANGED <<valued, loops>> /\ Last(blocks).kind = "else"
         /\ loc' = Dropped /\ code' = Append(code, CloseLine)
         /\ LET match == blocks[Len(blocks) - 1]
            IN  blocks' = Done(Front(Front(blocks)),
                               match.hasCase /\ match.all /\ Last(blocks).returned)
  <1>1. code \o <<CloseLine>> = Append(code, CloseLine)
    BY CloseLineIs DEF Typed
  <1>2. /\ Last(blocks).kind = "else" /\ Emit(<<CloseLine>>) /\ UNCHANGED <<valued, loops>>
        /\ loc' = Dropped
        /\ LET match == blocks[Len(blocks) - 1]
           IN  blocks' = Done(Front(Front(blocks)),
                              match.hasCase /\ match.all /\ Last(blocks).returned)
    BY Zenon DEF CloseCaseElse, Closing, NextToken, CloseLine, Bare
  <1> QED
    BY <1>1, <1>2 DEF Emit, Goes

(* What closing a match without an else does. *)
LEMMA ShutMatchDoes ==
  ASSUME NEW t \in Tokens, CloseMatch(t), verdict = "parse"
  PROVE  \/ Refused
         \/ /\ Goes /\ UNCHANGED <<valued, loc, loops, code>>
            /\ Last(blocks).kind = "match" /\ blocks' = Done(Front(blocks), FALSE)
  BY Zenon DEF CloseMatch, Closing, NextToken, Reject, Refused, Goes

(* What closing the function does. *)
LEMMA ShutFunctionDoes ==
  ASSUME NEW t \in Tokens, CloseFunction(t), verdict = "parse"
  PROVE  \/ Refused
         \/ /\ verdict' = "accepted" /\ UNCHANGED <<valued, loops, code>>
            /\ Last(blocks).kind = "fn" /\ (valued => Last(blocks).returned)
            /\ blocks' = <<>> /\ loc' = <<>>
  BY Zenon DEF CloseFunction, Closing, NextToken, Reject, Refused

----------------------------------------------------------------------------
(***************************************************************************)
(* Types, braces and loops under each kind of step.                        *)
(***************************************************************************)
LoopCount(bs) == Tally(LoopBlocks(bs), Len(bs))

(* The number of open loops depends only on the kinds of the blocks. *)
LEMMA LoopsAlike ==
  ASSUME NEW bs \in Seq(BlockType), NEW cs \in Seq(BlockType), Len(cs) = Len(bs),
         \A b \in 1..Len(bs) : cs[b].kind = bs[b].kind
  PROVE  LoopCount(cs) = LoopCount(bs) /\ LoopCount(bs) \in Nat
  <1>1. \A b \in 1..Len(bs) : b \in LoopBlocks(bs) <=> b \in LoopBlocks(cs)
    BY DEF LoopBlocks
  <1>2. Tally(LoopBlocks(bs), Len(bs)) = Tally(LoopBlocks(cs), Len(bs))
    BY <1>1, TallyAgree
  <1>3. Len(bs) \in Nat
    OBVIOUS
  <1> QED
    BY <1>2, <1>3, TallyStep DEF LoopCount

(* A pushed loop is counted. *)
LEMMA LoopsPush ==
  ASSUME NEW bs \in Seq(BlockType), NEW k \in BlockType
  PROVE  /\ k.kind \in Loops => LoopCount(Append(bs, k)) = LoopCount(bs) + 1
         /\ k.kind \notin Loops => LoopCount(Append(bs, k)) = LoopCount(bs)
  <1> DEFINE cs == Append(bs, k)
             n == Len(bs)
  <1>1. /\ Len(cs) = n + 1 /\ cs[n + 1] = k /\ n \in Nat /\ n + 1 \in 1..n + 1
        /\ \A b \in 1..n : cs[b] = bs[b] /\ b \in 1..n + 1
    OBVIOUS
  <1> HIDE DEF cs
  <1>2. \A b \in 1..n : b \in LoopBlocks(bs) <=> b \in LoopBlocks(cs)
    BY <1>1 DEF LoopBlocks
  <1>3. Tally(LoopBlocks(bs), n) = Tally(LoopBlocks(cs), n)
    BY <1>2, TallyAgree
  <1>4. n + 1 \in LoopBlocks(cs) <=> k.kind \in Loops
    BY <1>1 DEF LoopBlocks
  <1>5. /\ n + 1 \in LoopBlocks(cs) =>
             Tally(LoopBlocks(cs), n + 1) = Tally(LoopBlocks(cs), n) + 1
        /\ n + 1 \notin LoopBlocks(cs) =>
             Tally(LoopBlocks(cs), n + 1) = Tally(LoopBlocks(cs), n)
    BY <1>1, TallyStep
  <1> HIDE DEF n
  <1>6. /\ k.kind \in Loops => LoopCount(cs) = LoopCount(bs) + 1
        /\ k.kind \notin Loops => LoopCount(cs) = LoopCount(bs)
    BY <1>1, <1>3, <1>4, <1>5 DEF LoopCount, n
  <1> QED
    BY <1>6 DEF cs

(* A popped loop is no longer counted. *)
LEMMA LoopsPop ==
  ASSUME NEW bs \in Seq(BlockType), Len(bs) > 0
  PROVE  /\ Last(bs).kind \in Loops => LoopCount(bs) = LoopCount(Front(bs)) + 1
         /\ Last(bs).kind \notin Loops => LoopCount(bs) = LoopCount(Front(bs))
         /\ LoopCount(Front(bs)) \in Nat
  <1>1. Front(bs) \in Seq(BlockType) /\ Last(bs) \in BlockType
    BY DEF Front, Last
  <1>2. bs = Append(Front(bs), Last(bs))
    BY DEF Front, Last
  <1>3. /\ Last(bs).kind \in Loops => LoopCount(Append(Front(bs), Last(bs))) = LoopCount(Front(bs)) + 1
        /\ Last(bs).kind \notin Loops => LoopCount(Append(Front(bs), Last(bs))) = LoopCount(Front(bs))
    BY <1>1, LoopsPush
  <1>4. LoopCount(Front(bs)) \in Nat
    BY <1>1, LoopsAlike
  <1> QED
    BY <1>2, <1>3, <1>4

(* A function body in the middle of being read.                            *)
Stand(bs, l, lo, c) ==
  /\ bs \in Seq(BlockType) /\ l \in Seq(Local)
  /\ lo \in Seq(NameOrNone) /\ c \in Seq(Line)
  /\ Len(bs) > 0
  /\ Shape(bs)
  /\ Heights(bs, Len(l))
  /\ Lev(bs, Len(bs)) = Bal(c, Len(c))
  /\ Len(lo) = LoopCount(bs)

(* Saved heights stay monotone when names are added. *)
LEMMA HeightsMono ==
  ASSUME NEW bs \in Seq(BlockType), NEW n \in Nat, NEW m \in Nat, n <= m,
         Heights(bs, n), NEW cs \in Seq(BlockType), Len(cs) = Len(bs),
         Alike(bs, cs, Len(bs))
  PROVE  Heights(cs, m)
  <1>1. \A a \in 1..Len(bs) : /\ cs[a].kind = bs[a].kind /\ cs[a].nloc = bs[a].nloc
                              /\ Found(cs[a]) = Found(bs[a])
    BY DEF Alike, Found
  <1>2. ASSUME NEW b \in 1..Len(cs), cs[b].kind # "match"
        PROVE  /\ Found(cs[b]) <= cs[b].nloc
               /\ cs[b].nloc <= m
               /\ \A a \in 1..b - 1 : cs[a].kind # "match" => cs[a].nloc <= Found(cs[b])
    <2>1. b \in 1..Len(bs) /\ bs[b] \in BlockType /\ bs[b].kind # "match"
      BY <1>1, <1>2
    <2>2. bs[b].nloc \in Nat
      BY <2>1, FieldIs
    <2>3. \A a \in 1..b - 1 : a \in 1..Len(bs)
      OBVIOUS
    <2>4. /\ Found(bs[b]) <= bs[b].nloc /\ bs[b].nloc <= n
          /\ \A a \in 1..b - 1 : bs[a].kind # "match" => bs[a].nloc <= Found(bs[b])
      BY <2>1 DEF Heights
    <2> QED
      BY <2>1, <2>2, <2>3, <2>4, <1>1
  <1> QED
    BY <1>2 DEF Heights

(* What stands still stands after a line that neither opens nor closes, with
   more names. *)
LEMMA StandSteady ==
  ASSUME NEW bs, NEW l, NEW lo, NEW c, Stand(bs, l, lo, c),
         NEW cs \in Seq(BlockType), Len(cs) = Len(bs), Alike(bs, cs, Len(bs)),
         NEW k \in Seq(Local), Len(l) <= Len(k)
  PROVE  /\ Stand(cs, k, lo, c)
         /\ \A i \in Line : i.op \notin Openings \cup {"close"} =>
              Stand(cs, k, lo, Append(c, i))
  <1>1. /\ bs \in Seq(BlockType) /\ l \in Seq(Local)
        /\ lo \in Seq(NameOrNone) /\ c \in Seq(Line)
        /\ Len(bs) > 0 /\ Shape(bs) /\ Heights(bs, Len(l))
        /\ Lev(bs, Len(bs)) = Bal(c, Len(c)) /\ Len(lo) = LoopCount(bs)
    BY DEF Stand
  <1>2. \A b \in 1..Len(bs) : cs[b].kind = bs[b].kind
    BY DEF Alike
  <1>3. Len(bs) \in Nat /\ Len(bs) <= Len(cs) /\ Len(bs) <= Len(bs) /\ Len(bs) \in 0..Len(bs)
        /\ Len(l) \in Nat /\ Len(k) \in Nat
    BY <1>1
  <1>4. \A b \in 0..Len(bs) : Lev(cs, b) = Lev(bs, b)
    BY <1>1, <1>2, <1>3, LevSame
  <1>5. Lev(cs, Len(cs)) = Bal(c, Len(c))
    BY <1>1, <1>3, <1>4
  <1>6. LoopCount(cs) = LoopCount(bs)
    BY <1>1, <1>2, LoopsAlike
  <1>7. Shape(cs)
    BY <1>1, <1>2, <1>3, ShapeAlike
  <1>8. Heights(cs, Len(k))
    BY <1>1, <1>3, HeightsMono
  <1>9. Stand(cs, k, lo, c)
    BY <1>1, <1>3, <1>5, <1>6, <1>7, <1>8 DEF Stand
  <1>10. ASSUME NEW i \in Line, i.op \notin Openings \cup {"close"}
         PROVE  Stand(cs, k, lo, Append(c, i))
    <2>1. Bal(Append(c, i), Len(c) + 1) = Bal(c, Len(c))
      BY <1>1, <1>10, BalAppend
    <2>2. Append(c, i) \in Seq(Line) /\ Len(Append(c, i)) = Len(c) + 1
      BY <1>1, SameAppend
    <2> QED
      BY <2>1, <2>2, <1>1, <1>3, <1>5, <1>6, <1>7, <1>8 DEF Stand
  <1> QED
    BY <1>9, <1>10

(* What stands still stands after a block is opened with as many braces as it
   stands for. *)
LEMMA StandOpen ==
  ASSUME NEW bs, NEW l, NEW lo, NEW c, Stand(bs, l, lo, c),
         NEW b \in BlockType, b.kind # "fn",
         b.kind \in {"case", "else"} <=> Last(bs).kind = "match",
         NEW k \in Seq(Local), Len(l) <= Len(k),
         b.kind = "match" \/ (Found(b) = Len(l) /\ Len(l) <= b.nloc /\ b.nloc <= Len(k)),
         NEW e \in Seq(Line),
         b.kind = "match" => Bal(e, Len(e)) = Bal(c, Len(c)),
         b.kind = "range" => Bal(e, Len(e)) = Bal(c, Len(c)) + 2,
         b.kind \notin {"match", "range"} => Bal(e, Len(e)) = Bal(c, Len(c)) + 1,
         NEW mo \in Seq(NameOrNone),
         b.kind \in Loops => Len(mo) = Len(lo) + 1,
         b.kind \notin Loops => Len(mo) = Len(lo)
  PROVE  Stand(Append(bs, b), k, mo, e)
  <1>1. /\ bs \in Seq(BlockType) /\ l \in Seq(Local)
        /\ lo \in Seq(NameOrNone) /\ c \in Seq(Line)
        /\ Len(bs) > 0 /\ Shape(bs) /\ Heights(bs, Len(l))
        /\ Lev(bs, Len(bs)) = Bal(c, Len(c)) /\ Len(lo) = LoopCount(bs)
    BY DEF Stand
  <1>2. Len(l) \in Nat /\ Len(k) \in Nat
    BY <1>1
  <1>3. Shape(Append(bs, b))
    BY <1>1, ShapePush
  <1>4. Heights(Append(bs, b), Len(k))
    BY <1>1, <1>2, HeightsPush
  <1>5. /\ Append(bs, b) \in Seq(BlockType) /\ Len(Append(bs, b)) = Len(bs) + 1
        /\ Len(bs) \in Nat
        /\ b.kind = "match" => Lev(Append(bs, b), Len(bs) + 1) = Lev(bs, Len(bs))
        /\ b.kind = "range" => Lev(Append(bs, b), Len(bs) + 1) = Lev(bs, Len(bs)) + 2
        /\ b.kind \notin {"fn", "match", "range"} =>
             Lev(Append(bs, b), Len(bs) + 1) = Lev(bs, Len(bs)) + 1
    BY <1>1, PushPop
  <1>6. Lev(Append(bs, b), Len(Append(bs, b))) = Bal(e, Len(e))
    <2>1. b.kind = "match" \/ b.kind = "range" \/ b.kind \notin {"fn", "match", "range"}
      BY Zenon
    <2> QED
      BY <2>1, <1>1, <1>5
  <1>7. Len(mo) = LoopCount(Append(bs, b))
    BY <1>1, LoopsPush
  <1> QED
    BY <1>3, <1>4, <1>5, <1>6, <1>7 DEF Stand

(* What stands still stands after a block is closed and its names are cut. *)
LEMMA StandShut ==
  ASSUME NEW bs, NEW l, NEW lo, NEW c, Stand(bs, l, lo, c), Len(bs) > 1,
         NEW k \in Seq(Local), Last(bs).kind = "match" => Len(k) = Len(l),
         Last(bs).kind # "match" => Found(Last(bs)) <= Len(k),
         NEW e \in Seq(Line), Bal(e, Len(e)) = Lev(bs, Len(bs) - 1),
         NEW mo \in Seq(NameOrNone),
         Last(bs).kind \in Loops => Len(mo) = Len(lo) - 1,
         Last(bs).kind \notin Loops => Len(mo) = Len(lo)
  PROVE  Stand(Front(bs), k, mo, e)
  <1>1. /\ bs \in Seq(BlockType) /\ l \in Seq(Local)
        /\ lo \in Seq(NameOrNone) /\ c \in Seq(Line)
        /\ Len(bs) > 0 /\ Shape(bs) /\ Heights(bs, Len(l))
        /\ Lev(bs, Len(bs)) = Bal(c, Len(c)) /\ Len(lo) = LoopCount(bs)
    BY DEF Stand
  <1>2. /\ Front(bs) \in Seq(BlockType) /\ Len(Front(bs)) = Len(bs) - 1
        /\ Len(bs) - 1 \in Nat \ {0}
        /\ \A b \in 1..Len(bs) - 1 : Front(bs)[b] = bs[b] /\ b \in 1..Len(bs)
        /\ Lev(Front(bs), Len(bs) - 1) = Lev(bs, Len(bs) - 1)
    BY <1>1, Popped
  <1>3. Len(l) \in Nat /\ Len(k) \in Nat
    BY <1>1
  <1>4. Len(Front(bs)) < Len(bs) /\ Len(Front(bs)) > 0 /\ Len(Front(bs)) <= Len(bs)
    BY <1>1, <1>2
  <1>5. Alike(bs, Front(bs), Len(Front(bs)))
    BY <1>2 DEF Alike
  <1>6. Heights(Front(bs), Len(k))
    BY <1>1, <1>2, <1>3, <1>4, <1>5, HeightsShut
  <1>7. Shape(Front(bs))
    BY <1>1, <1>2, <1>4, ShapeAlike
  <1>8. Len(mo) = LoopCount(Front(bs))
    <2>1. /\ Last(bs).kind \in Loops => LoopCount(bs) = LoopCount(Front(bs)) + 1
          /\ Last(bs).kind \notin Loops => LoopCount(bs) = LoopCount(Front(bs))
          /\ LoopCount(Front(bs)) \in Nat
      BY <1>1, LoopsPop
    <2> QED
      BY <2>1, <1>1
  <1> QED
    BY <1>2, <1>4, <1>6, <1>7, <1>8 DEF Stand

(* What the transpiler's table of depths can hold.                         *)
Shallow == Depth <= SavedBlocks

(* What an open stack gives to the steps that use it. *)
LEMMA StandIs ==
  ASSUME NEW bs, NEW l, NEW lo, NEW c, Stand(bs, l, lo, c)
  PROVE  /\ bs \in Seq(BlockType) /\ l \in Seq(Local) /\ Stored(bs, l, c)
         /\ lo \in Seq(NameOrNone) /\ c \in Seq(Line)
         /\ Len(bs) > 0 /\ Len(bs) \in Nat /\ Len(l) \in Nat /\ Last(bs) = bs[Len(bs)]
         /\ Len(bs) \in 1..Len(bs) /\ Last(bs) \in BlockType
         /\ Alike(bs, bs, Len(bs)) /\ Bal(c, Len(c)) = Lev(bs, Len(bs))
         /\ Last(bs).kind # "fn" => Len(bs) > 1
         /\ Last(bs).kind # "match" =>
              /\ Found(Last(bs)) \in 0..Len(l) /\ Last(bs).nloc \in 0..Len(l)
              /\ Found(Last(bs)) <= Last(bs).nloc
  <1>1. /\ bs \in Seq(BlockType) /\ l \in Seq(Local)
        /\ lo \in Seq(NameOrNone) /\ c \in Seq(Line)
        /\ Len(bs) > 0 /\ Shape(bs) /\ Heights(bs, Len(l))
        /\ Lev(bs, Len(bs)) = Bal(c, Len(c)) /\ Len(lo) = LoopCount(bs)
    BY DEF Stand
  <1>2. /\ Len(bs) \in Nat /\ Len(l) \in Nat /\ Last(bs) = bs[Len(bs)]
        /\ Len(bs) \in 1..Len(bs) /\ Last(bs) \in BlockType /\ Stored(bs, l, c)
        /\ Alike(bs, bs, Len(bs))
    BY <1>1 DEF Last, Stored, Alike
  <1>3. Last(bs).kind # "fn" => Len(bs) > 1
    BY <1>1, <1>2 DEF Shape
  <1>4. ASSUME Last(bs).kind # "match"
        PROVE  /\ Found(Last(bs)) \in 0..Len(l) /\ Last(bs).nloc \in 0..Len(l)
               /\ Found(Last(bs)) <= Last(bs).nloc
    <2>1. Last(bs).nloc \in Nat /\ Last(bs).before \in Nat
      BY <1>2, FieldIs
    <2>2. Found(Last(bs)) \in Nat
      BY <2>1 DEF Found
    <2>3. Found(Last(bs)) <= Last(bs).nloc /\ Last(bs).nloc <= Len(l)
      BY <1>1, <1>2, <1>4 DEF Heights
    <2> QED
      BY <2>1, <2>2, <2>3, <1>2
  <1> QED
    BY <1>1, <1>2, <1>3, <1>4

(* Names cut to the height of the block, exactly those when the height was
   saved. *)
LEMMA DroppedIs ==
  ASSUME Stand(blocks, loc, loops, code), Last(blocks).kind # "match"
  PROVE  /\ Dropped \in Seq(Local) /\ Last(blocks).nloc <= Len(Dropped)
         /\ Shallow => Dropped = SubSeq(loc, 1, Last(blocks).nloc)
  <1> DEFINE m == Last(blocks).nloc
  <1>1. loc \in Seq(Local) /\ m \in 0..Len(loc) /\ Len(loc) \in Nat
    BY StandIs
  <1> HIDE DEF m
  <1>2. SubSeq(loc, 1, m) \in Seq(Local) /\ Len(SubSeq(loc, 1, m)) = m
    BY <1>1
  <1>3. Depth \in Int /\ SavedBlocks \in Nat
    <2>1. IsFiniteSet(1..Len(blocks))
      <3>1. Len(blocks) \in Nat
        BY StandIs
      <3> QED
        BY <3>1, FS_Interval
    <2>2. /\ IsFiniteSet({k \in 1..Len(blocks) : blocks[k].kind # "match"})
          /\ IsFiniteSet({k \in 1..Len(blocks) : blocks[k].kind = "range"})
      BY <2>1, FS_Subset
    <2>3. /\ Cardinality({k \in 1..Len(blocks) : blocks[k].kind # "match"}) \in Nat
          /\ Cardinality({k \in 1..Len(blocks) : blocks[k].kind = "range"}) \in Nat
      BY <2>2, FS_CardinalityType
    <2>4. SavedBlocks \in Nat
      BY StatementAssumption, Zenon
    <2> QED
      BY <2>3, <2>4 DEF Depth
  <1>4. Dropped = IF Depth - 1 < SavedBlocks THEN SubSeq(loc, 1, m) ELSE loc
    BY DEF Dropped, m
  <1>5. Shallow => Dropped = SubSeq(loc, 1, m)
    <2> HIDE DEF Depth
    <2>1. Depth <= SavedBlocks => Depth - 1 < SavedBlocks
      BY <1>3
    <2> QED
      BY <2>1, <1>4, Zenon DEF Shallow
  <1>6. Dropped \in Seq(Local) /\ m <= Len(Dropped)
    BY <1>1, <1>2, <1>4
  <1> QED
    BY <1>5, <1>6 DEF m

(* Lines that only prepare a condition disturb neither invariant. *)
LEMMA KeepAhead ==
  ASSUME NEW bs, NEW l, NEW lo, NEW c, Stand(bs, l, lo, c),
         NEW d \in Seq(Line), Ahead(c, d)
  PROVE  Stand(bs, l, lo, d) /\ (Scoped(bs, l, c) => Scoped(bs, l, d))
  <1>1. /\ bs \in Seq(BlockType) /\ l \in Seq(Local) /\ Stored(bs, l, c)
        /\ Len(bs) > 0 /\ Alike(bs, bs, Len(bs)) /\ Len(l) \in Nat
    BY StandIs
  <1>2. CASE d = c
    BY <1>2
  <1>3. CASE d # c
    <2>1. PICK i \in Line : i.op \in {"inc", "hoist"} /\ d = Append(c, i)
      BY <1>3 DEF Ahead
    <2>2. i.op \notin Declaring \cup Openings \cup {"close"}
      <3>1. i.op \in FlatOps \cup {"return"}
        BY <2>1, Zenon DEF FlatOps
      <3> QED
        BY <3>1, OpsAre
    <2>3. i.op \notin Openings \cup {"close"} /\ Len(l) <= Len(l)
      BY <2>2, <1>1
    <2>4. Stand(bs, l, lo, d)
      BY <1>1, <2>1, <2>3, StandSteady
    <2>5. Scoped(bs, l, c) => Scoped(bs, l, d)
      BY <1>1, <2>1, <2>2, ScopedSteady
    <2> QED
      BY <2>4, <2>5
  <1> QED
    BY <1>2, <1>3

Braces(k) == k.kind \in {"if", "while", "loop", "case", "else"}

(* Opening a block of one brace disturbs neither invariant. *)
LEMMA KeepOpen ==
  ASSUME NEW bs, NEW l, NEW lo, NEW c, Stand(bs, l, lo, c),
         NEW b \in BlockType, Braces(b), b.nloc = Len(l),
         b.kind \in {"case", "else"} <=> Last(bs).kind = "match",
         NEW i \in Line, i.op \in {"if", "while", "loop", "elseif", "else"},
         NEW mo \in Seq(NameOrNone),
         b.kind \in Loops => Len(mo) = Len(lo) + 1,
         b.kind \notin Loops => Len(mo) = Len(lo)
  PROVE  /\ Stand(Append(bs, b), l, mo, Append(c, i))
         /\ Scoped(bs, l, c) => Scoped(Append(bs, b), l, Append(c, i))
  <1>1. /\ bs \in Seq(BlockType) /\ l \in Seq(Local) /\ Stored(bs, l, c)
        /\ Len(bs) > 0 /\ Len(l) \in Nat /\ c \in Seq(Line)
    BY StandIs
  <1>2. i.op \in Openings /\ i.op \notin Declaring /\ i.op # "close"
    BY Zenon DEF Openings, Loops, Declaring
  <1>3. /\ b.kind # "fn" /\ b.kind \notin {"match", "range"} /\ b.kind \in Plain
        /\ b.kind # "range" /\ b.kind # "each" /\ b.kind # "match"
        /\ b.kind \notin {"range", "each"}
    BY Zenon DEF Braces, Plain
  <1>4. Append(c, i) \in Seq(Line) /\ Len(Append(c, i)) = Len(c) + 1
    BY <1>1, SameAppend
  <1>5. Bal(Append(c, i), Len(c) + 1) = Bal(c, Len(c)) + 1 /\ Bal(c, Len(c)) \in Int
    BY <1>1, <1>2, BalAppend
  <1>6. Found(b) = Len(l)
    BY <1>3 DEF Found
  <1> DEFINE e == Append(c, i)
  <1>7. Stand(Append(bs, b), l, mo, e)
    <2>1. Len(l) <= Len(l)
      BY <1>1
    <2>2. b.kind = "match" \/ (Found(b) = Len(l) /\ Len(l) <= b.nloc /\ b.nloc <= Len(l))
      BY <2>1, <1>6
    <2>3. Bal(e, Len(e)) = Bal(c, Len(c)) + 1
      BY <1>4, <1>5
    <2>4. e \in Seq(Line)
      BY <1>4
    <2> HIDE DEF e
    <2>5. /\ b.kind = "match" => Bal(e, Len(e)) = Bal(c, Len(c))
          /\ b.kind = "range" => Bal(e, Len(e)) = Bal(c, Len(c)) + 2
          /\ b.kind \notin {"match", "range"} => Bal(e, Len(e)) = Bal(c, Len(c)) + 1
      BY <2>3, <1>3
    <2> QED
      BY <1>1, <1>3, <2>1, <2>2, <2>4, <2>5, StandOpen
  <1>8. ASSUME Scoped(bs, l, c) PROVE Scoped(Append(bs, b), l, Append(c, i))
    <2>1. Agree(l, c)
      BY <1>8 DEF Scoped
    <2>2. /\ Agree(l, Append(c, i))
          /\ \A m, d : Cut(l, c, m, d) => Cut(l, Append(c, i), m, d)
      BY <2>1, <1>1, <1>2, Keep
    <2>3. Cut(l, c, Len(l), Bal(c, Len(c)) + 1)
      BY <1>1, <1>5, CutAll
    <2>4. Cut(l, Append(c, i), b.nloc, Bal(Append(c, i), Len(Append(c, i))))
      BY <2>2, <2>3, <1>4, <1>5
    <2> QED
      BY <2>2, <2>4, <1>1, <1>3, <1>4, <1>5, <1>8, ScopedOpen
  <1> QED
    BY <1>7, <1>8

(* Closing a block of one brace disturbs neither invariant. *)
LEMMA KeepShut ==
  ASSUME NEW bs, NEW l, NEW lo, NEW c, Stand(bs, l, lo, c),
         Braces(Last(bs)) \/ Last(bs).kind = "each",
         NEW k \in Seq(Local), Found(Last(bs)) <= Len(k),
         NEW mo \in Seq(NameOrNone),
         Last(bs).kind \in Loops => Len(mo) = Len(lo) - 1,
         Last(bs).kind \notin Loops => Len(mo) = Len(lo)
  PROVE  /\ Stand(Front(bs), k, mo, Append(c, CloseLine))
         /\ Scoped(bs, l, c) /\ k = SubSeq(l, 1, Found(Last(bs))) =>
              Scoped(Front(bs), k, Append(c, CloseLine))
         /\ Len(bs) > 1
  <1>1. /\ Last(bs).kind \notin {"fn", "match", "range"} /\ Last(bs).kind # "match"
        /\ Last(bs).kind # "fn"
    BY Zenon DEF Braces
  <1>2. /\ bs \in Seq(BlockType) /\ l \in Seq(Local) /\ Stored(bs, l, c)
        /\ Len(bs) > 1 /\ Len(l) \in Nat /\ c \in Seq(Line) /\ Len(bs) \in 1..Len(bs)
        /\ Bal(c, Len(c)) = Lev(bs, Len(bs)) /\ Last(bs) = bs[Len(bs)]
    BY <1>1, StandIs
  <1> DEFINE e == Append(c, CloseLine)
  <1>3. /\ CloseLine \in Line /\ CloseLine.op = "close" /\ e \in Seq(Line)
        /\ Len(e) = Len(c) + 1
    BY <1>2, CloseLineIs, SameAppend
  <1>4. Bal(e, Len(c) + 1) = Bal(c, Len(c)) - 1 /\ Bal(c, Len(c)) \in Int
    BY <1>2, <1>3, BalAppend
  <1>5. Lev(bs, Len(bs)) = Lev(bs, Len(bs) - 1) + 1 /\ Lev(bs, Len(bs) - 1) \in Nat
    <2>1. Len(bs) - 1 \in Nat
      BY <1>2
    <2> QED
      BY <2>1, <1>1, <1>2, Popped, LevSteps
  <1> HIDE DEF e
  <1>6. Bal(e, Len(e)) = Lev(bs, Len(bs) - 1)
    BY <1>2, <1>3, <1>4, <1>5
  <1>7. Stand(Front(bs), k, mo, e)
    BY <1>1, <1>2, <1>3, <1>6, StandShut
  <1>8. ASSUME Scoped(bs, l, c), k = SubSeq(l, 1, Found(Last(bs)))
        PROVE  Scoped(Front(bs), k, e)
    <2>1. Agree(l, c) /\ BlockCuts(bs, Len(bs), l, c)
      BY <1>2, <1>8 DEF Scoped
    <2>2. Cut(l, c, Found(Last(bs)), Bal(c, Len(c)))
      <3>1. CASE Braces(Last(bs))
        <4>1. Last(bs).kind \in Plain /\ Last(bs).kind \notin {"range", "each"}
          BY <3>1, Zenon DEF Braces, Plain
        <4> QED
          BY <4>1, <2>1, <1>2 DEF BlockCuts, Found
      <3>2. CASE Last(bs).kind = "each"
        BY <3>2, <2>1, <1>2 DEF BlockCuts, Found
      <3> QED
        BY <3>1, <3>2
    <2>3. /\ Agree(k, e)
          /\ \A m, d \in Int : d < Bal(c, Len(c)) /\ Cut(l, c, m, d) =>
               Cut(k, e, m, d) /\ m <= Found(Last(bs))
      BY <2>1, <2>2, <1>2, <1>3, <1>8, Forget DEF e
    <2>4. \A m, d \in Int : d <= Lev(bs, Len(bs) - 1) /\ Cut(l, c, m, d) => Cut(k, e, m, d)
      BY <2>3, <1>2, <1>5
    <2> QED
      BY <2>3, <2>4, <1>2, <1>3, <1>6, <1>8, ScopedShut
  <1> QED
    BY <1>2, <1>7, <1>8 DEF e

(* Flags change nothing of where a name is seen.                           *)
LEMMA KeepFlags ==
  ASSUME NEW bs, NEW l, NEW lo, NEW c, Stand(bs, l, lo, c),
         NEW cs \in Seq(BlockType), Len(cs) = Len(bs), Alike(bs, cs, Len(bs))
  PROVE  /\ Stand(cs, l, lo, c)
         /\ Scoped(bs, l, c) => Scoped(cs, l, c)
  <1>1. /\ bs \in Seq(BlockType) /\ l \in Seq(Local) /\ Stored(bs, l, c)
        /\ Len(bs) > 0 /\ Len(l) <= Len(l)
    BY StandIs
  <1>2. Stand(cs, l, lo, c)
    BY <1>1, StandSteady
  <1>3. Scoped(bs, l, c) => Scoped(cs, l, c)
    BY <1>1, ScopedSteady
  <1> QED
    BY <1>2, <1>3

(* A flat line disturbs neither invariant. *)
LEMMA KeepLine ==
  ASSUME NEW bs, NEW l, NEW lo, NEW c, Stand(bs, l, lo, c),
         NEW cs \in Seq(BlockType), Len(cs) = Len(bs), Alike(bs, cs, Len(bs)),
         NEW k, Renamed(l, k),
         NEW i \in Line, i.op \in FlatOps \cup {"return"}
  PROVE  /\ Stand(cs, k, lo, Append(c, i))
         /\ Scoped(bs, l, c) => Scoped(cs, k, Append(c, i))
  <1>1. /\ bs \in Seq(BlockType) /\ l \in Seq(Local) /\ c \in Seq(Line)
        /\ Len(bs) > 0 /\ Stored(bs, l, c)
    BY StandIs
  <1>2. i.op \notin Declaring \cup Openings \cup {"close"}
    BY OpsAre
  <1>3. i.op \notin Openings \cup {"close"}
    BY <1>2
  <1>4. k \in Seq(Local) /\ Len(l) <= Len(k) /\ Len(k) = Len(l)
        /\ \A j \in 1..Len(l) : k[j].name = l[j].name
    BY <1>1 DEF Renamed
  <1>5. Stand(cs, k, lo, Append(c, i))
    BY <1>3, <1>4, StandSteady
  <1>6. ASSUME Scoped(bs, l, c) PROVE Scoped(cs, k, Append(c, i))
    <2>1. Scoped(cs, k, c)
      BY <1>1, <1>4, <1>6, ScopedSteady
    <2>2. Stored(cs, k, c) /\ Len(cs) > 0 /\ Alike(cs, cs, Len(cs)) /\ Len(cs) = Len(cs)
      BY <1>1, <1>4 DEF Stored, Alike
    <2> QED
      BY <1>2, <2>1, <2>2, ScopedSteady
  <1> QED
    BY <1>5, <1>6

(* What a step of the reader does to a body that stands.                   *)
Progress ==
  \/ /\ verdict' = "rejected" /\ UNCHANGED <<valued, blocks, loops, code>>
     /\ loc' \in Seq(Local)
  \/ /\ verdict' = "parse" /\ valued' = valued
     /\ Stand(blocks', loc', loops', code')
     /\ Scoped(blocks, loc, code) /\ Shallow => Scoped(blocks', loc', code')

Now == Typed /\ verdict = "parse" /\ Stand(blocks, loc, loops, code)

(* The facts that every step starts from. *)
LEMMA NowIs ==
  ASSUME Now
  PROVE  /\ Typed /\ verdict = "parse" /\ Stand(blocks, loc, loops, code)
         /\ blocks \in Seq(BlockType) /\ loc \in Seq(Local)
         /\ loops \in Seq(NameOrNone) /\ code \in Seq(Line)
         /\ Len(blocks) > 0 /\ Alike(blocks, blocks, Len(blocks))
         /\ Len(blocks) = Len(blocks) /\ Renamed(loc, loc)
         /\ Refused => Progress
  BY DEF Now, Typed, Stand, Alike, Renamed, Refused, Progress

(* Uses, assignments, del and break preserve the invariant. *)
LEMMA FlatKeeps ==
  ASSUME Now, NEW t \in Tokens, Use(t) \/ Set(t) \/ Del(t) \/ Break(t)
  PROVE  Progress
  <1>1. \/ Refused
        \/ /\ Goes /\ UNCHANGED <<valued, blocks, loops>> /\ Renamed(loc, loc')
           /\ Last(blocks).kind # "match"
           /\ \E i \in Line : i.op \in Simple /\ code' = Append(code, i)
    BY NowIs, FlatDoes
  <1>2. CASE Refused
    BY <1>2, NowIs
  <1>3. CASE ~Refused
    <2>1. PICK i \in Line : i.op \in FlatOps \cup {"return"} /\ code' = Append(code, i)
      BY <1>1, <1>3, OpsAre
    <2>2. Renamed(loc, loc') /\ UNCHANGED <<valued, blocks, loops>> /\ Goes
      BY <1>1, <1>3
    <2>3. /\ Stand(blocks, loc', loops, Append(code, i))
          /\ Scoped(blocks, loc, code) => Scoped(blocks, loc', Append(code, i))
      BY <2>1, <2>2, NowIs, KeepLine
    <2> QED
      BY <2>1, <2>2, <2>3 DEF Progress, Goes
  <1> QED
    BY <1>2, <1>3

(* Continue preserves it. *)
LEMMA ContinueKeeps ==
  ASSUME Now, NEW t \in Tokens, Continue(t)
  PROVE  Progress
  <1>1. /\ Goes /\ UNCHANGED <<valued, blocks, loc, loops>>
        /\ Last(blocks).kind # "match"
        /\ \E c \in Seq(Line) : Ahead(code, c) /\
             \E i \in Line : i.op = "continue" /\ code' = Append(c, i)
    BY NowIs, ContinueDoes
  <1>2. PICK c \in Seq(Line) : Ahead(code, c) /\
             \E i \in Line : i.op = "continue" /\ code' = Append(c, i)
    BY <1>1
  <1>3. PICK i \in Line : i.op = "continue" /\ code' = Append(c, i)
    BY <1>2
  <1>4. Stand(blocks, loc, loops, c) /\ (Scoped(blocks, loc, code) => Scoped(blocks, loc, c))
    BY <1>2, NowIs, KeepAhead
  <1>5. i.op \in FlatOps \cup {"return"}
    BY <1>3, Zenon DEF FlatOps
  <1>6. /\ Stand(blocks, loc, loops, Append(c, i))
        /\ Scoped(blocks, loc, c) => Scoped(blocks, loc, Append(c, i))
    BY <1>4, <1>5, NowIs, KeepLine
  <1> QED
    BY <1>1, <1>3, <1>4, <1>6 DEF Progress, Goes

(* Return preserves it. *)
LEMMA RetKeeps ==
  ASSUME Now, NEW t \in Tokens, Ret(t)
  PROVE  Progress
  <1>1. \/ Refused
        \/ /\ Goes /\ UNCHANGED <<valued, loc, loops>> /\ Last(blocks).kind # "match"
           /\ blocks' = Done(blocks, TRUE)
           /\ \E i \in Line : i.op = "return" /\ code' = Append(code, i)
    BY NowIs, RetDoes
  <1>2. CASE Refused
    BY <1>2, NowIs
  <1>3. CASE ~Refused
    <2>1. PICK i \in Line : i.op = "return" /\ code' = Append(code, i)
      BY <1>1, <1>3
    <2>2. UNCHANGED <<valued, loc, loops>> /\ Goes /\ blocks' = Done(blocks, TRUE)
      BY <1>1, <1>3
    <2>3. /\ Done(blocks, TRUE) \in Seq(BlockType) /\ Len(Done(blocks, TRUE)) = Len(blocks)
          /\ Alike(blocks, Done(blocks, TRUE), Len(blocks))
      BY NowIs, DoneIs
    <2>4. i.op \in FlatOps \cup {"return"}
      BY <2>1
    <2>5. /\ Stand(Done(blocks, TRUE), loc, loops, Append(code, i))
          /\ Scoped(blocks, loc, code) => Scoped(Done(blocks, TRUE), loc, Append(code, i))
      BY <2>3, <2>4, NowIs, KeepLine
    <2> QED
      BY <2>1, <2>2, <2>5 DEF Progress, Goes
  <1> QED
    BY <1>2, <1>3

(* A binding preserves it. *)
LEMMA BindKeeps ==
  ASSUME Now, NEW t \in Tokens, Bind(t)
  PROVE  Progress
  <1>1. \/ Refused
        \/ /\ Goes /\ UNCHANGED <<valued, blocks, loops>> /\ Last(blocks).kind # "match"
           /\ t.x \in Name /\ loc' = Append(loc, Entered(t.x))
           /\ \A k \in 1..Len(loc) : loc[k].name # t.x
           /\ \E i \in Line : i.op = "bind" /\ i.x = t.x /\ code' = Append(code, i)
    BY NowIs, BindDoes
  <1>2. CASE Refused
    BY <1>2, NowIs
  <1>3. CASE ~Refused
    <2>1. PICK i \in Line : i.op = "bind" /\ i.x = t.x /\ code' = Append(code, i)
      BY <1>1, <1>3
    <2>2. /\ UNCHANGED <<valued, blocks, loops>> /\ Goes /\ t.x \in Name
          /\ loc' = Append(loc, Entered(t.x)) /\ \A k \in 1..Len(loc) : loc[k].name # t.x
      BY <1>1, <1>3
    <2>3. Entered(t.x) \in Local /\ Entered(t.x).name = t.x
      BY <2>2, NowIs, EnteredIs
    <2>4. /\ loc' \in Seq(Local) /\ Len(loc) <= Len(loc') /\ Stored(blocks, loc, code)
      BY <2>2, <2>3, NowIs DEF Stored
    <2>5. i.op \notin Openings \cup {"close"}
      BY <2>1, Zenon DEF Openings, Loops
    <2>6. Stand(blocks, loc', loops, Append(code, i))
      BY <2>4, <2>5, NowIs, StandSteady
    <2>7. ASSUME Scoped(blocks, loc, code) PROVE Scoped(blocks, loc', Append(code, i))
      <3> HIDE DEF Entered
      <3>1. i.x = Entered(t.x).name /\ \A k \in 1..Len(loc) : loc[k].name # Entered(t.x).name
        BY <2>1, <2>2, <2>3
      <3>2. Scoped(blocks, Append(loc, Entered(t.x)), Append(code, i))
        BY <3>1, <2>1, <2>3, <2>4, <2>7, NowIs, ScopedSteady
      <3> QED
        BY <3>2, <2>2
    <2> QED
      BY <2>1, <2>2, <2>6, <2>7 DEF Progress, Goes
  <1> QED
    BY <1>2, <1>3

(* Opening if, while or loop preserves it. *)
LEMMA OpenKeeps ==
  ASSUME Now, NEW t \in Tokens, OpenIf(t) \/ OpenWhile(t) \/ OpenLoop(t)
  PROVE  Progress
  <1>1. \/ Refused
        \/ /\ Goes /\ UNCHANGED <<valued, loc>> /\ Last(blocks).kind # "match"
           /\ \E k \in {"if", "while", "loop"} :
                /\ blocks' = Append(blocks, Block(k, Len(loc), 0))
                /\ loops' = IF k = "if" THEN loops ELSE Append(loops, "")
                /\ \E c \in Seq(Line) : Ahead(code, c) /\
                     \E i \in Line : /\ i.op = k /\ code' = Append(c, i)
                                     /\ k = "loop" => i.x \in Name
    BY NowIs, OpenDoes
  <1>2. CASE Refused
    BY <1>2, NowIs
  <1>3. CASE ~Refused
    <2>1. PICK k \in {"if", "while", "loop"} :
             /\ blocks' = Append(blocks, Block(k, Len(loc), 0))
             /\ loops' = IF k = "if" THEN loops ELSE Append(loops, "")
             /\ \E c \in Seq(Line) : Ahead(code, c) /\
                  \E i \in Line : /\ i.op = k /\ code' = Append(c, i)
                                  /\ k = "loop" => i.x \in Name
      BY <1>1, <1>3, Zenon
    <2>2. PICK c \in Seq(Line) : Ahead(code, c) /\
                  \E i \in Line : /\ i.op = k /\ code' = Append(c, i)
                                  /\ k = "loop" => i.x \in Name
      BY <2>1, Zenon
    <2>30. \E i \in Line : i.op = k /\ code' = Append(c, i)
      BY <2>2, Zenon
    <2>3. PICK i \in Line : i.op = k /\ code' = Append(c, i)
      BY <2>30
    <2>4. UNCHANGED <<valued, loc>> /\ Last(blocks).kind # "match" /\ Goes
      BY <1>1, <1>3, Zenon
    <2>5. Stand(blocks, loc, loops, c) /\ (Scoped(blocks, loc, code) => Scoped(blocks, loc, c))
      BY <2>2, NowIs, KeepAhead
    <2> DEFINE b == Block(k, Len(loc), 0)
    <2>6. k \in Kinds /\ Len(loc) \in Nat /\ 0 \in Nat
      BY NowIs, KindsAre
    <2>7. b \in BlockType /\ b.kind = k /\ b.nloc = Len(loc)
      BY <2>6, BlockIs
    <2> HIDE DEF b
    <2>8. Braces(b) /\ (b.kind \in {"case", "else"} <=> Last(blocks).kind = "match")
      BY <2>4, <2>7, Zenon DEF Braces
    <2>9. i.op \in {"if", "while", "loop", "elseif", "else"}
      BY <2>3, Zenon
    <2>10. CASE k = "if"
      <3>1. b.kind \notin Loops
        BY <2>10, <2>7, Zenon DEF Loops
      <3>2. loops' = loops
        BY <2>1, <2>10, Zenon
      <3>3. /\ b.kind \in Loops => Len(loops) = Len(loops) + 1
            /\ b.kind \notin Loops => Len(loops) = Len(loops)
        BY <3>1
      <3>4. /\ Stand(Append(blocks, b), loc, loops, Append(c, i))
            /\ Scoped(blocks, loc, c) => Scoped(Append(blocks, b), loc, Append(c, i))
        BY <2>5, <2>7, <2>8, <2>9, <3>3, NowIs, KeepOpen
      <3>5. blocks' = Append(blocks, b)
        BY <2>1, Zenon DEF b
      <3> QED
        BY <2>3, <2>4, <2>5, <3>2, <3>4, <3>5 DEF Progress, Goes
    <2>11. CASE k # "if"
      <3>1. b.kind \in Loops
        BY <2>11, <2>7, Zenon DEF Loops
      <3>2. loops' = Append(loops, "")
        BY <2>1, <2>11, Zenon
      <3>3. Append(loops, "") \in Seq(NameOrNone) /\ Len(Append(loops, "")) = Len(loops) + 1
        <4>1. \A x \in NameOrNone : Append(loops, x) \in Seq(NameOrNone)
                                    /\ Len(Append(loops, x)) = Len(loops) + 1
          BY NowIs
        <4> QED
          BY <4>1, NoneIs, Zenon
      <3>4. loops' \in Seq(NameOrNone) /\ Len(loops') = Len(loops) + 1
        BY <3>2, <3>3, Zenon
      <3>5. /\ b.kind \in Loops => Len(loops') = Len(loops) + 1
            /\ b.kind \notin Loops => Len(loops') = Len(loops)
        BY <3>1, <3>4
      <3>6. /\ Stand(Append(blocks, b), loc, loops', Append(c, i))
            /\ Scoped(blocks, loc, c) => Scoped(Append(blocks, b), loc, Append(c, i))
        BY <2>5, <2>7, <2>8, <2>9, <3>4, <3>5, NowIs, KeepOpen
      <3>7. blocks' = Append(blocks, b)
        BY <2>1, Zenon DEF b
      <3> QED
        BY <2>3, <2>4, <2>5, <3>6, <3>7 DEF Progress, Goes
    <2> QED
      BY <2>10, <2>11
  <1> QED
    BY <1>2, <1>3

(* A name that is declared within braces of its own.                       *)
LEMMA Declares ==
  ASSUME Now, NEW n \in Local, NEW i \in Line, i.op \in {"scope", "each"}, i.x = n.name,
         \A k \in 1..Len(loc) : loc[k].name # n.name
  PROVE  LET T == Bal(code, Len(code))
             e == Append(code, i)
             k == Append(loc, n)
         IN  /\ e \in Seq(Line) /\ Len(e) = Len(code) + 1 /\ Bal(e, Len(e)) = T + 1
             /\ T \in Int
             /\ k \in Seq(Local) /\ Len(k) = Len(loc) + 1 /\ Len(loc) \in Nat
             /\ Agree(loc, code) =>
                  /\ Agree(k, e) /\ Cut(k, e, Len(loc), T + 1)
                  /\ \A m, d \in Int : d <= T /\ Cut(loc, code, m, d) => Cut(k, e, m, d)
  <1> DEFINE T == Bal(code, Len(code))
             e == Append(code, i)
             k == Append(loc, n)
  <1>1. /\ code \in Seq(Line) /\ loc \in Seq(Local) /\ Len(loc) \in Nat
        /\ k \in Seq(Local) /\ Len(k) = Len(loc) + 1
    BY NowIs
  <1>2. i.op \in Openings /\ i.op # "close" /\ i.op \in Declaring
    BY Zenon DEF Openings, Loops, Declaring
  <1>3. e \in Seq(Line) /\ Len(e) = Len(code) + 1
    BY <1>1, SameAppend
  <1>4. Bal(e, Len(code) + 1) = T + 1 /\ T \in Int
    BY <1>1, <1>2, BalAppend
  <1>5. ASSUME Agree(loc, code)
        PROVE  /\ Agree(k, e) /\ Cut(k, e, Len(loc), T + 1)
               /\ \A m, d \in Int : d <= T /\ Cut(loc, code, m, d) => Cut(k, e, m, d)
    <2>1. /\ Agree(k, e)
          /\ \A m, d \in Int : d <= Bal(e, Len(code) + 1) /\ Cut(loc, code, m, d) =>
               Cut(k, e, m, d)
      BY <1>1, <1>2, <1>5, Learn
    <2>2. T + 1 \in Int /\ T < T + 1
      BY <1>4
    <2>3. Cut(loc, code, Len(loc), T + 1)
      BY <1>1, <2>2, CutAll
    <2> HIDE DEF T, e, k
    <2>4. \A m, d \in Int : d <= T + 1 /\ Cut(loc, code, m, d) => Cut(k, e, m, d)
      BY <2>1, <1>4
    <2>5. Cut(k, e, Len(loc), T + 1)
      BY <2>2, <2>3, <2>4, <1>1
    <2>6. \A m, d \in Int : d <= T => d <= T + 1
      BY <1>4
    <2> QED
      BY <2>1, <2>4, <2>5, <2>6
  <1> QED
    BY <1>1, <1>3, <1>4, <1>5

(* Opening a for over a slice preserves it. *)
LEMMA EachKeeps ==
  ASSUME Now, NEW t \in Tokens, OpenEach(t)
  PROVE  Progress
  <1>1. \/ Refused
        \/ /\ Goes /\ valued' = valued /\ Last(blocks).kind # "match"
           /\ t.x \in Name /\ loc' = Append(loc, Entered(t.x))
           /\ \A k \in 1..Len(loc) : loc[k].name # t.x
           /\ blocks' = Append(blocks, Block("each", Len(loc) + 1, Len(loc)))
           /\ loops' = Append(loops, "")
           /\ \E i \in Line : i.op = "each" /\ i.x = t.x /\ code' = Append(code, i)
    BY NowIs, EachDoes
  <1>2. CASE Refused
    BY <1>2, NowIs
  <1>3. CASE ~Refused
    <2>1. PICK i \in Line : i.op = "each" /\ i.x = t.x /\ code' = Append(code, i)
      BY <1>1, <1>3, Zenon
    <2>2. /\ Goes /\ valued' = valued /\ Last(blocks).kind # "match" /\ t.x \in Name
          /\ loc' = Append(loc, Entered(t.x)) /\ \A k \in 1..Len(loc) : loc[k].name # t.x
          /\ blocks' = Append(blocks, Block("each", Len(loc) + 1, Len(loc)))
          /\ loops' = Append(loops, "")
      BY <1>1, <1>3, Zenon
    <2>3. Entered(t.x) \in Local /\ Entered(t.x).name = t.x
      BY <2>2, NowIs, EnteredIs
    <2> DEFINE n == Entered(t.x)
               b == Block("each", Len(loc) + 1, Len(loc))
               e == Append(code, i)
               T == Bal(code, Len(code))
    <2> HIDE DEF n
    <2>4. n \in Local /\ n.name = t.x /\ loc' = Append(loc, n)
      BY <2>2, <2>3 DEF n
    <2>5. i.x = n.name /\ i.op \in {"scope", "each"}
          /\ \A k \in 1..Len(loc) : loc[k].name # n.name
      BY <2>1, <2>2, <2>4
    <2>6. /\ e \in Seq(Line) /\ Bal(e, Len(e)) = T + 1 /\ T \in Int
          /\ loc' \in Seq(Local) /\ Len(loc') = Len(loc) + 1 /\ Len(loc) \in Nat
          /\ Agree(loc, code) =>
               /\ Agree(loc', e) /\ Cut(loc', e, Len(loc), T + 1)
               /\ \A m, d \in Int : d <= T /\ Cut(loc, code, m, d) => Cut(loc', e, m, d)
      BY <2>4, <2>5, Declares
    <2>7. "each" \in Kinds /\ Len(loc) + 1 \in Nat
      BY <2>6, KindsAre
    <2>8. b \in BlockType /\ b.kind = "each" /\ b.nloc = Len(loc) + 1 /\ b.before = Len(loc)
      BY <2>6, <2>7, BlockIs
    <2> HIDE DEF b, e, T
    <2>9. loops' \in Seq(NameOrNone) /\ Len(loops') = Len(loops) + 1
      <3>1. \A x \in NameOrNone : Append(loops, x) \in Seq(NameOrNone)
                                  /\ Len(Append(loops, x)) = Len(loops) + 1
        BY NowIs
      <3>2. Append(loops, "") \in Seq(NameOrNone) /\ Len(Append(loops, "")) = Len(loops) + 1
        BY <3>1, NoneIs, Zenon
      <3> QED
        BY <3>2, <2>2, Zenon
    <2>10. /\ b.kind # "fn" /\ b.kind \notin {"match", "range"} /\ b.kind \notin Plain
           /\ b.kind # "match" /\ b.kind # "range" /\ b.kind \in Loops
           /\ b.kind \in {"case", "else"} <=> Last(blocks).kind = "match"
      BY <2>2, <2>8, Zenon DEF Plain, Loops
    <2>11. Found(b) = Len(loc) /\ Len(loc) <= b.nloc /\ b.nloc <= Len(loc')
           /\ Len(loc) <= Len(loc')
      BY <2>6, <2>8 DEF Found
    <2>12. Stand(Append(blocks, b), loc', loops', e)
      <3>1. b.kind = "match" \/ (Found(b) = Len(loc) /\ Len(loc) <= b.nloc /\ b.nloc <= Len(loc'))
        BY <2>11
      <3>2. /\ b.kind = "match" => Bal(e, Len(e)) = Bal(code, Len(code))
            /\ b.kind = "range" => Bal(e, Len(e)) = Bal(code, Len(code)) + 2
            /\ b.kind \notin {"match", "range"} => Bal(e, Len(e)) = Bal(code, Len(code)) + 1
        BY <2>6, <2>10 DEF T
      <3>3. /\ b.kind \in Loops => Len(loops') = Len(loops) + 1
            /\ b.kind \notin Loops => Len(loops') = Len(loops)
        BY <2>9, <2>10
      <3> QED
        BY <2>6, <2>8, <2>9, <2>10, <2>11, <3>1, <3>2, <3>3, NowIs, StandOpen
    <2>13. ASSUME Scoped(blocks, loc, code) PROVE Scoped(Append(blocks, b), loc', e)
      <3>1. Agree(loc, code) /\ Stored(blocks, loc, code)
        BY <2>13, NowIs DEF Scoped, Stored
      <3>2. /\ Agree(loc', e) /\ Cut(loc', e, b.before, Bal(e, Len(e)))
            /\ \A m, d \in Int : d <= Bal(code, Len(code)) /\ Cut(loc, code, m, d) =>
                 Cut(loc', e, m, d)
        BY <3>1, <2>6, <2>8 DEF T
      <3>3. /\ b.kind = "match" => Bal(e, Len(e)) = Bal(code, Len(code))
            /\ b.kind = "range" => Bal(e, Len(e)) = Bal(code, Len(code)) + 2
            /\ b.kind \notin {"match", "range"} => Bal(e, Len(e)) = Bal(code, Len(code)) + 1
            /\ b.kind \in Plain => Cut(loc', e, b.nloc, Bal(e, Len(e)))
            /\ b.kind = "range" => Cut(loc', e, b.before, Bal(e, Len(e)) - 1)
            /\ b.kind = "each" => Cut(loc', e, b.before, Bal(e, Len(e)))
        BY <3>2, <2>6, <2>10 DEF T
      <3> QED
        BY <2>6, <2>8, <2>10, <2>13, <3>1, <3>2, <3>3, NowIs, ScopedOpen
    <2>14. blocks' = Append(blocks, b) /\ code' = e
      BY <2>1, <2>2, Zenon DEF b, e
    <2> QED
      BY <2>2, <2>12, <2>13, <2>14 DEF Progress, Goes
  <1> QED
    BY <1>2, <1>3

(* Opening a for over a range preserves it. *)
LEMMA RangeKeeps ==
  ASSUME Now, NEW t \in Tokens, OpenRange(t)
  PROVE  Progress
  <1>1. \/ Refused
        \/ /\ Goes /\ valued' = valued /\ Last(blocks).kind # "match"
           /\ t.x \in Name /\ loc' = Append(loc, Entered(t.x))
           /\ \A k \in 1..Len(loc) : loc[k].name # t.x
           /\ blocks' = Append(blocks, Block("range", Len(loc) + 1, Len(loc)))
           /\ loops' = Append(loops, t.x)
           /\ \E i, j \in Line : /\ i.op = "scope" /\ i.x = t.x /\ j.op = "range"
                                 /\ code' = Append(Append(code, i), j)
    BY NowIs, RangeDoes
  <1>2. CASE Refused
    BY <1>2, NowIs
  <1>3. CASE ~Refused
    <2>1. PICK i \in Line, j \in Line :
             /\ i.op = "scope" /\ i.x = t.x /\ j.op = "range"
             /\ code' = Append(Append(code, i), j)
      BY <1>1, <1>3, Zenon
    <2>2. /\ Goes /\ valued' = valued /\ Last(blocks).kind # "match" /\ t.x \in Name
          /\ loc' = Append(loc, Entered(t.x)) /\ \A k \in 1..Len(loc) : loc[k].name # t.x
          /\ blocks' = Append(blocks, Block("range", Len(loc) + 1, Len(loc)))
          /\ loops' = Append(loops, t.x)
      BY <1>1, <1>3, Zenon
    <2>3. Entered(t.x) \in Local /\ Entered(t.x).name = t.x
      BY <2>2, NowIs, EnteredIs
    <2> DEFINE n == Entered(t.x)
               b == Block("range", Len(loc) + 1, Len(loc))
               d1 == Append(code, i)
               e == Append(d1, j)
               T == Bal(code, Len(code))
    <2> HIDE DEF n
    <2>4. n \in Local /\ n.name = t.x /\ loc' = Append(loc, n)
      BY <2>2, <2>3 DEF n
    <2>5. i.x = n.name /\ i.op \in {"scope", "each"}
          /\ \A k \in 1..Len(loc) : loc[k].name # n.name
      BY <2>1, <2>2, <2>4
    <2>6. /\ d1 \in Seq(Line) /\ Bal(d1, Len(d1)) = T + 1 /\ T \in Int
          /\ loc' \in Seq(Local) /\ Len(loc') = Len(loc) + 1 /\ Len(loc) \in Nat
          /\ Agree(loc, code) =>
               /\ Agree(loc', d1) /\ Cut(loc', d1, Len(loc), T + 1)
               /\ \A m, d \in Int : d <= T /\ Cut(loc, code, m, d) => Cut(loc', d1, m, d)
      BY <2>4, <2>5, Declares
    <2>7. "range" \in Kinds /\ Len(loc) + 1 \in Nat
      BY <2>6, KindsAre
    <2>8. b \in BlockType /\ b.kind = "range" /\ b.nloc = Len(loc) + 1 /\ b.before = Len(loc)
      BY <2>6, <2>7, BlockIs
    <2> HIDE DEF b, d1, T
    <2>9. j.op \in Openings /\ j.op # "close" /\ j.op \notin Declaring
      BY <2>1, Zenon DEF Openings, Loops, Declaring
    <2>10. e \in Seq(Line) /\ Len(e) = Len(d1) + 1
      BY <2>6, SameAppend
    <2>11. Bal(e, Len(d1) + 1) = Bal(d1, Len(d1)) + 1
      BY <2>6, <2>9, BalAppend
    <2> HIDE DEF e
    <2>12. Bal(e, Len(e)) = T + 2
      BY <2>6, <2>10, <2>11
    <2>13. loops' \in Seq(NameOrNone) /\ Len(loops') = Len(loops) + 1
      <3>1. \A x \in NameOrNone : Append(loops, x) \in Seq(NameOrNone)
                                  /\ Len(Append(loops, x)) = Len(loops) + 1
        BY NowIs
      <3>2. t.x \in NameOrNone
        BY TokenNames
      <3> QED
        BY <3>1, <3>2, <2>2, Zenon
    <2>14. /\ b.kind # "fn" /\ b.kind # "match" /\ b.kind \in Plain
           /\ b.kind # "each" /\ b.kind \in Loops /\ b.kind \in {"match", "range"}
           /\ b.kind \in {"case", "else"} <=> Last(blocks).kind = "match"
      BY <2>2, <2>8, Zenon DEF Plain, Loops
    <2>15. Found(b) = Len(loc) /\ Len(loc) <= b.nloc /\ b.nloc <= Len(loc')
           /\ Len(loc) <= Len(loc')
      BY <2>6, <2>8 DEF Found
    <2>16. /\ b.kind = "match" => Bal(e, Len(e)) = Bal(code, Len(code))
           /\ b.kind = "range" => Bal(e, Len(e)) = Bal(code, Len(code)) + 2
           /\ b.kind \notin {"match", "range"} => Bal(e, Len(e)) = Bal(code, Len(code)) + 1
      BY <2>12, <2>14 DEF T
    <2>17. Stand(Append(blocks, b), loc', loops', e)
      <3>1. b.kind = "match" \/ (Found(b) = Len(loc) /\ Len(loc) <= b.nloc /\ b.nloc <= Len(loc'))
        BY <2>15
      <3>2. /\ b.kind \in Loops => Len(loops') = Len(loops) + 1
            /\ b.kind \notin Loops => Len(loops') = Len(loops)
        BY <2>13, <2>14
      <3> QED
        BY <2>6, <2>8, <2>10, <2>13, <2>14, <2>15, <2>16, <3>1, <3>2, NowIs, StandOpen
    <2>18. ASSUME Scoped(blocks, loc, code) PROVE Scoped(Append(blocks, b), loc', e)
      <3>1. Agree(loc, code) /\ Stored(blocks, loc, code)
        BY <2>18, NowIs DEF Scoped, Stored
      <3>2. /\ Agree(loc', d1) /\ Cut(loc', d1, Len(loc), T + 1)
            /\ \A m, d \in Int : d <= T /\ Cut(loc, code, m, d) => Cut(loc', d1, m, d)
        BY <3>1, <2>6
      <3>3. /\ Agree(loc', e)
            /\ \A m, d : Cut(loc', d1, m, d) => Cut(loc', e, m, d)
        BY <3>2, <2>6, <2>9, Keep DEF e
      <3>4. T + 2 \in Int /\ Bal(d1, Len(d1)) < T + 2
        BY <2>6
      <3>5. Cut(loc', d1, Len(loc'), T + 2)
        BY <3>4, <2>6, CutAll
      <3>6. /\ Cut(loc', e, b.nloc, T + 2) /\ Cut(loc', e, b.before, T + 1)
        BY <3>2, <3>3, <3>5, <2>6, <2>8
      <3>7. Bal(e, Len(e)) - 1 = T + 1
        BY <2>6, <2>12
      <3>8. /\ b.kind \in Plain => Cut(loc', e, b.nloc, Bal(e, Len(e)))
            /\ b.kind = "range" => Cut(loc', e, b.before, Bal(e, Len(e)) - 1)
            /\ b.kind = "each" => Cut(loc', e, b.before, Bal(e, Len(e)))
        BY <3>6, <3>7, <2>12, <2>14
      <3>9. \A m, d \in Int : d <= Bal(code, Len(code)) /\ Cut(loc, code, m, d) =>
              Cut(loc', e, m, d)
        BY <3>2, <3>3 DEF T
      <3> QED
        BY <2>6, <2>8, <2>10, <2>14, <2>16, <2>18, <3>1, <3>3, <3>8, <3>9, NowIs, ScopedOpen
    <2>19. blocks' = Append(blocks, b) /\ code' = e
      BY <2>1, <2>2, Zenon DEF b, e, d1
    <2> QED
      BY <2>2, <2>17, <2>18, <2>19 DEF Progress, Goes
  <1> QED
    BY <1>2, <1>3

(* Opening a match preserves it. *)
LEMMA MatchKeeps ==
  ASSUME Now, NEW t \in Tokens, OpenMatch(t)
  PROVE  Progress
  <1>1. /\ Goes /\ UNCHANGED <<valued, loc, loops>> /\ Last(blocks).kind # "match"
        /\ blocks' = Append(blocks, Block("match", 0, 0))
        /\ \E i \in Line : i.op = "temp" /\ code' = Append(code, i)
    BY NowIs, MatchDoes
  <1>2. PICK i \in Line : i.op = "temp" /\ code' = Append(code, i)
    BY <1>1
  <1>3. i.op \in FlatOps \cup {"return"}
    BY <1>2, Zenon DEF FlatOps
  <1> DEFINE e == Append(code, i)
             b == Block("match", 0, 0)
  <1>4. /\ Stand(blocks, loc, loops, e)
        /\ Scoped(blocks, loc, code) => Scoped(blocks, loc, e)
    BY <1>3, NowIs, KeepLine
  <1>5. "match" \in Kinds /\ 0 \in Nat
    BY KindsAre
  <1>6. b \in BlockType /\ b.kind = "match"
    BY <1>5, BlockIs
  <1> HIDE DEF b, e
  <1>7. /\ b.kind # "fn" /\ b.kind \notin Plain /\ b.kind # "range" /\ b.kind # "each"
        /\ b.kind \notin Loops /\ b.kind \in {"match", "range"}
        /\ b.kind \in {"case", "else"} <=> Last(blocks).kind = "match"
    BY <1>1, <1>6, Zenon DEF Plain, Loops
  <1>8. e \in Seq(Line) /\ Stored(blocks, loc, e) /\ Len(loc) <= Len(loc)
    BY <1>4, StandIs
  <1>9. /\ b.kind = "match" => Bal(e, Len(e)) = Bal(e, Len(e))
        /\ b.kind = "range" => Bal(e, Len(e)) = Bal(e, Len(e)) + 2
        /\ b.kind \notin {"match", "range"} => Bal(e, Len(e)) = Bal(e, Len(e)) + 1
    BY <1>7
  <1>10. Stand(Append(blocks, b), loc, loops, e)
    <2>1. b.kind = "match" \/ (Found(b) = Len(loc) /\ Len(loc) <= b.nloc /\ b.nloc <= Len(loc))
      BY <1>6
    <2>2. /\ b.kind \in Loops => Len(loops) = Len(loops) + 1
          /\ b.kind \notin Loops => Len(loops) = Len(loops)
      BY <1>7
    <2> QED
      BY <1>4, <1>6, <1>7, <1>8, <1>9, <2>1, <2>2, NowIs, StandOpen
  <1>11. ASSUME Scoped(blocks, loc, e) PROVE Scoped(Append(blocks, b), loc, e)
    <2>1. Agree(loc, e)
      BY <1>11 DEF Scoped
    <2>2. /\ b.kind \in Plain => Cut(loc, e, b.nloc, Bal(e, Len(e)))
          /\ b.kind = "range" => Cut(loc, e, b.before, Bal(e, Len(e)) - 1)
          /\ b.kind = "each" => Cut(loc, e, b.before, Bal(e, Len(e)))
      BY <1>7
    <2>3. \A m, d \in Int : d <= Bal(e, Len(e)) /\ Cut(loc, e, m, d) => Cut(loc, e, m, d)
      OBVIOUS
    <2> QED
      BY <1>6, <1>7, <1>8, <1>9, <1>11, <2>1, <2>2, <2>3, NowIs, ScopedOpen
  <1>12. blocks' = Append(blocks, b) /\ code' = e
    BY <1>1, <1>2, Zenon DEF b, e
  <1> QED
    BY <1>1, <1>4, <1>10, <1>11, <1>12 DEF Progress, Goes

(* A branch of a match.                                                    *)
LEMMA CaseKeeps ==
  ASSUME Now, NEW t \in Tokens, OpenCase(t) \/ OpenCaseElse(t)
  PROVE  Progress
  <1> DEFINE One(k, cs, i) ==
               /\ k \in {"case", "else"} /\ cs \in Seq(BlockType) /\ Len(cs) = Len(blocks)
               /\ Alike(blocks, cs, Len(blocks)) /\ i \in Line
               /\ i.op \in {"if", "elseif", "else"}
               /\ blocks' = Append(cs, Block(k, Len(loc), 0)) /\ code' = Append(code, i)
  <1>1. /\ Goes /\ UNCHANGED <<valued, loc, loops>> /\ Last(blocks).kind = "match"
        /\ \E k, cs, i : One(k, cs, i)
    <2> DEFINE Marked(f) == [blocks EXCEPT ![Len(blocks)] = f]
    <2>1. \A f \in BlockType :
            f.kind = Last(blocks).kind /\ f.nloc = Last(blocks).nloc
                /\ f.before = Last(blocks).before =>
              /\ Marked(f) \in Seq(BlockType) /\ Len(Marked(f)) = Len(blocks)
              /\ Alike(blocks, Marked(f), Len(blocks))
      <3> TAKE f \in BlockType
      <3> HAVE f.kind = Last(blocks).kind /\ f.nloc = Last(blocks).nloc
                /\ f.before = Last(blocks).before
      <3>1. /\ Marked(f) \in Seq(BlockType) /\ Len(Marked(f)) = Len(blocks)
            /\ Marked(f)[Len(blocks)] = f
            /\ \A b \in 1..Len(blocks) - 1 : Marked(f)[b] = blocks[b]
        BY NowIs, TopIs
      <3> HIDE DEF Marked
      <3>2. Len(blocks) \in Nat /\ Last(blocks) = blocks[Len(blocks)]
        BY NowIs, StandIs
      <3> QED
        BY <3>1, <3>2 DEF Alike
    <2>2. Last(blocks) \in BlockType /\ Last(blocks) = blocks[Len(blocks)]
      BY NowIs, StandIs
    <2>3. CASE OpenCase(t)
      <3>1. /\ Goes /\ UNCHANGED <<valued, loc, loops>> /\ Last(blocks).kind = "match"
            /\ blocks' = Append([blocks EXCEPT ![Len(blocks)].hasCase = TRUE],
                                Block("case", Len(loc), 0))
            /\ \E i \in Line : /\ i.op = (IF Last(blocks).hasCase THEN "elseif" ELSE "if")
                               /\ code' = Append(code, i)
        BY <2>3, NowIs, CaseDoes
      <3>2. PICK i \in Line : /\ i.op = (IF Last(blocks).hasCase THEN "elseif" ELSE "if")
                              /\ code' = Append(code, i)
        BY <3>1, Zenon
      <3>3. i.op \in {"if", "elseif", "else"}
        BY <3>2
      <3> DEFINE f == [Last(blocks) EXCEPT !.hasCase = TRUE]
                 cs == [blocks EXCEPT ![Len(blocks)].hasCase = TRUE]
      <3>4. f \in BlockType /\ f.kind = Last(blocks).kind
            /\ f.nloc = Last(blocks).nloc /\ f.before = Last(blocks).before
        BY <2>2 DEF BlockType
      <3>5. cs = Marked(f)
        BY <2>2
      <3>6. cs \in Seq(BlockType) /\ Len(cs) = Len(blocks) /\ Alike(blocks, cs, Len(blocks))
        <4> HIDE DEF Marked, f, cs
        <4> QED
          BY <3>4, <3>5, <2>1
      <3>7. One("case", cs, i)
        <4> HIDE DEF f, Marked
        <4>1. "case" \in {"case", "else"}
          OBVIOUS
        <4>2. blocks' = Append(cs, Block("case", Len(loc), 0))
          BY <3>1, Zenon
        <4> HIDE DEF cs
        <4> QED
          BY <4>1, <4>2, <3>2, <3>3, <3>6, Zenon
      <3> HIDE DEF One, cs
      <3> QED
        BY <3>1, <3>7, Zenon
    <2>4. CASE OpenCaseElse(t)
      <3>1. /\ Goes /\ UNCHANGED <<valued, loc, loops>> /\ Last(blocks).kind = "match"
            /\ blocks' = Append([blocks EXCEPT ![Len(blocks)].hasElse = TRUE],
                                Block("else", Len(loc), 0))
            /\ \E i \in Line : i.op = "else" /\ code' = Append(code, i)
        BY <2>4, NowIs, CaseElseDoes
      <3>2. PICK i \in Line : i.op = "else" /\ code' = Append(code, i)
        BY <3>1, Zenon
      <3>3. i.op \in {"if", "elseif", "else"}
        BY <3>2
      <3> DEFINE f == [Last(blocks) EXCEPT !.hasElse = TRUE]
                 cs == [blocks EXCEPT ![Len(blocks)].hasElse = TRUE]
      <3>4. f \in BlockType /\ f.kind = Last(blocks).kind
            /\ f.nloc = Last(blocks).nloc /\ f.before = Last(blocks).before
        BY <2>2 DEF BlockType
      <3>5. cs = Marked(f)
        BY <2>2
      <3>6. cs \in Seq(BlockType) /\ Len(cs) = Len(blocks) /\ Alike(blocks, cs, Len(blocks))
        <4> HIDE DEF Marked, f, cs
        <4> QED
          BY <3>4, <3>5, <2>1
      <3>7. One("else", cs, i)
        <4> HIDE DEF f, Marked
        <4>1. "else" \in {"case", "else"}
          OBVIOUS
        <4>2. blocks' = Append(cs, Block("else", Len(loc), 0))
          BY <3>1, Zenon
        <4> HIDE DEF cs
        <4> QED
          BY <4>1, <4>2, <3>2, <3>3, <3>6, Zenon
      <3> HIDE DEF One, cs
      <3> QED
        BY <3>1, <3>7, Zenon
    <2> QED
      BY <2>3, <2>4, Zenon
  <1>2. PICK k, cs, i : One(k, cs, i)
    BY <1>1, Zenon
  <1>3. /\ Stand(cs, loc, loops, code)
        /\ Scoped(blocks, loc, code) => Scoped(cs, loc, code)
    BY <1>2, NowIs, KeepFlags
  <1> DEFINE b == Block(k, Len(loc), 0)
  <1>4. k \in Kinds /\ Len(loc) \in Nat /\ 0 \in Nat
    BY <1>2, NowIs, KindsAre
  <1>5. b \in BlockType /\ b.kind = k /\ b.nloc = Len(loc)
    BY <1>4, BlockIs
  <1>6. blocks' = Append(cs, b) /\ code' = Append(code, i)
    BY <1>2, Zenon
  <1> HIDE DEF b
  <1>7. Last(cs).kind = "match"
    <2>1. Len(blocks) \in 1..Len(blocks) /\ Last(blocks) = blocks[Len(blocks)]
      BY NowIs, StandIs
    <2>2. Last(cs) = cs[Len(cs)]
      BY DEF Last
    <2> QED
      BY <1>1, <1>2, <2>1, <2>2 DEF Alike
  <1>8. /\ Braces(b) /\ b.kind \notin Loops
        /\ b.kind \in {"case", "else"} <=> Last(cs).kind = "match"
    BY <1>2, <1>5, <1>7, Zenon DEF Braces, Loops
  <1>9. i \in Line /\ i.op \in {"if", "while", "loop", "elseif", "else"}
    BY <1>2, Zenon
  <1>10. /\ b.kind \in Loops => Len(loops) = Len(loops) + 1
         /\ b.kind \notin Loops => Len(loops) = Len(loops)
    BY <1>8
  <1>11. /\ Stand(Append(cs, b), loc, loops, Append(code, i))
         /\ Scoped(cs, loc, code) => Scoped(Append(cs, b), loc, Append(code, i))
    BY <1>3, <1>5, <1>8, <1>9, <1>10, NowIs, KeepOpen
  <1> HIDE DEF One
  <1> QED
    BY <1>1, <1>3, <1>6, <1>11 DEF Progress, Goes

(* An open loop has an entry in loop_kind. *)
LEMMA LoopsFront ==
  ASSUME NEW bs, NEW l, NEW lo, NEW c, Stand(bs, l, lo, c), Last(bs).kind \in Loops
  PROVE  /\ Len(lo) > 0 /\ Front(lo) \in Seq(NameOrNone) /\ Len(Front(lo)) = Len(lo) - 1
         /\ Last(lo) \in NameOrNone
  <1>1. bs \in Seq(BlockType) /\ Len(bs) > 0 /\ lo \in Seq(NameOrNone)
        /\ Len(lo) = LoopCount(bs)
    BY DEF Stand
  <1>2. LoopCount(bs) = LoopCount(Front(bs)) + 1 /\ LoopCount(Front(bs)) \in Nat
    BY <1>1, LoopsPop
  <1>3. Len(lo) > 0 /\ Len(lo) \in Nat
    BY <1>1, <1>2
  <1> HIDE DEF NameOrNone
  <1> QED
    BY <1>1, <1>3 DEF Front, Last

(* The end of a match: nothing is emitted.                                 *)
LEMMA MatchShut ==
  ASSUME NEW bs, NEW l, NEW lo, NEW c, Stand(bs, l, lo, c), Last(bs).kind = "match"
  PROVE  /\ Stand(Front(bs), l, lo, c)
         /\ Scoped(bs, l, c) => Scoped(Front(bs), l, c)
         /\ Len(bs) > 1
  <1>1. Last(bs).kind # "fn" /\ Last(bs).kind \notin Loops
    BY Zenon DEF Loops
  <1>2. /\ bs \in Seq(BlockType) /\ l \in Seq(Local) /\ Stored(bs, l, c)
        /\ lo \in Seq(NameOrNone) /\ c \in Seq(Line)
        /\ Len(bs) > 1 /\ Bal(c, Len(c)) = Lev(bs, Len(bs))
    BY <1>1, StandIs
  <1>3. Bal(c, Len(c)) = Lev(bs, Len(bs) - 1)
    BY <1>2, Popped
  <1>4. Stand(Front(bs), l, lo, c)
    <2>1. /\ Last(bs).kind = "match" => Len(l) = Len(l)
          /\ Last(bs).kind # "match" => Found(Last(bs)) <= Len(l)
      OBVIOUS
    <2>2. /\ Last(bs).kind \in Loops => Len(lo) = Len(lo) - 1
          /\ Last(bs).kind \notin Loops => Len(lo) = Len(lo)
      BY <1>1
    <2> QED
      BY <1>2, <1>3, <2>1, <2>2, StandShut
  <1>5. ASSUME Scoped(bs, l, c) PROVE Scoped(Front(bs), l, c)
    <2>1. Agree(l, c)
      BY <1>5 DEF Scoped
    <2>2. \A m, d \in Int : d <= Lev(bs, Len(bs) - 1) /\ Cut(l, c, m, d) => Cut(l, c, m, d)
      OBVIOUS
    <2> QED
      BY <1>2, <1>3, <1>5, <2>1, <2>2, ScopedShut
  <1> QED
    BY <1>2, <1>4, <1>5

(* A popped and pushed block is a replaced one. *)
LEMMA Replace ==
  ASSUME NEW bs \in Seq(BlockType), Len(bs) > 1, NEW r \in BlockType
  PROVE  Append(Front(bs), r) = [bs EXCEPT ![Len(bs)] = r]
  <1>1. Len(bs) \in Nat \ {0}
    OBVIOUS
  <1>2. Front(bs) \in Seq(BlockType) /\ Len(Front(bs)) = Len(bs) - 1
        /\ \A b \in 1..Len(bs) - 1 : Front(bs)[b] = bs[b]
    BY Popped
  <1>3. Append(Front(bs), r) \in Seq(BlockType) /\ Len(Append(Front(bs), r)) = Len(bs)
        /\ \A b \in 1..Len(bs) - 1 : Append(Front(bs), r)[b] = bs[b]
    BY <1>1, <1>2
  <1>4. Append(Front(bs), r)[Len(bs)] = r
    BY <1>1, <1>2
  <1> DEFINE cs == [bs EXCEPT ![Len(bs)] = r]
             ds == Append(Front(bs), r)
  <1>5. /\ cs \in Seq(BlockType) /\ Len(cs) = Len(bs) /\ cs[Len(bs)] = r
        /\ \A b \in 1..Len(bs) - 1 : cs[b] = bs[b]
    BY TopIs
  <1> HIDE DEF cs, ds
  <1>6. \A b \in 1..Len(bs) : cs[b] = ds[b]
    BY <1>1, <1>3, <1>4, <1>5 DEF ds
  <1>7. cs = ds
    BY <1>3, <1>5, <1>6 DEF ds
  <1> QED
    BY <1>7 DEF cs, ds

(* The next branch of a chain preserves it. *)
LEMMA BranchKeeps ==
  ASSUME Now, NEW t \in Tokens, NextBranch(t)
  PROVE  Progress
  <1>1. /\ valued' = valued /\ loops' = loops /\ loc' = Dropped
        /\ Last(blocks).kind = "if" /\ ~Last(blocks).hasElse
        /\ t.k \in {"else", "elseif"}
        /\ \/ verdict' = "rejected" /\ UNCHANGED <<blocks, code>>
           \/ /\ Goes
              /\ blocks' = [blocks EXCEPT ![Len(blocks)] =
                              Branched(Last(blocks), t.k = "else", Len(loc'))]
              /\ \E i \in Line : /\ i.op = t.k
                   /\ code' = Append(Prepared(Append(code, CloseLine), t), i)
    BY NowIs, BranchDoes
  <1>2. /\ Last(blocks).kind # "match" /\ Last(blocks).kind # "fn"
        /\ Last(blocks).kind \notin Loops /\ Last(blocks).kind \notin {"range", "each"}
        /\ Braces(Last(blocks)) /\ Last(blocks).kind \notin {"case", "else"}
    BY <1>1, Zenon DEF Loops, Braces
  <1>3. /\ Dropped \in Seq(Local) /\ Last(blocks).nloc <= Len(Dropped)
        /\ Shallow => Dropped = SubSeq(loc, 1, Last(blocks).nloc)
    BY <1>2, NowIs, DroppedIs
  <1>4. CASE verdict' = "rejected" /\ UNCHANGED <<blocks, code>>
    BY <1>1, <1>3, <1>4 DEF Progress
  <1>5. CASE ~(verdict' = "rejected" /\ UNCHANGED <<blocks, code>>)
    <2>1. /\ Goes
          /\ blocks' = [blocks EXCEPT ![Len(blocks)] =
                          Branched(Last(blocks), t.k = "else", Len(loc'))]
          /\ \E i \in Line : /\ i.op = t.k
               /\ code' = Append(Prepared(Append(code, CloseLine), t), i)
      BY <1>1, <1>5, Zenon
    <2>2. PICK i \in Line : i.op = t.k
                 /\ code' = Append(Prepared(Append(code, CloseLine), t), i)
      BY <2>1
    <2> DEFINE fs == Front(blocks)
               c1 == Append(code, CloseLine)
               c2 == Prepared(c1, t)
               f == (t.k = "else")
               b == Branched(Last(blocks), f, Len(loc'))
    <2>3. Found(Last(blocks)) = Last(blocks).nloc
      BY <1>2 DEF Found
    <2>4. /\ Stand(fs, loc', loops, c1)
          /\ Scoped(blocks, loc, code) /\ loc' = SubSeq(loc, 1, Found(Last(blocks))) =>
               Scoped(fs, loc', c1)
          /\ Len(blocks) > 1
      <3>1. loc' \in Seq(Local) /\ Found(Last(blocks)) <= Len(loc')
        BY <1>1, <1>3, <2>3
      <3>2. /\ Last(blocks).kind \in Loops => Len(loops) = Len(loops) - 1
            /\ Last(blocks).kind \notin Loops => Len(loops) = Len(loops)
        BY <1>2
      <3>3. Braces(Last(blocks)) \/ Last(blocks).kind = "each"
        BY <1>2
      <3> QED
        BY <3>1, <3>2, <3>3, NowIs, KeepShut
    <2>5. Shallow /\ Scoped(blocks, loc, code) => Scoped(fs, loc', c1)
      BY <1>1, <1>3, <2>3, <2>4
    <2> HIDE DEF fs, c1
    <2>6. c1 \in Seq(Line) /\ Len(loc') \in Nat /\ loc' \in Seq(Local)
      BY <2>4, StandIs
    <2>7. Ahead(c1, c2) /\ c2 \in Seq(Line)
      BY <2>6, PreparedIs
    <2> HIDE DEF c2
    <2>8. Stand(fs, loc', loops, c2) /\ (Scoped(fs, loc', c1) => Scoped(fs, loc', c2))
      BY <2>4, <2>7, KeepAhead
    <2>9. Last(blocks) \in BlockType /\ f \in BOOLEAN
      BY NowIs, StandIs
    <2> HIDE DEF f
    <2>10. b \in BlockType /\ b.kind = Last(blocks).kind /\ b.nloc = Len(loc')
      BY <2>6, <2>9, BranchedIs
    <2>11. Last(fs).kind # "match"
      <3>1. /\ fs \in Seq(BlockType) /\ Len(fs) = Len(blocks) - 1
            /\ Len(blocks) - 1 \in Nat \ {0} /\ Len(blocks) \in 1..Len(blocks)
            /\ \A n \in 1..Len(blocks) - 1 : fs[n] = blocks[n] /\ n \in 1..Len(blocks)
            /\ Last(blocks) = blocks[Len(blocks)]
        BY <2>4, NowIs, Popped DEF fs
      <3>2. Shape(blocks)
        BY NowIs DEF Stand
      <3>3. Last(fs) = blocks[Len(blocks) - 1]
        BY <3>1 DEF Last
      <3> QED
        BY <1>2, <2>4, <3>1, <3>2, <3>3 DEF Shape
    <2> HIDE DEF b
    <2>12. /\ Braces(b) /\ b.kind \notin Loops
           /\ b.kind \in {"case", "else"} <=> Last(fs).kind = "match"
      BY <1>2, <2>10, <2>11 DEF Braces
    <2>13. i.op \in {"if", "while", "loop", "elseif", "else"}
      BY <1>1, <2>2, Zenon
    <2>14. /\ b.kind \in Loops => Len(loops) = Len(loops) + 1
           /\ b.kind \notin Loops => Len(loops) = Len(loops)
      BY <2>12
    <2>15. /\ Stand(Append(fs, b), loc', loops, Append(c2, i))
           /\ Scoped(fs, loc', c2) => Scoped(Append(fs, b), loc', Append(c2, i))
      BY <2>8, <2>10, <2>12, <2>13, <2>14, NowIs, KeepOpen
    <2>16. blocks' = Append(fs, b)
      <3>1. Append(fs, b) = [blocks EXCEPT ![Len(blocks)] = b]
        BY <2>4, <2>10, NowIs, Replace DEF fs
      <3> QED
        BY <3>1, <2>1, Zenon DEF b, f
    <2>17. code' = Append(c2, i)
      BY <2>2 DEF c1, c2
    <2> QED
      BY <1>1, <2>1, <2>5, <2>8, <2>15, <2>16, <2>17 DEF Progress, Goes
  <1> QED
    BY <1>4, <1>5

(* Closing an if preserves it. *)
LEMMA ShutIfKeeps ==
  ASSUME Now, NEW t \in Tokens, CloseIf(t)
  PROVE  Progress
  <1> DEFINE f == /\ Last(blocks).hasElse
                  /\ Last(blocks).all
                  /\ Last(blocks).returned
             fs == Front(blocks)
  <1>1. /\ Goes /\ UNCHANGED <<valued, loops>> /\ Last(blocks).kind = "if"
        /\ loc' = Dropped /\ code' = Append(code, CloseLine)
        /\ blocks' = Done(fs, f)
    BY NowIs, ShutIfDoes
  <1>2. /\ Last(blocks).kind # "match" /\ Last(blocks).kind \notin {"range", "each"}
        /\ Last(blocks).kind \notin Loops /\ Braces(Last(blocks))
    BY <1>1, Zenon DEF Loops, Braces
  <1>3. /\ Dropped \in Seq(Local) /\ Last(blocks).nloc <= Len(Dropped)
        /\ Shallow => Dropped = SubSeq(loc, 1, Last(blocks).nloc)
    BY <1>2, NowIs, DroppedIs
  <1>4. Found(Last(blocks)) = Last(blocks).nloc
    BY <1>2 DEF Found
  <1>5. /\ Stand(fs, loc', loops, code')
        /\ Scoped(blocks, loc, code) /\ loc' = SubSeq(loc, 1, Found(Last(blocks))) =>
             Scoped(fs, loc', code')
    <2>1. loc' \in Seq(Local) /\ Found(Last(blocks)) <= Len(loc')
      BY <1>1, <1>3, <1>4
    <2>2. /\ Last(blocks).kind \in Loops => Len(loops) = Len(loops) - 1
          /\ Last(blocks).kind \notin Loops => Len(loops) = Len(loops)
      BY <1>2
    <2>3. Braces(Last(blocks)) \/ Last(blocks).kind = "each"
      BY <1>2
    <2>4. /\ Stand(fs, loc', loops, Append(code, CloseLine))
          /\ Scoped(blocks, loc, code) /\ loc' = SubSeq(loc, 1, Found(Last(blocks))) =>
               Scoped(fs, loc', Append(code, CloseLine))
      BY <2>1, <2>2, <2>3, NowIs, KeepShut
    <2> HIDE DEF fs
    <2> QED
      BY <2>4, <1>1
  <1>6. Last(blocks) \in BlockType
    BY NowIs, StandIs
  <1>7. f \in BOOLEAN
    OBVIOUS
  <1> HIDE DEF f, fs
  <1>8. fs \in Seq(BlockType) /\ Len(fs) > 0
    BY <1>5, StandIs
  <1>9. /\ Done(fs, f) \in Seq(BlockType) /\ Len(Done(fs, f)) = Len(fs)
        /\ Alike(fs, Done(fs, f), Len(fs))
    BY <1>7, <1>8, DoneIs
  <1>10. /\ Stand(Done(fs, f), loc', loops, code')
         /\ Scoped(fs, loc', code') => Scoped(Done(fs, f), loc', code')
    BY <1>5, <1>9, KeepFlags
  <1> QED
    BY <1>1, <1>3, <1>4, <1>5, <1>10 DEF Progress, Goes

(* Closing while, loop or a for over a slice preserves it. *)
LEMMA ShutLoopKeeps ==
  ASSUME Now, NEW t \in Tokens, CloseLoop(t)
  PROVE  Progress
  <1> DEFINE fs == Front(blocks)
  <1>1. /\ Goes /\ valued' = valued /\ Last(blocks).kind \in {"while", "loop", "each"}
        /\ loc' = IF Last(blocks).kind = "each"
                    THEN SubSeq(loc, 1, Last(blocks).before) ELSE Dropped
        /\ code' = Append(code, CloseLine) /\ loops' = Front(loops)
        /\ blocks' = Done(fs, FALSE)
    BY NowIs, ShutLoopDoes
  <1>2. /\ Last(blocks).kind # "match" /\ Last(blocks).kind \in Loops
        /\ Braces(Last(blocks)) \/ Last(blocks).kind = "each"
    BY <1>1, Zenon DEF Loops, Braces
  <1>3. /\ Dropped \in Seq(Local) /\ Last(blocks).nloc <= Len(Dropped)
        /\ Shallow => Dropped = SubSeq(loc, 1, Last(blocks).nloc)
    BY <1>2, NowIs, DroppedIs
  <1>4. /\ Found(Last(blocks)) \in 0..Len(loc) /\ loc \in Seq(Local) /\ Len(loc) \in Nat
    BY <1>2, NowIs, StandIs
  <1>5. /\ loc' \in Seq(Local) /\ Found(Last(blocks)) <= Len(loc')
        /\ Shallow => loc' = SubSeq(loc, 1, Found(Last(blocks)))
    <2>1. CASE Last(blocks).kind = "each"
      <3>1. Found(Last(blocks)) = Last(blocks).before
        BY <2>1 DEF Found
      <3>2. loc' = SubSeq(loc, 1, Last(blocks).before)
        BY <1>1, <2>1, Zenon
      <3> HIDE DEF Local
      <3>3. loc' = SubSeq(loc, 1, Found(Last(blocks)))
        BY <3>1, <3>2
      <3> QED
        BY <3>3, <1>4
    <2>2. CASE Last(blocks).kind # "each"
      <3>1. Last(blocks).kind \notin {"range", "each"}
        BY <1>1, <2>2, Zenon
      <3>2. Found(Last(blocks)) = Last(blocks).nloc
        BY <3>1 DEF Found
      <3>3. loc' = Dropped
        BY <1>1, <2>2, Zenon
      <3> QED
        BY <1>3, <3>2, <3>3
    <2> QED
      BY <2>1, <2>2
  <1>6. /\ Len(loops) > 0 /\ Front(loops) \in Seq(NameOrNone)
        /\ Len(Front(loops)) = Len(loops) - 1
    BY <1>2, NowIs, LoopsFront
  <1>7. /\ Stand(fs, loc', Front(loops), Append(code, CloseLine))
        /\ Scoped(blocks, loc, code) /\ loc' = SubSeq(loc, 1, Found(Last(blocks))) =>
             Scoped(fs, loc', Append(code, CloseLine))
    <2>1. /\ Last(blocks).kind \in Loops => Len(Front(loops)) = Len(loops) - 1
          /\ Last(blocks).kind \notin Loops => Len(Front(loops)) = Len(loops)
      BY <1>2, <1>6
    <2> QED
      BY <1>2, <1>5, <1>6, <2>1, NowIs, KeepShut
  <1> HIDE DEF fs
  <1>8. fs \in Seq(BlockType) /\ Len(fs) > 0
    BY <1>7, StandIs
  <1>9. /\ Done(fs, FALSE) \in Seq(BlockType) /\ Len(Done(fs, FALSE)) = Len(fs)
        /\ Alike(fs, Done(fs, FALSE), Len(fs))
    BY <1>8, DoneIs
  <1>10. /\ Stand(Done(fs, FALSE), loc', Front(loops), Append(code, CloseLine))
         /\ Scoped(fs, loc', Append(code, CloseLine)) =>
              Scoped(Done(fs, FALSE), loc', Append(code, CloseLine))
    BY <1>7, <1>9, KeepFlags
  <1> QED
    BY <1>1, <1>5, <1>7, <1>10 DEF Progress, Goes

(* Closing a for over a range preserves it. *)
LEMMA ShutRangeKeeps ==
  ASSUME Now, NEW t \in Tokens, CloseRange(t)
  PROVE  Progress
  <1> DEFINE fs == Front(blocks)
             top == Last(blocks)
             n == Len(blocks)
  <1>1. top.kind = "range"
    BY DEF CloseRange, Closing
  <1>2. top.kind \in Loops /\ top.kind # "match" /\ top.kind # "fn" /\ top.kind \in Plain
    BY <1>1, Zenon DEF Loops, Plain
  <1>3. /\ Len(loops) > 0 /\ Front(loops) \in Seq(NameOrNone)
        /\ Len(Front(loops)) = Len(loops) - 1
    BY <1>2, NowIs, LoopsFront
  <1>4. /\ Goes /\ valued' = valued
        /\ loc' = SubSeq(loc, 1, top.before) /\ loops' = Front(loops)
        /\ blocks' = Done(fs, FALSE)
        /\ \E i \in Line : /\ i.op = "inc" /\ i.x = Last(loops)
                           /\ code' = Append(Append(Append(code, i), CloseLine), CloseLine)
    BY <1>3, NowIs, ShutRangeDoes
  <1>5. PICK i \in Line :
           code' = Append(Append(Append(code, i), CloseLine), CloseLine) /\ i.op = "inc"
    BY <1>4, Zenon
  <1>6. i.op \in FlatOps \cup {"return"}
    BY <1>5, Zenon DEF FlatOps
  <1> DEFINE c1 == Append(code, i)
             c2 == Append(c1, CloseLine)
             c3 == Append(c2, CloseLine)
             T == Bal(c1, Len(c1))
  <1>7. /\ Stand(blocks, loc, loops, c1)
        /\ Scoped(blocks, loc, code) => Scoped(blocks, loc, c1)
    BY <1>6, NowIs, KeepLine
  <1>8. /\ blocks \in Seq(BlockType) /\ loc \in Seq(Local) /\ Stored(blocks, loc, c1)
        /\ n > 1 /\ Len(loc) \in Nat /\ c1 \in Seq(Line) /\ n \in 1..n
        /\ T = Lev(blocks, n) /\ top = blocks[n]
        /\ Found(top) \in 0..Len(loc) /\ top.nloc \in 0..Len(loc) /\ Found(top) <= top.nloc
    BY <1>2, <1>7, StandIs
  <1>9. Found(top) = top.before
    BY <1>1 DEF Found
  <1>10. /\ CloseLine \in Line /\ CloseLine.op = "close" /\ c2 \in Seq(Line)
    BY <1>8, CloseLineIs
  <1>11. c3 \in Seq(Line) /\ Len(c3) = Len(c2) + 1 /\ Len(c2) = Len(c1) + 1
    BY <1>8, <1>10, SameAppend
  <1>12. Bal(c2, Len(c1) + 1) = T - 1 /\ T \in Int
    BY <1>8, <1>10, BalAppend
  <1>13. Bal(c3, Len(c2) + 1) = Bal(c2, Len(c2)) - 1
    BY <1>10, BalAppend
  <1>14. Lev(blocks, n) = Lev(blocks, n - 1) + 2 /\ Lev(blocks, n - 1) \in Nat
    <2>1. n - 1 \in Nat
      BY <1>8
    <2> QED
      BY <2>1, <1>1, <1>8, Popped, LevSteps
  <1> HIDE DEF c1, c2, c3, T, top, fs
  <1>15. /\ Bal(c2, Len(c2)) = T - 1 /\ Bal(c3, Len(c3)) = Lev(blocks, n - 1)
         /\ T = Lev(blocks, n - 1) + 2
    BY <1>8, <1>11, <1>12, <1>13, <1>14
  <1> DEFINE s == SubSeq(loc, 1, top.nloc)
             r == SubSeq(loc, 1, top.before)
  <1>16. r \in Seq(Local) /\ Len(r) = Found(top)
    <2> HIDE DEF Local
    <2> QED
      BY <1>8, <1>9
  <1>17. Stand(fs, r, Front(loops), c3)
    <2>1. /\ top.kind = "match" => Len(r) = Len(loc)
          /\ top.kind # "match" => Found(top) <= Len(r)
      BY <1>2, <1>8, <1>16
    <2>2. /\ top.kind \in Loops => Len(Front(loops)) = Len(loops) - 1
          /\ top.kind \notin Loops => Len(Front(loops)) = Len(loops)
      BY <1>2, <1>3
    <2> HIDE DEF r
    <2> QED
      BY <1>3, <1>7, <1>8, <1>11, <1>15, <1>16, <2>1, <2>2, StandShut DEF top, fs
  <1>18. ASSUME Scoped(blocks, loc, c1) PROVE Scoped(fs, r, c3)
    <2>1. Agree(loc, c1) /\ BlockCuts(blocks, n, loc, c1)
      BY <1>8, <1>18 DEF Scoped
    <2>2. Cut(loc, c1, top.nloc, T) /\ Cut(loc, c1, top.before, T - 1)
      BY <2>1, <1>1, <1>2, <1>8 DEF BlockCuts
    <2>3. /\ Agree(s, c2)
          /\ \A m, d \in Int : d < T /\ Cut(loc, c1, m, d) => Cut(s, c2, m, d)
          /\ s \in Seq(Local)
      <3>1. Cut(loc, c1, top.nloc, Bal(c1, Len(c1)))
        BY <2>2 DEF T
      <3> QED
        BY <2>1, <3>1, <1>8, <1>10, Forget DEF c2, T
    <2>4. top.before \in Int /\ T - 1 \in Int /\ T - 1 < T
      BY <1>8, <1>9, <1>12
    <2>5. Cut(s, c2, top.before, Bal(c2, Len(c2)))
      BY <2>2, <2>3, <2>4, <1>15
    <2>6. /\ Agree(SubSeq(s, 1, top.before), c3)
          /\ \A m, d \in Int : d < T - 1 /\ Cut(s, c2, m, d) =>
               Cut(SubSeq(s, 1, top.before), c3, m, d)
      <3> HIDE DEF s
      <3>1. /\ Agree(SubSeq(s, 1, top.before), c3)
            /\ \A m, d \in Int : d < Bal(c2, Len(c2)) /\ Cut(s, c2, m, d) =>
                 Cut(SubSeq(s, 1, top.before), c3, m, d)
        BY <2>3, <2>5, <1>10, Forget DEF c3
      <3> QED
        BY <3>1, <1>15
    <2>7. SubSeq(s, 1, top.before) = r
      <3>1. top.before \in Nat /\ top.nloc \in Nat /\ top.before <= top.nloc /\ top.nloc <= Len(loc)
        BY <1>8, <1>9
      <3> HIDE DEF Local
      <3> QED
        BY <3>1, <1>8
    <2>8. \A m, d \in Int : d <= Lev(blocks, n - 1) /\ Cut(loc, c1, m, d) => Cut(r, c3, m, d)
      <3>1. \A d \in Int : d <= Lev(blocks, n - 1) => d < T - 1 /\ d < T
        BY <1>14, <1>15
      <3> HIDE DEF r, s
      <3> QED
        BY <3>1, <2>3, <2>6, <2>7
    <2>9. Agree(r, c3)
      BY <2>6, <2>7
    <2> HIDE DEF r
    <2> QED
      BY <2>8, <2>9, <1>8, <1>11, <1>15, <1>16, <1>18, ScopedShut DEF fs
  <1> HIDE DEF r, s
  <1>19. fs \in Seq(BlockType) /\ Len(fs) > 0
    BY <1>17, StandIs
  <1>20. /\ Done(fs, FALSE) \in Seq(BlockType) /\ Len(Done(fs, FALSE)) = Len(fs)
         /\ Alike(fs, Done(fs, FALSE), Len(fs))
    BY <1>19, DoneIs
  <1>21. /\ Stand(Done(fs, FALSE), r, Front(loops), c3)
         /\ Scoped(fs, r, c3) => Scoped(Done(fs, FALSE), r, c3)
    BY <1>17, <1>20, KeepFlags
  <1>22. code' = c3 /\ loc' = r
    BY <1>4, <1>5 DEF c1, c2, c3, r
  <1> QED
    BY <1>4, <1>7, <1>18, <1>21, <1>22 DEF Progress, Goes

(* The end of a branch of a match or of an if.                             *)
LEMMA ShutBranch ==
  ASSUME Now, Last(blocks).kind \in {"case", "else"}, NEW k, k = Dropped
  PROVE  /\ Stand(Front(blocks), k, loops, Append(code, CloseLine))
         /\ Scoped(blocks, loc, code) /\ Shallow =>
              Scoped(Front(blocks), k, Append(code, CloseLine))
         /\ Len(blocks) > 1 /\ Last(Front(blocks)).kind = "match"
         /\ Last(Front(blocks)) = blocks[Len(blocks) - 1]
  <1>1. /\ Last(blocks).kind # "match" /\ Last(blocks).kind \notin {"range", "each"}
        /\ Last(blocks).kind \notin Loops /\ Braces(Last(blocks))
    BY Zenon DEF Loops, Braces
  <1>2. /\ Dropped \in Seq(Local) /\ Last(blocks).nloc <= Len(Dropped)
        /\ Shallow => Dropped = SubSeq(loc, 1, Last(blocks).nloc)
    BY <1>1, NowIs, DroppedIs
  <1>3. Found(Last(blocks)) = Last(blocks).nloc
    BY <1>1 DEF Found
  <1>4. /\ k \in Seq(Local) /\ Found(Last(blocks)) <= Len(k)
        /\ Shallow => k = SubSeq(loc, 1, Found(Last(blocks)))
    BY <1>2, <1>3
  <1>5. /\ Last(blocks).kind \in Loops => Len(loops) = Len(loops) - 1
        /\ Last(blocks).kind \notin Loops => Len(loops) = Len(loops)
    BY <1>1
  <1>6. Braces(Last(blocks)) \/ Last(blocks).kind = "each"
    BY <1>1
  <1>7. /\ Stand(Front(blocks), k, loops, Append(code, CloseLine))
        /\ Scoped(blocks, loc, code) /\ k = SubSeq(loc, 1, Found(Last(blocks))) =>
             Scoped(Front(blocks), k, Append(code, CloseLine))
        /\ Len(blocks) > 1
    <2>1. k \in Seq(Local) /\ Found(Last(blocks)) <= Len(k)
      BY <1>4
    <2> QED
      BY <2>1, <1>5, <1>6, NowIs, KeepShut
  <1>8. Last(Front(blocks)).kind = "match" /\ Last(Front(blocks)) = blocks[Len(blocks) - 1]
    <2>1. /\ Len(Front(blocks)) = Len(blocks) - 1
          /\ Len(blocks) - 1 \in Nat \ {0} /\ Len(blocks) \in 1..Len(blocks)
          /\ \A n \in 1..Len(blocks) - 1 : Front(blocks)[n] = blocks[n] /\ n \in 1..Len(blocks)
          /\ Last(blocks) = blocks[Len(blocks)]
      BY <1>7, NowIs, Popped
    <2>2. Shape(blocks)
      BY NowIs DEF Stand
    <2>3. blocks[Len(blocks) - 1].kind = "match"
      BY <2>1, <2>2 DEF Shape
    <2> QED
      BY <2>1, <2>3 DEF Last
  <1>9. Scoped(blocks, loc, code) /\ Shallow =>
          Scoped(Front(blocks), k, Append(code, CloseLine))
    BY <1>4, <1>7
  <1> QED
    BY <1>7, <1>8, <1>9

(* Closing a case preserves it. *)
LEMMA ShutCaseKeeps ==
  ASSUME Now, NEW t \in Tokens, CloseCase(t)
  PROVE  Progress
  <1> DEFINE fs == Front(blocks)
             cs == [fs EXCEPT ![Len(fs)].all = @ /\ Last(blocks).returned]
             c1 == Append(code, CloseLine)
  <1>1. /\ Goes /\ UNCHANGED <<valued, loops>> /\ Last(blocks).kind = "case"
        /\ loc' = Dropped /\ code' = c1 /\ blocks' = cs
    BY NowIs, ShutCaseDoes
  <1>2. Last(blocks).kind \in {"case", "else"}
    BY <1>1
  <1>3. /\ Stand(fs, loc', loops, c1)
        /\ Scoped(blocks, loc, code) /\ Shallow => Scoped(fs, loc', c1)
    BY <1>1, <1>2, ShutBranch
  <1>4. Last(blocks) \in BlockType
    BY NowIs, StandIs
  <1> HIDE DEF fs, c1
  <1>5. /\ fs \in Seq(BlockType) /\ Len(fs) > 0 /\ Last(fs) \in BlockType
        /\ Last(fs) = fs[Len(fs)] /\ Len(fs) \in Nat
    BY <1>3, StandIs
  <1>6. cs \in Seq(BlockType) /\ Len(cs) = Len(fs) /\ Alike(fs, cs, Len(fs))
    <2> DEFINE r == [fs[Len(fs)] EXCEPT !.all = @ /\ Last(blocks).returned]
    <2>1. /\ r.kind = fs[Len(fs)].kind /\ r.nloc = fs[Len(fs)].nloc
          /\ r.before = fs[Len(fs)].before
          /\ r = [fs[Len(fs)] EXCEPT !.all = (fs[Len(fs)].all /\ Last(blocks).returned)]
      BY <1>5 DEF BlockType
    <2>2. (fs[Len(fs)].all /\ Last(blocks).returned) \in BOOLEAN
      OBVIOUS
    <2>3. r \in BlockType
      <3> DEFINE g == (fs[Len(fs)].all /\ Last(blocks).returned)
      <3>1. g \in BOOLEAN /\ r = [fs[Len(fs)] EXCEPT !.all = g] /\ fs[Len(fs)] \in BlockType
        BY <1>5, <2>1, <2>2
      <3> HIDE DEF g, r
      <3> QED
        BY <3>1, FlagIs
    <2>4. cs = [fs EXCEPT ![Len(fs)] = r]
      BY <1>5
    <2> HIDE DEF r
    <2>5. LET ds == [fs EXCEPT ![Len(fs)] = r]
          IN  /\ ds \in Seq(BlockType) /\ Len(ds) = Len(fs) /\ ds[Len(fs)] = r
              /\ \A b \in 1..Len(fs) - 1 : ds[b] = fs[b]
      BY <1>5, <2>3, TopIs
    <2>6. /\ cs \in Seq(BlockType) /\ Len(cs) = Len(fs) /\ cs[Len(fs)] = r
          /\ \A b \in 1..Len(fs) - 1 : cs[b] = fs[b]
      BY <2>4, <2>5
    <2> HIDE DEF cs
    <2>7. /\ r.kind = fs[Len(fs)].kind /\ r.nloc = fs[Len(fs)].nloc
          /\ r.before = fs[Len(fs)].before
      BY <2>1
    <2>8. \A b \in 1..Len(fs) : b \in 1..Len(fs) - 1 \/ b = Len(fs)
      BY <1>5
    <2> QED
      BY <2>6, <2>7, <2>8 DEF Alike
  <1> HIDE DEF cs
  <1>7. /\ Stand(cs, loc', loops, c1)
        /\ Scoped(fs, loc', c1) => Scoped(cs, loc', c1)
    BY <1>3, <1>6, KeepFlags
  <1> QED
    BY <1>1, <1>3, <1>7 DEF Progress, Goes

(* Closing the else of a match preserves it. *)
LEMMA ShutElseKeeps ==
  ASSUME Now, NEW t \in Tokens, CloseCaseElse(t)
  PROVE  Progress
  <1> DEFINE fs == Front(blocks)
             gs == Front(fs)
             c1 == Append(code, CloseLine)
             f == LET match == blocks[Len(blocks) - 1]
                  IN  match.hasCase /\ match.all /\ Last(blocks).returned
  <1>1. /\ Goes /\ UNCHANGED <<valued, loops>> /\ Last(blocks).kind = "else"
        /\ loc' = Dropped /\ code' = c1 /\ blocks' = Done(gs, f)
    BY NowIs, ShutElseDoes
  <1>2. Last(blocks).kind \in {"case", "else"} /\ f \in BOOLEAN
    BY <1>1
  <1>3. /\ Stand(fs, loc', loops, c1) /\ Last(fs).kind = "match"
        /\ Scoped(blocks, loc, code) /\ Shallow => Scoped(fs, loc', c1)
    BY <1>1, <1>2, ShutBranch
  <1> HIDE DEF fs, c1, f
  <1>4. /\ Stand(gs, loc', loops, c1)
        /\ Scoped(fs, loc', c1) => Scoped(gs, loc', c1)
    BY <1>3, MatchShut
  <1> HIDE DEF gs
  <1>5. gs \in Seq(BlockType) /\ Len(gs) > 0
    BY <1>4, StandIs
  <1>6. /\ Done(gs, f) \in Seq(BlockType) /\ Len(Done(gs, f)) = Len(gs)
        /\ Alike(gs, Done(gs, f), Len(gs))
    BY <1>2, <1>5, DoneIs
  <1>7. /\ Stand(Done(gs, f), loc', loops, c1)
        /\ Scoped(gs, loc', c1) => Scoped(Done(gs, f), loc', c1)
    BY <1>4, <1>6, KeepFlags
  <1> QED
    BY <1>1, <1>3, <1>4, <1>7 DEF Progress, Goes

(* Closing a match preserves it. *)
LEMMA ShutMatchKeeps ==
  ASSUME Now, NEW t \in Tokens, CloseMatch(t)
  PROVE  Progress
  <1> DEFINE fs == Front(blocks)
  <1>1. \/ Refused
        \/ /\ Goes /\ UNCHANGED <<valued, loc, loops, code>>
           /\ Last(blocks).kind = "match" /\ blocks' = Done(fs, FALSE)
    BY NowIs, ShutMatchDoes
  <1>2. CASE Refused
    BY <1>2, NowIs
  <1>3. CASE ~Refused
    <2>1. /\ Goes /\ UNCHANGED <<valued, loc, loops, code>>
          /\ Last(blocks).kind = "match" /\ blocks' = Done(fs, FALSE)
      BY <1>1, <1>3
    <2>2. /\ Stand(fs, loc, loops, code)
          /\ Scoped(blocks, loc, code) => Scoped(fs, loc, code)
      BY <2>1, NowIs, MatchShut
    <2> HIDE DEF fs
    <2>3. fs \in Seq(BlockType) /\ Len(fs) > 0
      BY <2>2, StandIs
    <2>4. /\ Done(fs, FALSE) \in Seq(BlockType) /\ Len(Done(fs, FALSE)) = Len(fs)
          /\ Alike(fs, Done(fs, FALSE), Len(fs))
      BY <2>3, DoneIs
    <2>5. /\ Stand(Done(fs, FALSE), loc, loops, code)
          /\ Scoped(fs, loc, code) => Scoped(Done(fs, FALSE), loc, code)
      BY <2>2, <2>4, KeepFlags
    <2> QED
      BY <2>1, <2>2, <2>5 DEF Progress, Goes
  <1> QED
    BY <1>2, <1>3

(* The end of the function: no loop is open.                               *)
Accepting ==
  /\ verdict' = "accepted" /\ UNCHANGED <<valued, code>>
  /\ blocks' = <<>> /\ loc' = <<>> /\ loops' = <<>>
  /\ Bal(code, Len(code)) = 0
  /\ valued => Last(blocks).returned
  /\ Len(blocks) = 1

(* Closing the function preserves it or accepts the body. *)
LEMMA ShutFunctionKeeps ==
  ASSUME Now, NEW t \in Tokens, CloseFunction(t)
  PROVE  Progress \/ Accepting
  <1>1. \/ Refused
        \/ /\ verdict' = "accepted" /\ UNCHANGED <<valued, loops, code>>
           /\ Last(blocks).kind = "fn" /\ (valued => Last(blocks).returned)
           /\ blocks' = <<>> /\ loc' = <<>>
    BY NowIs, ShutFunctionDoes
  <1>2. CASE Refused
    BY <1>2, NowIs
  <1>3. CASE ~Refused
    <2>1. /\ verdict' = "accepted" /\ UNCHANGED <<valued, loops, code>>
          /\ Last(blocks).kind = "fn" /\ (valued => Last(blocks).returned)
          /\ blocks' = <<>> /\ loc' = <<>>
      BY <1>1, <1>3
    <2>2. /\ blocks \in Seq(BlockType) /\ Len(blocks) > 0 /\ Len(blocks) \in Nat
          /\ Shape(blocks) /\ Last(blocks) = blocks[Len(blocks)]
          /\ Lev(blocks, Len(blocks)) = Bal(code, Len(code))
          /\ Len(loops) = LoopCount(blocks) /\ loops \in Seq(NameOrNone)
      BY NowIs DEF Stand, Last
    <2>3. Len(blocks) = 1
      <3>1. \A b \in 1..Len(blocks) : blocks[b].kind = "fn" <=> b = 1
        BY <2>2 DEF Shape
      <3>2. Len(blocks) \in 1..Len(blocks)
        BY <2>2
      <3> QED
        BY <3>1, <3>2, <2>1, <2>2
    <2>4. Lev(blocks, 1) = 0
      <3>1. 1 \in 1..Len(blocks) /\ blocks[1].kind \in {"fn", "match"}
        BY <2>1, <2>2, <2>3
      <3>2. Lev(blocks, 1) = Lev(blocks, 1 - 1) /\ Lev(blocks, 0) = 0
        BY <2>2, <3>1, LevSteps
      <3> QED
        BY <3>2
    <2>5. LoopCount(blocks) = 0
      <3>1. "fn" \notin Loops
        BY Zenon DEF Loops
      <3>2. LoopBlocks(blocks) \cap (1..Len(blocks)) = {}
        BY <2>1, <2>2, <2>3, <3>1 DEF LoopBlocks
      <3>3. Cardinality({}) = 0
        BY FS_EmptySet
      <3> QED
        BY <3>2, <3>3, Zenon DEF LoopCount, Tally
    <2>6. loops = <<>>
      <3> HIDE DEF NameOrNone
      <3> QED
        BY <2>2, <2>5
    <2> QED
      BY <2>1, <2>2, <2>3, <2>4, <2>6 DEF Accepting
  <1> QED
    BY <1>2, <1>3

(* Every statement preserves it or accepts the body. *)
LEMMA StepKeeps ==
  ASSUME Now, Parse
  PROVE  Progress \/ Accepting
  <1>1. PICK t \in Tokens :
           \/ Bind(t) \/ Use(t) \/ Set(t) \/ Del(t)
           \/ Break(t) \/ Continue(t) \/ Ret(t)
           \/ OpenIf(t) \/ NextBranch(t) \/ OpenWhile(t) \/ OpenLoop(t)
           \/ OpenRange(t) \/ OpenEach(t)
           \/ OpenMatch(t) \/ OpenCase(t) \/ OpenCaseElse(t)
           \/ CloseIf(t) \/ CloseLoop(t) \/ CloseRange(t)
           \/ CloseCase(t) \/ CloseCaseElse(t) \/ CloseMatch(t) \/ CloseFunction(t)
    BY DEF Parse
  <1>2. CASE Use(t) \/ Set(t) \/ Del(t) \/ Break(t)
    BY <1>2, FlatKeeps
  <1>3. CASE Bind(t)
    BY <1>3, BindKeeps
  <1>4. CASE Continue(t)
    BY <1>4, ContinueKeeps
  <1>5. CASE Ret(t)
    BY <1>5, RetKeeps
  <1>6. CASE OpenIf(t) \/ OpenWhile(t) \/ OpenLoop(t)
    BY <1>6, OpenKeeps
  <1>7. CASE NextBranch(t)
    BY <1>7, BranchKeeps
  <1>8. CASE OpenRange(t)
    BY <1>8, RangeKeeps
  <1>9. CASE OpenEach(t)
    BY <1>9, EachKeeps
  <1>10. CASE OpenMatch(t)
    BY <1>10, MatchKeeps
  <1>11. CASE OpenCase(t) \/ OpenCaseElse(t)
    BY <1>11, CaseKeeps
  <1>12. CASE CloseIf(t)
    BY <1>12, ShutIfKeeps
  <1>13. CASE CloseLoop(t)
    BY <1>13, ShutLoopKeeps
  <1>14. CASE CloseRange(t)
    BY <1>14, ShutRangeKeeps
  <1>15. CASE CloseCase(t)
    BY <1>15, ShutCaseKeeps
  <1>16. CASE CloseCaseElse(t)
    BY <1>16, ShutElseKeeps
  <1>17. CASE CloseMatch(t)
    BY <1>17, ShutMatchKeeps
  <1>18. CASE CloseFunction(t)
    BY <1>18, ShutFunctionKeeps
  <1> QED
    BY <1>1, <1>2, <1>3, <1>4, <1>5, <1>6, <1>7, <1>8, <1>9, <1>10, <1>11, <1>12,
       <1>13, <1>14, <1>15, <1>16, <1>17, <1>18

----------------------------------------------------------------------------
(***************************************************************************)
(* The reader's invariant.                                                 *)
(***************************************************************************)
Reading ==
  /\ Typed
  /\ verdict \in {"parse", "accepted", "rejected"}
  /\ read \in 0..MaxTokens
  /\ Len(loops) = LoopCount(blocks)
  /\ Len(blocks) <= read + 1
  /\ read + Len(blocks) <= MaxTokens + 2 \/ Len(blocks) <= 1
  /\ verdict = "parse" => Stand(blocks, loc, loops, code)

(* How many tokens a step reads, and how many blocks it opens.             *)
LEMMA StepReads ==
  ASSUME Parse
  PROVE  verdict = "parse" /\ read + Len(blocks) <= MaxTokens /\ read' = read + 1
  <1>1. PICK t \in Tokens :
           \/ Bind(t) \/ Use(t) \/ Set(t) \/ Del(t)
           \/ Break(t) \/ Continue(t) \/ Ret(t)
           \/ OpenIf(t) \/ NextBranch(t) \/ OpenWhile(t) \/ OpenLoop(t)
           \/ OpenRange(t) \/ OpenEach(t)
           \/ OpenMatch(t) \/ OpenCase(t) \/ OpenCaseElse(t)
           \/ CloseIf(t) \/ CloseLoop(t) \/ CloseRange(t)
           \/ CloseCase(t) \/ CloseCaseElse(t) \/ CloseMatch(t) \/ CloseFunction(t)
    BY DEF Parse
  <1>2. NextToken
    BY <1>1, Zenon DEF Bind, Use, Set, Del, Break, Continue, Ret, OpenIf, NextBranch,
       OpenWhile, OpenLoop, OpenRange, OpenEach, OpenMatch, OpenCase, OpenCaseElse,
       CloseIf, CloseLoop, CloseRange, CloseCase, CloseCaseElse, CloseMatch,
       CloseFunction, Closing, Statement
  <1> QED
    BY <1>2, Zenon DEF NextToken

(* It holds of the function's first block. *)
LEMMA FirstBlock ==
  ASSUME Init
  PROVE  Reading /\ Scoped(blocks, loc, code)
  <1> DEFINE b == Block("fn", 0, 0)
  <1>1. "fn" \in Kinds /\ 0 \in Nat /\ "fn" \notin Loops /\ "fn" \notin Plain
        /\ "fn" \notin {"range", "each", "case", "else"} /\ "fn" \in {"fn", "match"}
    BY Zenon DEF Kinds, Loops, Plain
  <1>2. b \in BlockType /\ b.kind = "fn" /\ b.nloc = 0 /\ b.before = 0
    BY <1>1, BlockIs
  <1>3. /\ valued \in BOOLEAN /\ blocks = <<b>> /\ loc = <<>> /\ loops = <<>>
        /\ code = <<>> /\ read = 0 /\ verdict = "parse"
    BY Zenon DEF Init
  <1> HIDE DEF b
  <1>4. blocks \in Seq(BlockType) /\ Len(blocks) = 1 /\ blocks[1] = b
    BY <1>2, <1>3
  <1>5. loc \in Seq(Local) /\ Len(loc) = 0
    <2> HIDE DEF Local
    <2> QED
      BY <1>3
  <1>6. loops \in Seq(NameOrNone) /\ Len(loops) = 0
    <2> HIDE DEF NameOrNone
    <2> QED
      BY <1>3
  <1>7. code \in Seq(Line) /\ Len(code) = 0
    <2> HIDE DEF Line
    <2> QED
      BY <1>3
  <1>8. LoopCount(blocks) = 0
    <2>1. LoopBlocks(blocks) \cap (1..Len(blocks)) = {}
      BY <1>1, <1>2, <1>4 DEF LoopBlocks
    <2>2. Cardinality({}) = 0
      BY FS_EmptySet
    <2> QED
      BY <2>1, <2>2, Zenon DEF LoopCount, Tally
  <1>9. Lev(blocks, 1) = 0
    <2>1. 1 \in 1..Len(blocks) /\ blocks[1].kind \in {"fn", "match"}
      BY <1>1, <1>2, <1>4
    <2>2. Lev(blocks, 1) = Lev(blocks, 1 - 1) /\ Lev(blocks, 0) = 0
      BY <2>1, <1>4, LevSteps
    <2> QED
      BY <2>2
  <1>10. Bal(code, Len(code)) = 0
    BY <1>7, BalSteps
  <1>11. Lev(blocks, Len(blocks)) = Bal(code, Len(code))
    BY <1>4, <1>9, <1>10
  <1>12. \A k \in 1..Len(blocks) : k = 1 /\ blocks[k] = b
    BY <1>4
  <1>13. Shape(blocks)
    BY <1>1, <1>2, <1>12 DEF Shape
  <1>14. Heights(blocks, Len(loc))
    <2>1. Found(b) = 0
      BY <1>1, <1>2 DEF Found
    <2> QED
      BY <2>1, <1>2, <1>5, <1>12 DEF Heights
  <1>15. Stand(blocks, loc, loops, code)
    BY <1>4, <1>5, <1>6, <1>7, <1>8, <1>11, <1>13, <1>14 DEF Stand
  <1>16. Scoped(blocks, loc, code)
    <2>1. Visible(code) = {}
      BY <1>7 DEF Visible
    <2>2. Agree(loc, code)
      BY <2>1, <1>5 DEF Agree
    <2>3. \A k \in 1..Len(blocks) : BlockCuts(blocks, k, loc, code)
      BY <1>1, <1>2, <1>12 DEF BlockCuts
    <2> QED
      BY <2>2, <2>3, <1>11 DEF Scoped
  <1>17. MaxTokens \in Nat
    BY StatementAssumption, Zenon
  <1>18. Typed /\ verdict \in {"parse", "accepted", "rejected"}
    BY <1>3, <1>4, <1>5, <1>6, <1>7 DEF Typed
  <1>19. /\ read \in 0..MaxTokens /\ Len(loops) = LoopCount(blocks)
         /\ Len(blocks) <= read + 1 /\ Len(blocks) <= 1
    BY <1>3, <1>4, <1>6, <1>8, <1>17
  <1> QED
    BY <1>15, <1>16, <1>18, <1>19 DEF Reading

(* The stack grows by a block at a time.                                   *)
Grows == Len(blocks') <= Len(blocks) + 1

(* A push adds one block. *)
LEMMA Longer ==
  ASSUME NEW bs \in Seq(BlockType), NEW b
  PROVE  Len(Append(bs, b)) <= Len(bs) + 1
  OBVIOUS

(* Done() keeps the number of blocks. *)
LEMMA DoneShort ==
  ASSUME NEW bs, NEW f, NEW n \in Nat, DOMAIN bs = 1..n
  PROVE  Len(Done(bs, f)) = n
  BY DEF Done

(* A statement opens at most one block. *)
LEMMA StepGrows ==
  ASSUME Now, Parse
  PROVE  Grows
  <1>1. PICK t \in Tokens :
           \/ Bind(t) \/ Use(t) \/ Set(t) \/ Del(t)
           \/ Break(t) \/ Continue(t) \/ Ret(t)
           \/ OpenIf(t) \/ NextBranch(t) \/ OpenWhile(t) \/ OpenLoop(t)
           \/ OpenRange(t) \/ OpenEach(t)
           \/ OpenMatch(t) \/ OpenCase(t) \/ OpenCaseElse(t)
           \/ CloseIf(t) \/ CloseLoop(t) \/ CloseRange(t)
           \/ CloseCase(t) \/ CloseCaseElse(t) \/ CloseMatch(t) \/ CloseFunction(t)
    BY DEF Parse
  <1>2. blocks \in Seq(BlockType) /\ Len(blocks) \in Nat /\ Len(blocks) > 0
        /\ DOMAIN blocks = 1..Len(blocks)
    BY NowIs
  <1>3. CASE blocks' = blocks
    BY <1>2, <1>3 DEF Grows
  <1>4. CASE \E b : blocks' = Append(blocks, b)
    BY <1>2, <1>4, Longer DEF Grows
  <1>5. CASE Ret(t) \/ NextBranch(t)
    <2>1. CASE NextBranch(t)
      <3>1. blocks' = blocks \/ \E r : blocks' = [blocks EXCEPT ![Len(blocks)] = r]
        BY <2>1, NowIs, BranchDoes
      <3> QED
        BY <3>1, <1>2 DEF Grows
    <2>2. CASE Ret(t)
      <3>1. blocks' = blocks \/ blocks' = Done(blocks, TRUE)
        BY <2>2, NowIs, RetDoes DEF Refused
      <3>2. Len(Done(blocks, TRUE)) = Len(blocks)
        BY <1>2, DoneShort
      <3> HIDE DEF Done
      <3>3. Len(blocks') = Len(blocks)
        BY <3>1, <3>2
      <3> QED
        BY <3>3, <1>2 DEF Grows
    <2> QED
      BY <1>5, <2>1, <2>2
  <1>6. CASE OpenCase(t) \/ OpenCaseElse(t)
    <2>1. PICK m, b : blocks' = Append(m, b) /\ DOMAIN m = DOMAIN blocks /\ m \in Seq(BlockType)
      <3> DEFINE M(f) == [blocks EXCEPT ![Len(blocks)] = f]
      <3>1. \A f \in BlockType : M(f) \in Seq(BlockType)
        BY <1>2, TopIs
      <3>2. Last(blocks) \in BlockType /\ Last(blocks) = blocks[Len(blocks)]
        BY NowIs, StandIs
      <3>3. CASE OpenCase(t)
        <4>1. blocks' = Append([blocks EXCEPT ![Len(blocks)].hasCase = TRUE],
                               Block("case", Len(loc), 0))
          BY <3>3, NowIs, CaseDoes
        <4>2. [blocks EXCEPT ![Len(blocks)].hasCase = TRUE]
                = M([Last(blocks) EXCEPT !.hasCase = TRUE])
          BY <3>2
        <4>3. [Last(blocks) EXCEPT !.hasCase = TRUE] \in BlockType
          BY <3>2, FlagIs
        <4>4. [blocks EXCEPT ![Len(blocks)].hasCase = TRUE] \in Seq(BlockType)
          <5> HIDE DEF M
          <5> QED
            BY <4>2, <4>3, <3>1
        <4>5. DOMAIN [blocks EXCEPT ![Len(blocks)].hasCase = TRUE] = DOMAIN blocks
          BY Zenon
        <4> QED
          BY <4>1, <4>4, <4>5, Zenon
      <3>4. CASE OpenCaseElse(t)
        <4>1. blocks' = Append([blocks EXCEPT ![Len(blocks)].hasElse = TRUE],
                               Block("else", Len(loc), 0))
          BY <3>4, NowIs, CaseElseDoes
        <4>2. [blocks EXCEPT ![Len(blocks)].hasElse = TRUE]
                = M([Last(blocks) EXCEPT !.hasElse = TRUE])
          BY <3>2
        <4>3. [Last(blocks) EXCEPT !.hasElse = TRUE] \in BlockType
          BY <3>2, FlagIs
        <4>4. [blocks EXCEPT ![Len(blocks)].hasElse = TRUE] \in Seq(BlockType)
          <5> HIDE DEF M
          <5> QED
            BY <4>2, <4>3, <3>1
        <4>5. DOMAIN [blocks EXCEPT ![Len(blocks)].hasElse = TRUE] = DOMAIN blocks
          BY Zenon
        <4> QED
          BY <4>1, <4>4, <4>5, Zenon
      <3> QED
        BY <1>6, <3>3, <3>4
    <2>2. Len(m) = Len(blocks)
      BY <1>2, <2>1
    <2> QED
      BY <2>1, <2>2, Longer DEF Grows
  <1>7. CASE CloseIf(t) \/ CloseLoop(t) \/ CloseRange(t) \/ CloseCase(t)
             \/ CloseCaseElse(t) \/ CloseMatch(t) \/ CloseFunction(t)
    <2> DEFINE n == Len(blocks)
    <2>1. n = 1 \/ n > 1
      BY <1>2
    <2>2. DOMAIN Front(blocks) = 1..n - 1 /\ DOMAIN Front(Front(blocks)) = 1..Len(Front(blocks)) - 1
      BY <1>2 DEF Front
    <2>3. Len(Front(blocks)) = n - 1 /\ n - 1 \in Nat
      BY <1>2 DEF Front
    <2>4. \A f : Len(Done(Front(blocks), f)) = n - 1
      BY <2>2, <2>3, DoneShort
    <2>5. \/ blocks' = blocks \/ blocks' = <<>>
          \/ \E f : blocks' = Done(Front(blocks), f)
          \/ CloseCase(t) \/ CloseCaseElse(t)
      BY <1>7, Zenon DEF CloseIf, CloseLoop, CloseRange, CloseMatch, CloseFunction, Reject
    <2>6. CASE CloseCase(t)
      <3> DEFINE fs == Front(blocks)
      <3>1. blocks' = [fs EXCEPT ![Len(fs)].all = @ /\ Last(blocks).returned]
        BY <2>6, NowIs, ShutCaseDoes
      <3>2. DOMAIN blocks' = DOMAIN fs
        BY <3>1, Zenon
      <3>3. DOMAIN blocks' = 1..n - 1
        BY <2>2, <3>2
      <3>4. Len(blocks') = n - 1
        BY <3>3, <2>3, <3>1
      <3> QED
        BY <3>4, <1>2 DEF Grows
    <2>7. CASE CloseCaseElse(t)
      <3>1. blocks' = Done(Front(Front(blocks)),
                           /\ blocks[Len(blocks) - 1].hasCase
                           /\ blocks[Len(blocks) - 1].all /\ Last(blocks).returned)
        BY <2>7, NowIs, ShutElseDoes
      <3>2. Len(blocks) > 1
        <4>1. Last(blocks).kind = "else"
          BY <2>7, NowIs, ShutElseDoes
        <4>2. Last(blocks).kind # "fn"
          BY <4>1
        <4> QED
          BY <4>2, NowIs, StandIs
      <3>3. Len(Front(blocks)) - 1 \in Nat
        BY <3>2, <2>3, <1>2
      <3>4. Len(blocks') = Len(Front(blocks)) - 1
        BY <3>1, <3>3, <2>2, DoneShort
      <3> QED
        BY <3>4, <2>3, <1>2 DEF Grows
    <2>8. CASE blocks' = <<>>
      BY <2>8, <1>2 DEF Grows
    <2>9. CASE \E f : blocks' = Done(Front(blocks), f)
      <3>1. PICK f : blocks' = Done(Front(blocks), f)
        BY <2>9
      <3>2. Len(blocks') = n - 1
        BY <3>1, <2>4
      <3> QED
        BY <3>2, <1>2 DEF Grows
    <2> QED
      BY <2>5, <2>6, <2>7, <2>8, <2>9, <1>3
  <1>8. \/ blocks' = blocks \/ (\E b : blocks' = Append(blocks, b))
        \/ Ret(t) \/ NextBranch(t) \/ OpenCase(t) \/ OpenCaseElse(t)
        \/ CloseIf(t) \/ CloseLoop(t) \/ CloseRange(t) \/ CloseCase(t)
        \/ CloseCaseElse(t) \/ CloseMatch(t) \/ CloseFunction(t)
    BY <1>1, Zenon DEF Bind, Use, Set, Del, Break, Continue, OpenIf, OpenWhile, OpenLoop,
       OpenRange, OpenEach, OpenMatch, Reject
  <1> QED
    BY <1>3, <1>4, <1>5, <1>6, <1>7, <1>8

(* A step of the reader keeps its invariant, and what is in scope.         *)
LEMMA ReadingKept ==
  ASSUME Reading, [Parse]_vars
  PROVE  /\ Reading'
         /\ (verdict = "parse" => Scoped(blocks, loc, code)) /\ Shallow =>
              (verdict' = "parse" => Scoped(blocks', loc', code'))
  <1>1. CASE UNCHANGED vars
    <2>1. /\ valued' = valued /\ blocks' = blocks /\ loc' = loc /\ loops' = loops
          /\ code' = code /\ read' = read /\ verdict' = verdict
      BY <1>1, Zenon DEF vars
    <2> QED
      BY <2>1 DEF Reading, Typed, Stand, Heights, Shape
  <1>2. CASE Parse
    <2>1. verdict = "parse" /\ read + Len(blocks) <= MaxTokens /\ read' = read + 1
      BY <1>2, StepReads
    <2>2. Now
      BY <2>1 DEF Reading, Now
    <2>3. (Progress \/ Accepting) /\ Grows
      BY <1>2, <2>2, StepKeeps, StepGrows
    <2>4. MaxTokens \in Nat /\ read \in Nat
      <3>1. MaxTokens \in Nat
        BY StatementAssumption, Zenon
      <3> QED
        BY <3>1 DEF Reading
    <2>5. blocks \in Seq(BlockType) /\ Len(blocks) \in Nat /\ Len(blocks) > 0
          /\ loops \in Seq(NameOrNone) /\ Len(loops) = LoopCount(blocks)
          /\ Len(blocks) <= read + 1
      BY <2>2, NowIs DEF Reading
    <2>6. CASE verdict' = "rejected" /\ UNCHANGED <<valued, blocks, loops, code>>
               /\ loc' \in Seq(Local)
      <3>1. Typed'
        BY <2>6, <2>2 DEF Now, Typed
      <3>2. /\ read' \in 0..MaxTokens /\ Len(blocks') <= read' + 1
            /\ read' + Len(blocks') <= MaxTokens + 2
        BY <2>6, <2>1, <2>4, <2>5
      <3>3. Len(loops') = LoopCount(blocks)'
        BY <2>6, <2>5 DEF LoopCount, LoopBlocks, Tally
      <3> QED
        BY <2>6, <3>1, <3>2, <3>3 DEF Reading
    <2>7. CASE /\ verdict' = "parse" /\ valued' = valued
               /\ Stand(blocks', loc', loops', code')
               /\ Scoped(blocks, loc, code) /\ Shallow => Scoped(blocks', loc', code')
      <3>1. /\ blocks' \in Seq(BlockType) /\ loc' \in Seq(Local)
            /\ loops' \in Seq(NameOrNone) /\ code' \in Seq(Line)
            /\ Len(loops') = LoopCount(blocks')
        BY <2>7 DEF Stand
      <3>2. Typed'
        BY <2>7, <3>1, <2>2 DEF Now, Typed
      <3>3. Len(blocks') <= Len(blocks) + 1 /\ Len(blocks') \in Nat
        BY <2>3, <3>1 DEF Grows
      <3>4. /\ read' \in 0..MaxTokens /\ Len(blocks') <= read' + 1
            /\ read' + Len(blocks') <= MaxTokens + 2
        BY <2>1, <2>4, <2>5, <3>3
      <3>5. Reading'
        BY <2>7, <3>1, <3>2, <3>4 DEF Reading
      <3> QED
        BY <2>1, <2>7, <3>5
    <2>8. CASE Accepting
      <3>1. /\ blocks' = <<>> /\ loc' = <<>> /\ loops' = <<>> /\ code' = code
            /\ valued' = valued /\ verdict' = "accepted"
        BY <2>8 DEF Accepting
      <3>2. /\ blocks' \in Seq(BlockType) /\ loc' \in Seq(Local)
            /\ loops' \in Seq(NameOrNone)
        <4> HIDE DEF BlockType, Local, NameOrNone
        <4> QED
          BY <3>1
      <3>3. Typed'
        BY <3>1, <3>2, <2>2 DEF Now, Typed
      <3>4. /\ Len(blocks') = 0 /\ Len(loops') = 0
        BY <3>1
      <3>5. LoopCount(blocks)' = 0
        <4>1. LoopBlocks(blocks') \cap (1..Len(blocks')) = {}
          BY <3>4
        <4>2. Cardinality({}) = 0
          BY FS_EmptySet
        <4> QED
          BY <4>1, <4>2, Zenon DEF LoopCount, Tally
      <3>6. /\ read' \in 0..MaxTokens /\ Len(blocks') <= read' + 1 /\ Len(blocks') <= 1
        BY <2>1, <2>4, <2>5, <3>4
      <3> QED
        BY <3>1, <3>3, <3>4, <3>5, <3>6 DEF Reading
    <2> QED
      BY <2>3, <2>6, <2>7, <2>8 DEF Progress
  <1> QED
    BY <1>1, <1>2

(* A set that is counted by an enumeration of it.                          *)
LEMMA Enumerated ==
  ASSUME NEW S, IsFiniteSet(S), NEW T, NEW f \in [S -> T],
         \A y \in T : \E x \in S : f[x] = y,
         \A x, y \in S : f[x] = f[y] => x = y
  PROVE  Cardinality(T) = Cardinality(S)
  <1>1. f \in Surjection(S, T) /\ f \in Injection(S, T)
    BY DEF Surjection, Injection, IsInjective
  <1> QED
    BY <1>1, FS_Surjection

(* The invariant of open scopes gives the property the runs check. *)
LEMMA ScopedAgrees ==
  ASSUME Typed, Scoped(blocks, loc, code)
  PROVE  ScopesAgree
  <1> DEFINE V == Visible(code)
             declared == {code[q].x : q \in V}
  <1>1. code \in Seq(Line) /\ loc \in Seq(Local) /\ Agree(loc, code)
    BY DEF Typed, Scoped
  <1>2. VisibleLines = V
    BY <1>1, VisibleIs
  <1>3. declared = {loc[k].name : k \in 1..Len(loc)}
    BY <1>1 DEF Agree
  <1>4. IsFiniteSet(V)
    <2>1. IsFiniteSet(1..Len(code))
      <3>1. Len(code) \in Int /\ 1 \in Int
        BY <1>1
      <3> QED
        BY <3>1, FS_Interval
    <2>2. V \subseteq 1..Len(code)
      BY DEF Visible
    <2> QED
      BY <2>1, <2>2, FS_Subset
  <1>5. Cardinality(declared) = Cardinality(V)
    <2> DEFINE f == [q \in V |-> code[q].x]
    <2>1. f \in [V -> declared]
      OBVIOUS
    <2>2. \A q \in V : f[q] = code[q].x
      OBVIOUS
    <2> HIDE DEF f, V
    <2>3. \A y \in declared : \E q \in V : f[q] = y
      BY <2>2
    <2>4. \A q, r \in V : f[q] = f[r] => q = r
      BY <2>2, <1>1 DEF Agree, V
    <2> HIDE DEF declared
    <2> QED
      BY <1>4, <2>1, <2>3, <2>4, Enumerated
  <1>6. Cardinality(declared) = Len(loc)
    <2> DEFINE f == [k \in 1..Len(loc) |-> loc[k].name]
    <2>1. Len(loc) \in Nat
      BY <1>1
    <2>2. IsFiniteSet(1..Len(loc)) /\ Cardinality(1..Len(loc)) = Len(loc)
      <3>1. Len(loc) \in Int /\ 1 \in Int
        BY <2>1
      <3>2. /\ IsFiniteSet(1..Len(loc))
            /\ Cardinality(1..Len(loc)) = IF 1 > Len(loc) THEN 0 ELSE Len(loc) - 1 + 1
        BY <3>1, FS_Interval
      <3> QED
        BY <2>1, <3>2
    <2>3. \A k \in 1..Len(loc) : f[k] = loc[k].name
      OBVIOUS
    <2>4. f \in [1..Len(loc) -> declared]
      BY <1>3
    <2> HIDE DEF f
    <2>5. \A y \in declared : \E k \in 1..Len(loc) : f[k] = y
      BY <1>3, <2>3
    <2>6. \A j, k \in 1..Len(loc) : f[j] = f[k] => j = k
      BY <2>3, <1>1 DEF Agree
    <2> HIDE DEF declared
    <2> QED
      BY <2>2, <2>4, <2>5, <2>6, Enumerated
  <1> QED
    BY <1>2, <1>3, <1>5, <1>6 DEF ScopesAgree

(* Bodies of few tokens nest less deep than the table of depths goes.      *)
LEMMA ShortIsShallow ==
  ASSUME Reading, MaxTokens + 3 <= SavedBlocks
  PROVE  Shallow
  <1>1. blocks \in Seq(BlockType) /\ Len(blocks) \in Nat /\ read \in Int
        /\ MaxTokens \in Nat /\ SavedBlocks \in Nat
    <2>1. MaxTokens \in Nat /\ SavedBlocks \in Nat
      BY StatementAssumption, Zenon
    <2> QED
      BY <2>1 DEF Reading, Typed
  <1>2. Len(blocks) <= read + 1
        /\ (read + Len(blocks) <= MaxTokens + 2 \/ Len(blocks) <= 1)
    BY DEF Reading
  <1>3. Len(blocks) + Len(blocks) <= MaxTokens + 3
    BY <1>1, <1>2
  <1> DEFINE A == {k \in 1..Len(blocks) : blocks[k].kind # "match"}
             B == {k \in 1..Len(blocks) : blocks[k].kind = "range"}
  <1>4. IsFiniteSet(1..Len(blocks)) /\ Cardinality(1..Len(blocks)) = Len(blocks)
    <2>1. Len(blocks) \in Int /\ 1 \in Int
      BY <1>1
    <2>2. /\ IsFiniteSet(1..Len(blocks))
          /\ Cardinality(1..Len(blocks)) =
               IF 1 > Len(blocks) THEN 0 ELSE Len(blocks) - 1 + 1
      BY <2>1, FS_Interval
    <2> QED
      BY <1>1, <2>2
  <1>5. A \in SUBSET (1..Len(blocks)) /\ B \in SUBSET (1..Len(blocks))
    OBVIOUS
  <1>6. Depth = Cardinality(A) + Cardinality(B)
    BY DEF Depth
  <1> HIDE DEF A, B
  <1>7. Cardinality(A) <= Len(blocks) /\ Cardinality(B) <= Len(blocks)
        /\ Cardinality(A) \in Nat /\ Cardinality(B) \in Nat
    <2>1. IsFiniteSet(A) /\ Cardinality(A) <= Cardinality(1..Len(blocks))
      BY <1>4, <1>5, FS_Subset
    <2>2. IsFiniteSet(B) /\ Cardinality(B) <= Cardinality(1..Len(blocks))
      BY <1>4, <1>5, FS_Subset
    <2>3. Cardinality(A) \in Nat /\ Cardinality(B) \in Nat
      BY <2>1, <2>2, FS_CardinalityType
    <2> QED
      BY <1>4, <2>1, <2>2, <2>3
  <1>8. Depth <= SavedBlocks
    BY <1>1, <1>3, <1>6, <1>7
  <1> QED
    BY <1>8 DEF Shallow

----------------------------------------------------------------------------
(***************************************************************************)
(* What holds of the transpiler's pass over a body.                        *)
(***************************************************************************)

(* The reader's invariant: the stack of blocks is well formed, the heights *)
(* of the table of names grow with it, and as many braces are open in the  *)
(* emitted text as the blocks stand for.                                   *)
THEOREM ReadingAlways == Spec => []Reading
  <1>1. Init => Reading
    BY FirstBlock
  <1>2. Reading /\ [Parse]_vars => Reading'
    BY ReadingKept
  <1> QED
    BY <1>1, <1>2, PTL DEF Spec

(* The values of the reader's variables keep their types, and there is an  *)
(* entry of loop_kind for every loop that is open.                         *)
THEOREM TypeCorrect == Spec => []TypeOK
  <1>1. Reading => TypeOK
    <2> SUFFICES ASSUME Reading PROVE TypeOK
      OBVIOUS
    <2>1. Typed /\ verdict \in {"parse", "accepted", "rejected"} /\ read \in 0..MaxTokens
          /\ Len(loops) = LoopCount(blocks)
      BY DEF Reading
    <2>2. valued \in BOOLEAN /\ loc \in Seq([name : Name, freed : BOOLEAN])
          /\ loops \in Seq(Name \cup {""}) /\ blocks \in Seq(BlockType)
      BY <2>1, Zenon DEF Typed, Local, NameOrNone
    <2>3. LoopCount(blocks) = Cardinality({k \in 1..Len(blocks) : blocks[k].kind \in Loops})
      <3>1. LoopBlocks(blocks) \cap (1..Len(blocks)) = LoopBlocks(blocks)
        BY DEF LoopBlocks
      <3> QED
        BY <3>1, Zenon DEF LoopCount, Tally, LoopBlocks
    <2>4. verdict = "parse" => blocks # <<>>
      <3>1. verdict = "parse" => Len(blocks) > 0 /\ Len(blocks) \in Nat
        BY DEF Reading, Stand
      <3> QED
        BY <3>1
    <2>5. /\ valued \in BOOLEAN /\ verdict \in {"parse", "accepted", "rejected"}
          /\ loc \in Seq([name : Name, freed : BOOLEAN])
          /\ read \in 0..MaxTokens
          /\ Len(loops) = Cardinality({k \in 1..Len(blocks) : blocks[k].kind \in Loops})
      BY <2>1, <2>2, <2>3
    <2> QED
      BY <2>2, <2>4, <2>5, Zenon DEF TypeOK
  <1> QED
    BY <1>1, ReadingAlways, PTL

(* While no more blocks are open than close_block() keeps the heights of,  *)
(* the names the transpiler resolves are those the emitted text declares   *)
(* at that point, each of them once.                                       *)
THEOREM ScopesHold == Spec /\ []Shallow => []ScopesAgree
  <1> DEFINE Inv == Reading /\ (verdict = "parse" => Scoped(blocks, loc, code))
  <1>1. Init => Inv
    BY FirstBlock
  <1>2. Inv /\ Shallow /\ [Parse]_vars => Inv'
    BY ReadingKept
  <1>3. Inv => ScopesAgree
    <2>1. Inv /\ verdict = "parse" => ScopesAgree
      BY ScopedAgrees DEF Reading
    <2>2. verdict # "parse" => ScopesAgree
      BY DEF ScopesAgree
    <2> QED
      BY <2>1, <2>2
  <1> HIDE DEF Inv
  <1> QED
    BY <1>1, <1>2, <1>3, PTL DEF Spec

(***************************************************************************)
(* Where control may go in an emitted text.  L holds the lines that may be *)
(* reached, P those at which an else may have to be passed over: both are  *)
(* closed under what the back ends do with a line.                         *)
(***************************************************************************)
Branches == {"if", "elseif", "else"}
Jumps == {"return", "close", "break", "continue"}

(* Line q opens a block of the text that is not closed yet, the d-th.      *)
Open(c, q, d) ==
  q \in 1..Len(c) /\ c[q].op \in Openings /\ Held(c, q) /\ Bal(c, q) = d

(* The block that line q opens is closed by line m.                        *)
Pair(c, q, m) ==
  /\ q \in 1..Len(c) /\ m \in 1..Len(c) /\ q < m
  /\ c[q].op \in Openings /\ c[m].op = "close"
  /\ Bal(c, m) = Bal(c, q) - 1
  /\ \A r \in q..m - 1 : Bal(c, r) >= Bal(c, q)

Follows(c, q, L) == q \in L /\ c[q].op \notin Jumps => q + 1 \in L

(* A block opened by the operation o on line q and closed by line m.       *)
Joins(o, q, m, L, P) ==
  /\ o \in {"if", "elseif"} /\ q \in L => m + 1 \in L
  /\ o \in Loops /\ q \in L => m \in L /\ m + 1 \in L
  /\ o \in Branches /\ m \in L => m + 1 \in P
  /\ o \in {"else", "elseif"} /\ q \in P => m + 1 \in P
  /\ o = "scope" /\ m \in L => m + 1 \in L

Paths(c, L, P) ==
  /\ 1 \in L /\ L \subseteq 1..Len(c) + 1 /\ P \subseteq L
  /\ \A q \in 1..Len(c) : Follows(c, q, L)
  /\ \A q, m \in 1..Len(c) : Pair(c, q, m) => Joins(c[q].op, q, m, L, P)

(* An appended line opens or closes no block of the lines before it.       *)
LEMMA PairSame ==
  ASSUME NEW c \in Seq(Line), NEW i \in Line, NEW q \in 1..Len(c), NEW m \in 1..Len(c),
         Pair(Append(c, i), q, m)
  PROVE  Pair(c, q, m)
  <1> DEFINE d == Append(c, i)
             n == Len(c)
  <1>1. /\ d \in Seq(Line) /\ n \in Nat /\ \A k \in 1..n : d[k] = c[k]
    BY SameAppend DEF Same
  <1>2. \A k \in 0..n : Bal(d, k) = Bal(c, k)
    BY BalAppend
  <1>3. /\ q < m /\ d[q].op \in Openings /\ d[m].op = "close" /\ Bal(d, m) = Bal(d, q) - 1
        /\ \A r \in q..m - 1 : Bal(d, r) >= Bal(d, q)
    BY DEF Pair
  <1> HIDE DEF d
  <1>4. \A r \in q..m - 1 : r \in 0..n
    BY <1>1 DEF n
  <1>5. q \in 0..n /\ m \in 0..n
    OBVIOUS
  <1> HIDE DEF n
  <1>6. \A r \in q..m - 1 : Bal(c, r) >= Bal(c, q)
    BY <1>2, <1>3, <1>4, <1>5
  <1> QED
    BY <1>1, <1>2, <1>3, <1>5, <1>6 DEF Pair, n

(* A closing line closes the innermost block.                              *)
LEMMA PairNew ==
  ASSUME NEW c \in Seq(Line), NEW i \in Line, NEW q \in 1..Len(c) + 1,
         Pair(Append(c, i), q, Len(c) + 1)
  PROVE  i.op = "close" /\ Open(c, q, Bal(c, Len(c)))
  <1> DEFINE d == Append(c, i)
             n == Len(c)
  <1>1. /\ d \in Seq(Line) /\ n \in Nat /\ \A k \in 1..n : d[k] = c[k]
        /\ d[n + 1] = i
    BY SameAppend DEF Same
  <1>2. /\ \A k \in 0..n : Bal(d, k) = Bal(c, k)
        /\ i.op = "close" => Bal(d, n + 1) = Bal(c, n) - 1
        /\ Bal(c, n) \in Int
    BY BalAppend
  <1>3. /\ q < n + 1 /\ d[q].op \in Openings /\ d[n + 1].op = "close"
        /\ Bal(d, n + 1) = Bal(d, q) - 1
        /\ \A r \in q..(n + 1) - 1 : Bal(d, r) >= Bal(d, q)
    BY DEF Pair
  <1> HIDE DEF d
  <1>4. q \in 1..n /\ q \in 0..n /\ q \in Nat /\ \A r \in q..n : r \in 0..n /\ r \in q..(n + 1) - 1
    BY <1>1, <1>3 DEF n
  <1>5. Bal(c, q) \in Int
    BY <1>4, BalSteps
  <1> HIDE DEF n
  <1>6. Bal(c, q) = Bal(c, n)
    BY <1>1, <1>2, <1>3, <1>4, <1>5
  <1>7. \A r \in q..n : Bal(c, r) >= Bal(c, q)
    BY <1>2, <1>3, <1>4
  <1> QED
    BY <1>1, <1>3, <1>4, <1>6, <1>7 DEF Open, Held, n

(* Which blocks are open after an appended line.                           *)
LEMMA OpenSame ==
  ASSUME NEW c \in Seq(Line), NEW i \in Line
  PROVE  /\ \A q \in 1..Len(c) : \A d : Open(Append(c, i), q, d) => Open(c, q, d)
         /\ \A d : Open(Append(c, i), Len(c) + 1, d) =>
                     i.op \in Openings /\ d = Bal(c, Len(c)) + 1
         /\ \A q, d : Open(Append(c, i), q, d) => q \in 1..Len(c) \/ q = Len(c) + 1
         /\ \A q, d : Open(c, q, d) => d <= Bal(c, Len(c))
  <1> DEFINE e == Append(c, i)
             n == Len(c)
  <1>1. /\ e \in Seq(Line) /\ n \in Nat /\ Len(e) = n + 1 /\ e[n + 1] = i
        /\ \A k \in 1..n : e[k] = c[k]
    BY SameAppend DEF Same
  <1>2. /\ \A k \in 0..n : Bal(e, k) = Bal(c, k)
        /\ i.op \in Openings => Bal(e, n + 1) = Bal(c, n) + 1
    BY BalAppend
  <1>3. \A q \in 1..n : (Held(e, q) => Held(c, q)) /\ (Held(c, q) => Bal(c, q) <= Bal(c, n))
    BY HeldAppend
  <1> HIDE DEF e, n
  <1>4. \A q \in 1..n : q \in 0..n
    BY <1>1
  <1>5. \A q \in 1..n + 1 : q \in 1..n \/ q = n + 1
    BY <1>1
  <1> QED
    BY <1>1, <1>2, <1>3, <1>4, <1>5 DEF Open, e, n

(* A line that closes nothing leads on to the next one.                    *)
LEMMA PathsLine ==
  ASSUME NEW c \in Seq(Line), NEW L, NEW P, Paths(c, L, P), NEW i \in Line,
         i.op # "close", NEW S \in SUBSET {Len(c) + 2},
         Len(c) + 1 \in L /\ i.op \notin Jumps => Len(c) + 2 \in S
  PROVE  Paths(Append(c, i), L \cup S, P)
  <1> DEFINE d == Append(c, i)
             n == Len(c)
             K == L \cup S
  <1>1. /\ d \in Seq(Line) /\ Len(d) = n + 1 /\ n \in Nat /\ d[n + 1] = i
        /\ \A k \in 1..n : d[k] = c[k]
    BY SameAppend DEF Same
  <1>2. /\ 1 \in L /\ L \subseteq 1..n + 1 /\ P \subseteq L
        /\ \A q \in 1..n : Follows(c, q, L)
        /\ \A q, m \in 1..n : Pair(c, q, m) => Joins(c[q].op, q, m, L, P)
    BY DEF Paths
  <1>3. \A q, m \in 1..n : Pair(d, q, m) => Pair(c, q, m)
    BY PairSame
  <1>4. \A q \in 1..n + 1 : ~Pair(d, q, n + 1)
    BY PairNew
  <1>5. \A m \in 1..n + 1 : ~Pair(d, n + 1, m)
    BY <1>1 DEF Pair
  <1> HIDE DEF d
  <1>6. 1 \in K /\ K \subseteq 1..Len(d) + 1 /\ P \subseteq K
    BY <1>1, <1>2
  <1>7. ASSUME NEW q \in 1..Len(d) PROVE Follows(d, q, K)
    <2>1. CASE q \in 1..n
      BY <2>1, <1>1, <1>2 DEF Follows
    <2>2. CASE q = n + 1
      BY <2>2, <1>1 DEF Follows
    <2> QED
      BY <2>1, <2>2, <1>1
  <1>8. ASSUME NEW q \in 1..Len(d), NEW m \in 1..Len(d), Pair(d, q, m)
        PROVE  Joins(d[q].op, q, m, K, P)
    <2>1. q \in 1..n /\ m \in 1..n
      BY <1>1, <1>4, <1>5, <1>8
    <2>2. Joins(c[q].op, q, m, L, P)
      BY <2>1, <1>2, <1>3, <1>8
    <2>3. q \in K <=> q \in L
      BY <2>1, <1>1
    <2>4. m \in K <=> m \in L
      BY <2>1, <1>1
    <2>5. L \subseteq K /\ d[q].op = c[q].op
      BY <2>1, <1>1
    <2> HIDE DEF K
    <2> QED
      BY <2>2, <2>3, <2>4, <2>5 DEF Joins
  <1> QED
    BY <1>6, <1>7, <1>8 DEF Paths, d

(* A closing line joins what the innermost block asks for.                 *)
LEMMA PathsClose ==
  ASSUME NEW c \in Seq(Line), NEW L, NEW P, Paths(c, L, P), NEW i \in Line,
         i.op = "close", NEW S \in SUBSET {Len(c) + 1, Len(c) + 2},
         NEW T \in SUBSET {Len(c) + 2}, T \subseteq S,
         \A q \in 1..Len(c) : Open(c, q, Bal(c, Len(c))) =>
           Joins(c[q].op, q, Len(c) + 1, L \cup S, P \cup T)
  PROVE  Paths(Append(c, i), L \cup S, P \cup T)
  <1> DEFINE d == Append(c, i)
             n == Len(c)
             K == L \cup S
             R == P \cup T
  <1>1. /\ d \in Seq(Line) /\ Len(d) = n + 1 /\ n \in Nat /\ d[n + 1] = i
        /\ \A k \in 1..n : d[k] = c[k]
    BY SameAppend DEF Same
  <1>2. /\ 1 \in L /\ L \subseteq 1..n + 1 /\ P \subseteq L
        /\ \A q \in 1..n : Follows(c, q, L)
        /\ \A q, m \in 1..n : Pair(c, q, m) => Joins(c[q].op, q, m, L, P)
    BY DEF Paths
  <1>3. \A q, m \in 1..n : Pair(d, q, m) => Pair(c, q, m)
    BY PairSame
  <1>4. \A q \in 1..n : Pair(d, q, n + 1) => Open(c, q, Bal(c, n))
    BY PairNew
  <1>5. \A m \in 1..n + 1 : ~Pair(d, n + 1, m)
    BY <1>1 DEF Pair
  <1> HIDE DEF d
  <1>6. \A q \in 1..Len(d) : q \in 1..n \/ q = n + 1
    BY <1>1
  <1>7. 1 \in K /\ K \subseteq 1..Len(d) + 1 /\ R \subseteq K
    BY <1>1, <1>2
  <1>8. ASSUME NEW q \in 1..Len(d) PROVE Follows(d, q, K)
    <2>1. CASE q \in 1..n
      BY <2>1, <1>1, <1>2 DEF Follows
    <2>2. CASE q = n + 1
      BY <2>2, <1>1 DEF Follows, Jumps
    <2> QED
      BY <2>1, <2>2, <1>6
  <1>9. ASSUME NEW q \in 1..Len(d), NEW m \in 1..Len(d), Pair(d, q, m)
        PROVE  Joins(d[q].op, q, m, K, R)
    <2>0. q \in 1..n /\ d[q].op = c[q].op
      BY <1>1, <1>5, <1>9
    <2>1. CASE m \in 1..n
      <3>1. Joins(c[q].op, q, m, L, P)
        BY <2>0, <2>1, <1>2, <1>3, <1>9
      <3>2. q \in K => q \in L
        <4>1. q < m /\ m < n + 1
          BY <1>1, <1>9, <2>1 DEF Pair
        <4> QED
          BY <4>1, <2>0, <1>1
      <3>3. m \in K => m \in L
        BY <2>1, <1>1
      <3>4. q \in R => q \in P
        BY <2>0, <1>1
      <3>5. L \subseteq K /\ P \subseteq R
        OBVIOUS
      <3> HIDE DEF K, R
      <3> QED
        BY <2>0, <3>1, <3>2, <3>3, <3>4, <3>5 DEF Joins
    <2>2. CASE m = n + 1
      BY <2>0, <2>2, <1>4, <1>9
    <2> QED
      BY <2>1, <2>2, <1>6
  <1> QED
    BY <1>7, <1>8, <1>9 DEF Paths, d

----------------------------------------------------------------------------
(***************************************************************************)
(* What the transpiler's blocks say of the lines of a text.                *)
(***************************************************************************)

(* None of the first n blocks has returned.                                *)
Live(bs, n) == \A b \in 1..n : ~bs[b].returned

(* Whether all earlier branches have returned of the chain, or match, that *)
(* the k-th block is a branch of.                                          *)
Owing(bs, k) == IF bs[k].kind = "if" THEN bs[k].all ELSE k > 1 /\ bs[k - 1].all

(* The line that opens a block.                                            *)
IsHead(o, b) ==
  /\ b.kind = "if" => IF b.hasElse THEN o = "else" ELSE o \in {"if", "elseif"}
  /\ b.kind = "case" => o \in {"if", "elseif"}
  /\ b.kind = "else" => o = "else"
  /\ b.kind \in Loops => o = b.kind

(* The k-th block and the lines that opened it: a line that may be reached *)
(* follows no return, and none is passed over as an else once all branches *)
(* before it have returned.                                                *)
HeadOf(bs, k, c, L, P) ==
  \A q \in 1..Len(c) :
    /\ Open(c, q, Lev(bs, k)) /\ bs[k].kind \notin {"fn", "match"} =>
         /\ IsHead(c[q].op, bs[k])
         /\ q \in L => Live(bs, k - 1)
         /\ q \in P /\ c[q].op \in {"else", "elseif"} => ~Owing(bs, k)
    /\ Open(c, q, Lev(bs, k) - 1) /\ bs[k].kind = "range" => c[q].op = "scope"

(* The blocks of cs are those of bs, but for what the last one has of its  *)
(* own.                                                                    *)
Kept(bs, cs) ==
  /\ Len(cs) <= Len(bs)
  /\ \A k \in 1..Len(cs) :
       /\ cs[k].kind = bs[k].kind
       /\ k < Len(cs) => cs[k].returned = bs[k].returned /\ cs[k].all = bs[k].all
       /\ cs[k].kind # "match" =>
            cs[k].hasElse = bs[k].hasElse /\ cs[k].all = bs[k].all

(* The lines that control may reach of the text c with the blocks bs open. *)
(* An else that comes next may have to be passed over unless A.            *)
Flow(bs, c, L, P, A) ==
  /\ Paths(c, L, P)
  /\ Len(c) + 1 \in L => Live(bs, Len(bs))
  /\ Len(c) + 1 \in P => ~A
  /\ \A k \in 1..Len(bs) : HeadOf(bs, k, c, L, P)

(* Blocks that are left alone keep their heads.                            *)
LEMMA HeadsKept ==
  ASSUME NEW bs \in Seq(BlockType), NEW cs \in Seq(BlockType), Kept(bs, cs),
         NEW c, NEW L, NEW P, \A k \in 1..Len(bs) : HeadOf(bs, k, c, L, P)
  PROVE  \A k \in 1..Len(cs) : HeadOf(cs, k, c, L, P)
  <1> SUFFICES ASSUME NEW k \in 1..Len(cs) PROVE HeadOf(cs, k, c, L, P)
    OBVIOUS
  <1>1. k \in 1..Len(bs) /\ Len(cs) \in Nat /\ Len(bs) \in Nat /\ Len(cs) <= Len(bs)
    BY DEF Kept
  <1>2. /\ cs[k].kind = bs[k].kind
        /\ cs[k].kind # "match" => cs[k].hasElse = bs[k].hasElse /\ cs[k].all = bs[k].all
    BY DEF Kept
  <1>3. Lev(cs, k) = Lev(bs, k)
    <2>1. \A j \in 1..Len(cs) : cs[j].kind = bs[j].kind
      BY DEF Kept
    <2>2. Len(cs) <= Len(cs) /\ k \in 0..Len(cs)
      BY <1>1
    <2>3. \A b \in 0..Len(cs) : Lev(cs, b) = Lev(bs, b)
      BY <2>1, <2>2, <1>1, LevSame
    <2> QED
      BY <2>2, <2>3
  <1>4. Live(bs, k - 1) => Live(cs, k - 1)
    <2>1. \A b \in 1..k - 1 : b \in 1..Len(cs) /\ b < Len(cs)
      BY <1>1
    <2> QED
      BY <2>1 DEF Live, Kept
  <1>5. cs[k].kind # "match" => (Owing(cs, k) <=> Owing(bs, k))
    <2>1. k = 1 \/ (k - 1 \in 1..Len(cs) /\ k - 1 < Len(cs))
      BY <1>1
    <2>2. k = 1 \/ cs[k - 1].all = bs[k - 1].all
      BY <2>1 DEF Kept
    <2> QED
      BY <2>2, <1>1, <1>2 DEF Owing
  <1>6. cs[k].kind # "match" => \A o : IsHead(o, bs[k]) => IsHead(o, cs[k])
    BY <1>2, Zenon DEF IsHead
  <1>7. \A q \in 1..Len(c) : Open(c, q, Lev(bs, k)) /\ cs[k].kind \notin {"fn", "match"} =>
          /\ IsHead(c[q].op, cs[k])
          /\ q \in L => Live(cs, k - 1)
          /\ q \in P /\ c[q].op \in {"else", "elseif"} => ~Owing(cs, k)
    BY <1>1, <1>2, <1>4, <1>5, <1>6, Zenon DEF HeadOf
  <1>8. \A q \in 1..Len(c) : Open(c, q, Lev(bs, k) - 1) /\ cs[k].kind = "range" =>
          c[q].op = "scope"
    BY <1>1, <1>2, Zenon DEF HeadOf
  <1> QED
    BY <1>3, <1>7, <1>8, Zenon DEF HeadOf

(* Heads stay heads when a line is appended that opens none of their       *)
(* blocks.                                                                 *)
LEMMA HeadsAppend ==
  ASSUME NEW bs \in Seq(BlockType), NEW c \in Seq(Line), NEW i \in Line,
         NEW L, NEW P, \A k \in 1..Len(bs) : HeadOf(bs, k, c, L, P),
         NEW K, NEW R, \A q \in 1..Len(c) : (q \in K => q \in L) /\ (q \in R => q \in P),
         i.op \notin Openings \/ Lev(bs, Len(bs)) <= Bal(c, Len(c))
  PROVE  \A k \in 1..Len(bs) : HeadOf(bs, k, Append(c, i), K, R)
  <1> SUFFICES ASSUME NEW k \in 1..Len(bs) PROVE HeadOf(bs, k, Append(c, i), K, R)
    OBVIOUS
  <1> DEFINE e == Append(c, i)
             n == Len(c)
  <1>1. /\ \A q \in 1..n : \A d : Open(e, q, d) => Open(c, q, d)
        /\ \A d : Open(e, n + 1, d) => i.op \in Openings /\ d = Bal(c, n) + 1
        /\ Len(e) = n + 1 /\ n \in Nat /\ \A q \in 1..n : e[q] = c[q]
    BY OpenSame, SameAppend DEF Same
  <1>2. \A q \in 1..Len(e) : q \in 1..n \/ q = n + 1
    BY <1>1
  <1>3. ~Open(e, n + 1, Lev(bs, k)) /\ ~Open(e, n + 1, Lev(bs, k) - 1)
    <2>1. Lev(bs, k) <= Lev(bs, Len(bs))
      BY LevTop
    <2>2. Lev(bs, k) \in Nat /\ Lev(bs, Len(bs)) \in Nat
      <3>1. k \in Nat /\ Len(bs) \in Nat
        OBVIOUS
      <3> QED
        BY <3>1, LevSteps
    <2>3. Bal(c, n) \in Int
      BY BalAppend
    <2> HIDE DEF e, n
    <2>4. i.op \notin Openings \/ Lev(bs, Len(bs)) <= Bal(c, n)
      BY DEF n
    <2> QED
      BY <1>1, <2>1, <2>2, <2>3, <2>4
  <1>4. HeadOf(bs, k, c, L, P)
    OBVIOUS
  <1> HIDE DEF e
  <1>5. \A q \in 1..n : (q \in K => q \in L) /\ (q \in R => q \in P)
    OBVIOUS
  <1>6. ASSUME NEW q \in 1..Len(e), Open(e, q, Lev(bs, k)), bs[k].kind \notin {"fn", "match"}
        PROVE  /\ IsHead(e[q].op, bs[k])
               /\ q \in K => Live(bs, k - 1)
               /\ q \in R /\ e[q].op \in {"else", "elseif"} => ~Owing(bs, k)
    <2>1. q \in 1..n
      BY <1>2, <1>3, <1>6
    <2>2. Open(c, q, Lev(bs, k)) /\ e[q] = c[q]
      BY <2>1, <1>1, <1>6
    <2> HIDE DEF n
    <2>3. q \in 1..Len(c)
      BY <2>1 DEF n
    <2> QED
      BY <2>1, <2>2, <2>3, <1>4, <1>5, <1>6, Zenon DEF HeadOf
  <1>7. ASSUME NEW q \in 1..Len(e), Open(e, q, Lev(bs, k) - 1), bs[k].kind = "range"
        PROVE  e[q].op = "scope"
    <2>1. q \in 1..n
      BY <1>2, <1>3, <1>7
    <2>2. Open(c, q, Lev(bs, k) - 1) /\ e[q] = c[q]
      BY <2>1, <1>1, <1>7
    <2>3. q \in 1..Len(c)
      BY <2>1 DEF n
    <2> QED
      BY <2>2, <2>3, <1>4, <1>7, Zenon DEF HeadOf
  <1>8. HeadOf(bs, k, e, K, R)
    BY <1>6, <1>7, Zenon DEF HeadOf
  <1> QED
    BY <1>8 DEF e

(* The blocks change and no line is emitted.                               *)
LEMMA FlowDrop ==
  ASSUME NEW bs \in Seq(BlockType), NEW cs \in Seq(BlockType), Kept(bs, cs),
         Live(bs, Len(bs)) => Live(cs, Len(cs)),
         NEW c, NEW L, NEW P, NEW A, Flow(bs, c, L, P, A)
  PROVE  Flow(cs, c, L, P, A)
  <1>1. \A k \in 1..Len(bs) : HeadOf(bs, k, c, L, P)
    BY DEF Flow
  <1>2. \A k \in 1..Len(cs) : HeadOf(cs, k, c, L, P)
    BY <1>1, HeadsKept
  <1> QED
    BY <1>2 DEF Flow

(* A line that neither opens nor closes a block.                           *)
LEMMA FlowLine ==
  ASSUME NEW bs \in Seq(BlockType), NEW cs \in Seq(BlockType), Kept(bs, cs),
         NEW c \in Seq(Line), NEW L, NEW P, NEW A, Flow(bs, c, L, P, A),
         NEW i \in Line, i.op \notin Openings, i.op # "close",
         i.op \notin Jumps /\ Live(bs, Len(bs)) => Live(cs, Len(cs))
  PROVE  \E K : Flow(cs, Append(c, i), K, P, TRUE)
  <1> DEFINE n == Len(c)
             S == {q \in {n + 2} : Live(cs, Len(cs))}
             K == L \cup S
             e == Append(c, i)
  <1>1. /\ Paths(c, L, P) /\ (n + 1 \in L => Live(bs, Len(bs)))
        /\ \A k \in 1..Len(bs) : HeadOf(bs, k, c, L, P)
        /\ L \subseteq 1..n + 1 /\ P \subseteq L
    BY DEF Flow, Paths
  <1>2. n \in Nat /\ Len(e) = n + 1 /\ e \in Seq(Line)
    BY SameAppend
  <1>3. Paths(e, K, P)
    <2>1. S \in SUBSET {Len(c) + 2}
      OBVIOUS
    <2>2. Len(c) + 1 \in L /\ i.op \notin Jumps => Len(c) + 2 \in S
      BY <1>1
    <2> HIDE DEF S
    <2> QED
      BY <2>1, <2>2, <1>1, PathsLine
  <1>4. \A k \in 1..Len(cs) : HeadOf(cs, k, c, L, P)
    BY <1>1, HeadsKept
  <1>5. \A q \in 1..Len(c) : (q \in K => q \in L) /\ (q \in P => q \in P)
    BY <1>2
  <1>6. (n + 1) + 1 \in K => Live(cs, Len(cs))
    BY <1>1, <1>2
  <1>7. (n + 1) + 1 \notin P
    BY <1>1, <1>2
  <1> HIDE DEF K
  <1>8. \A k \in 1..Len(cs) : HeadOf(cs, k, e, K, P)
    BY <1>4, <1>5, HeadsAppend
  <1> HIDE DEF e
  <1>9. Flow(cs, e, K, P, TRUE)
    BY <1>2, <1>3, <1>6, <1>7, <1>8 DEF Flow
  <1> QED
    BY <1>9 DEF e

(* A head depends on the blocks up to its own.                             *)
LEMMA HeadAgree ==
  ASSUME NEW bs \in Seq(BlockType), NEW cs \in Seq(BlockType), NEW k \in 1..Len(bs),
         k <= Len(cs), \A j \in 1..k : cs[j] = bs[j],
         NEW c, NEW L, NEW P, HeadOf(bs, k, c, L, P)
  PROVE  HeadOf(cs, k, c, L, P)
  <1>1. k \in Nat /\ k \in 1..k /\ k <= Len(bs) /\ k \in 0..k
    OBVIOUS
  <1>2. cs[k] = bs[k]
    BY <1>1
  <1>3. Lev(cs, k) = Lev(bs, k)
    <2>1. \A j \in 1..k : cs[j].kind = bs[j].kind
      OBVIOUS
    <2>2. \A b \in 0..k : Lev(cs, b) = Lev(bs, b)
      BY <2>1, <1>1, LevSame
    <2> QED
      BY <2>2, <1>1
  <1>4. Live(cs, k - 1) <=> Live(bs, k - 1)
    <2>1. \A j \in 1..k - 1 : j \in 1..k
      BY <1>1
    <2> QED
      BY <2>1 DEF Live
  <1>5. Owing(cs, k) <=> Owing(bs, k)
    <2>1. k > 1 => k - 1 \in 1..k
      BY <1>1
    <2> QED
      BY <2>1, <1>2 DEF Owing
  <1> QED
    BY <1>2, <1>3, <1>4, <1>5, Zenon DEF HeadOf

(* What a new block adds to the levels and to what is live.                *)
LEMMA LivePush ==
  ASSUME NEW bs \in Seq(BlockType), NEW b \in BlockType
  PROVE  /\ Live(Append(bs, b), Len(bs)) <=> Live(bs, Len(bs))
         /\ Live(Append(bs, b), Len(bs) + 1) <=> Live(bs, Len(bs)) /\ ~b.returned
         /\ (Len(bs) + 1) - 1 = Len(bs)
  <1> DEFINE cs == Append(bs, b)
             n == Len(bs)
  <1>1. n \in Nat /\ cs[n + 1] = b /\ \A k \in 1..n : cs[k] = bs[k]
    OBVIOUS
  <1> HIDE DEF cs
  <1>2. Live(cs, n) <=> Live(bs, n)
    BY <1>1 DEF Live
  <1>3. \A k \in 1..n + 1 : k \in 1..n \/ k = n + 1
    BY <1>1
  <1>4. \A k \in 1..n : k \in 1..n + 1
    BY <1>1
  <1>5. n + 1 \in 1..n + 1 /\ (n + 1) - 1 = n
    BY <1>1
  <1>6. Live(cs, n + 1) <=> Live(cs, n) /\ ~cs[n + 1].returned
    BY <1>3, <1>4, <1>5, Zenon DEF Live
  <1> QED
    BY <1>1, <1>2, <1>5, <1>6 DEF cs

(* A block is opened by one line.                                          *)
LEMMA FlowOpen ==
  ASSUME NEW bs \in Seq(BlockType), NEW cs \in Seq(BlockType), Kept(bs, cs),
         Len(cs) = Len(bs), Len(bs) > 0, Live(bs, Len(bs)) => Live(cs, Len(cs)),
         NEW c \in Seq(Line), NEW L, NEW P, NEW A, Flow(bs, c, L, P, A),
         NEW i \in Line, i.op \in Openings, NEW b \in BlockType, b.kind # "fn",
         Lev(bs, Len(bs)) <= Bal(c, Len(c)),
         Lev(Append(cs, b), Len(cs) + 1) = Bal(c, Len(c)) + 1,
         IsHead(i.op, b), ~b.returned,
         b.kind = "range" =>
           \A q \in 1..Len(c) : Open(c, q, Bal(c, Len(c))) => c[q].op = "scope",
         i.op \in {"else", "elseif"} =>
           ((IF b.kind = "if" THEN b.all ELSE Last(cs).all) => A)
  PROVE  \E K : Flow(Append(cs, b), Append(c, i), K, P, TRUE)
  <1> DEFINE n == Len(c)
             m == Len(cs)
             S == {q \in {n + 2} : Live(cs, Len(cs))}
             K == L \cup S
             e == Append(c, i)
             ds == Append(cs, b)
  <1>1. /\ Paths(c, L, P) /\ (n + 1 \in L => Live(bs, Len(bs)))
        /\ n + 1 \in P => ~A
        /\ \A k \in 1..Len(bs) : HeadOf(bs, k, c, L, P)
        /\ L \subseteq 1..n + 1 /\ P \subseteq L
    BY DEF Flow, Paths
  <1>2. n \in Nat /\ Len(e) = n + 1 /\ e \in Seq(Line) /\ e[n + 1] = i
    BY SameAppend
  <1>3. Paths(e, K, P)
    <2>1. S \in SUBSET {Len(c) + 2}
      OBVIOUS
    <2>2. Len(c) + 1 \in L /\ i.op \notin Jumps => Len(c) + 2 \in S
      BY <1>1
    <2>3. i.op # "close"
      BY Zenon DEF Openings, Loops
    <2> HIDE DEF S
    <2> QED
      BY <2>1, <2>2, <2>3, <1>1, PathsLine
  <1>4. \A k \in 1..m : HeadOf(cs, k, c, L, P)
    BY <1>1, HeadsKept
  <1>5. \A q \in 1..Len(c) : (q \in K => q \in L) /\ (q \in P => q \in P)
    BY <1>2
  <1>6. ((n + 1) + 1 \in K => Live(cs, m)) /\ (n + 1 \in K => n + 1 \in L) /\ (n + 1) + 1 \notin P
    BY <1>1, <1>2
  <1>7. Lev(cs, m) <= Bal(c, n)
    <2>1. \A k \in 1..Len(cs) : cs[k].kind = bs[k].kind
      BY DEF Kept
    <2>2. m \in Nat /\ m <= Len(cs) /\ m <= Len(bs) /\ m \in 0..m
      OBVIOUS
    <2>3. \A k \in 0..m : Lev(cs, k) = Lev(bs, k)
      BY <2>1, <2>2, LevSame
    <2>4. Lev(cs, m) = Lev(bs, Len(bs))
      BY <2>2, <2>3
    <2> QED
      BY <2>4
  <1> HIDE DEF K
  <1>8. \A k \in 1..m : HeadOf(cs, k, e, K, P)
    <2>1. Lev(cs, Len(cs)) <= Bal(c, Len(c))
      <3>1. Bal(c, Len(c)) \in Int
        BY BalAppend
      <3> HIDE DEF n, m
      <3> QED
        BY <1>7, <3>1 DEF n, m
    <2> HIDE DEF n, m, e
    <2>2. \A k \in 1..Len(cs) : HeadOf(cs, k, c, L, P)
      BY <1>4 DEF m
    <2> QED
      BY <2>1, <2>2, <1>5, HeadsAppend DEF m, e
  <1>9. /\ ds \in Seq(BlockType) /\ Len(ds) = m + 1 /\ ds[m + 1] = b /\ m \in Nat
        /\ \A k \in 1..m : ds[k] = cs[k]
        /\ Lev(ds, m) = Lev(cs, m) /\ Lev(ds, m + 1) = Bal(c, n) + 1
        /\ Live(ds, m) <=> Live(cs, m)
        /\ Live(ds, m + 1) <=> Live(cs, m) /\ ~b.returned
        /\ (m + 1) - 1 = m
    BY PushPop, LivePush
  <1>10. ASSUME NEW k \in 1..m PROVE HeadOf(ds, k, e, K, P)
    <2>1. k \in 1..Len(cs) /\ k <= Len(ds) /\ \A j \in 1..k : ds[j] = cs[j]
      BY <1>9
    <2> HIDE DEF ds, m
    <2> QED
      BY <2>1, <1>8, <1>9, HeadAgree
  <1>11. HeadOf(ds, m + 1, e, K, P)
    <2>1. \A q, d : Open(e, q, d) => q \in 1..n \/ q = n + 1
      BY OpenSame
    <2>2. \A q \in 1..n : \A d : Open(e, q, d) => d <= Bal(c, n)
      BY OpenSame
    <2>3. Bal(c, n) \in Int
      BY BalAppend
    <2>4. ~(Lev(ds, m + 1) <= Bal(c, n))
      <3> HIDE DEF n, m, ds, e
      <3> QED
        BY <2>3, <1>7, <1>9
    <2> HIDE DEF n, m, ds, e
    <2>5. \A q : Open(e, q, Lev(ds, m + 1)) => q = n + 1
      BY <2>1, <2>2, <2>4, Zenon
    <2>6. n + 1 \in K => Live(ds, m)
      BY <1>1, <1>6, <1>9 DEF m
    <2>7. n + 1 \in P /\ i.op \in {"else", "elseif"} => ~Owing(ds, m + 1)
      <3>1. m \in 1..m /\ ds[m] = Last(cs)
        BY <1>9 DEF Last, m
      <3> QED
        BY <3>1, <1>1, <1>9 DEF Owing
    <2>8. Lev(ds, m + 1) - 1 = Bal(c, n)
      <3> HIDE DEF n, m, ds
      <3> QED
        BY <2>3, <1>9
    <2>9. ASSUME NEW q \in 1..Len(e), Open(e, q, Lev(ds, m + 1) - 1), b.kind = "range"
          PROVE  e[q].op = "scope"
      <3>1. ~Open(e, n + 1, Bal(c, n))
        <4>1. \A d : Open(e, n + 1, d) => d = Bal(c, n) + 1
          BY OpenSame DEF e, n
        <4>2. Bal(c, n) # Bal(c, n) + 1
          BY <2>3
        <4> QED
          BY <4>1, <4>2
      <3>2. q \in 1..n /\ Open(e, q, Bal(c, n))
        BY <2>1, <2>8, <2>9, <3>1
      <3>3. Open(c, q, Bal(c, n)) /\ e[q] = c[q]
        BY <3>2, OpenSame, SameAppend DEF e, n, Same
      <3> QED
        BY <3>2, <3>3, <2>9 DEF n
    <2> QED
      BY <2>5, <2>6, <2>7, <2>9, <1>2, <1>9, Zenon DEF HeadOf
  <1>12. \A k \in 1..Len(ds) : HeadOf(ds, k, e, K, P)
    <2>1. \A k \in 1..Len(ds) : k \in 1..m \/ k = m + 1
      BY <1>9
    <2> QED
      BY <2>1, <1>10, <1>11
  <1>13. (n + 1) + 1 \in K => Live(ds, Len(ds))
    BY <1>6, <1>9
  <1> HIDE DEF e, ds
  <1>14. Flow(ds, e, K, P, TRUE)
    BY <1>2, <1>3, <1>6, <1>12, <1>13 DEF Flow
  <1> QED
    BY <1>14 DEF e, ds

(* A block of one brace is opened.                                         *)
LEMMA FlowBlock ==
  ASSUME NEW bs \in Seq(BlockType), NEW cs \in Seq(BlockType), Kept(bs, cs),
         Len(cs) = Len(bs), Len(bs) > 0, Live(bs, Len(bs)) => Live(cs, Len(cs)),
         NEW c \in Seq(Line), NEW L, NEW P, NEW A, Flow(bs, c, L, P, A),
         Lev(bs, Len(bs)) = Bal(c, Len(c)), NEW i \in Line, i.op \in Openings,
         NEW b \in BlockType, b.kind \notin {"fn", "match", "range"},
         IsHead(i.op, b), ~b.returned,
         i.op \in {"else", "elseif"} =>
           ((IF b.kind = "if" THEN b.all ELSE Last(cs).all) => A)
  PROVE  \E K : Flow(Append(cs, b), Append(c, i), K, P, TRUE)
  <1>1. Lev(cs, Len(cs)) = Lev(bs, Len(bs))
    <2>1. \A k \in 1..Len(cs) : cs[k].kind = bs[k].kind
      BY DEF Kept
    <2>2. /\ Len(cs) \in Nat /\ Len(cs) <= Len(cs) /\ Len(cs) <= Len(bs)
          /\ Len(cs) \in 0..Len(cs)
      OBVIOUS
    <2>3. \A k \in 0..Len(cs) : Lev(cs, k) = Lev(bs, k)
      BY <2>1, <2>2, LevSame
    <2> QED
      BY <2>2, <2>3
  <1>2. Lev(Append(cs, b), Len(cs) + 1) = Lev(cs, Len(cs)) + 1
    BY PushPop
  <1>3. Bal(c, Len(c)) \in Int
    BY BalAppend
  <1>4. /\ Lev(bs, Len(bs)) <= Bal(c, Len(c))
        /\ Lev(Append(cs, b), Len(cs) + 1) = Bal(c, Len(c)) + 1
    BY <1>1, <1>2, <1>3
  <1>5. b.kind # "fn" /\ b.kind # "range"
    OBVIOUS
  <1> QED
    BY <1>4, <1>5, FlowOpen

(* The two blocks of a range are opened.                                   *)
LEMMA FlowRange ==
  ASSUME NEW bs \in Seq(BlockType), Len(bs) > 0,
         NEW c \in Seq(Line), NEW L, NEW P, NEW A, Flow(bs, c, L, P, A),
         Lev(bs, Len(bs)) = Bal(c, Len(c)),
         NEW i \in Line, i.op = "scope", NEW j \in Line, j.op = "range",
         NEW b \in BlockType, b.kind = "range", ~b.returned
  PROVE  \E K : Flow(Append(bs, b), Append(Append(c, i), j), K, P, TRUE)
  <1> DEFINE n == Len(c)
             e == Append(c, i)
             S == {q \in {n + 2} : Live(bs, Len(bs))}
             K == L \cup S
  <1>1. /\ Paths(c, L, P) /\ (n + 1 \in L => Live(bs, Len(bs)))
        /\ \A k \in 1..Len(bs) : HeadOf(bs, k, c, L, P)
        /\ L \subseteq 1..n + 1 /\ P \subseteq L
    BY DEF Flow, Paths
  <1>2. /\ n \in Nat /\ Len(e) = n + 1 /\ e \in Seq(Line) /\ e[n + 1] = i
        /\ \A k \in 1..n : e[k] = c[k]
    BY SameAppend DEF Same
  <1>3. i.op \in Openings /\ j.op \in Openings /\ i.op # "close" /\ j.op \notin {"else", "elseif"}
    BY KindsAre, Zenon
  <1>4. Bal(e, n + 1) = Bal(c, n) + 1 /\ Bal(c, n) \in Int
    BY <1>3, BalAppend
  <1>5. Paths(e, K, P)
    <2>1. S \in SUBSET {Len(c) + 2}
      OBVIOUS
    <2>2. Len(c) + 1 \in L /\ i.op \notin Jumps => Len(c) + 2 \in S
      BY <1>1
    <2> HIDE DEF S
    <2> QED
      BY <2>1, <2>2, <1>1, <1>3, PathsLine
  <1>6. \A q \in 1..Len(c) : (q \in K => q \in L) /\ (q \in P => q \in P)
    BY <1>2
  <1>7. ((n + 1) + 1 \in K => Live(bs, Len(bs))) /\ (n + 1) + 1 \notin P
    BY <1>1, <1>2
  <1>8. Lev(bs, Len(bs)) <= Bal(c, Len(c))
    BY <1>4
  <1> HIDE DEF K
  <1>9. \A k \in 1..Len(bs) : HeadOf(bs, k, e, K, P)
    BY <1>1, <1>6, <1>8, HeadsAppend
  <1>10. \A q \in 1..n : ~Open(e, q, Bal(c, n) + 1)
    <2>1. \A q \in 1..n : \A d : Open(e, q, d) => d <= Bal(c, n)
      BY OpenSame
    <2>2. ~(Bal(c, n) + 1 <= Bal(c, n))
      BY <1>4
    <2> QED
      BY <2>1, <2>2
  <1> HIDE DEF e
  <1>11. Flow(bs, e, K, P, TRUE)
    BY <1>2, <1>5, <1>7, <1>9 DEF Flow
  <1>12. \A q \in 1..Len(e) : Open(e, q, Bal(e, Len(e))) => e[q].op = "scope"
    <2>1. \A q \in 1..Len(e) : q \in 1..n \/ q = n + 1
      BY <1>2
    <2> QED
      BY <2>1, <1>2, <1>4, <1>10
  <1>13. Lev(bs, Len(bs)) <= Bal(e, Len(e)) /\ Lev(Append(bs, b), Len(bs) + 1) = Bal(e, Len(e)) + 1
    <2>1. Lev(Append(bs, b), Len(bs) + 1) = Lev(bs, Len(bs)) + 2
      BY PushPop
    <2> QED
      BY <2>1, <1>2, <1>4
  <1>14. Kept(bs, bs) /\ Len(bs) = Len(bs)
    BY DEF Kept
  <1>15. IsHead(j.op, b)
    BY Zenon DEF IsHead
  <1>16. \E M : Flow(Append(bs, b), Append(e, j), M, P, TRUE)
    BY <1>2, <1>3, <1>11, <1>12, <1>13, <1>14, <1>15, FlowOpen
  <1> QED
    BY <1>16 DEF e

(* The block is the last branch of its chain.                              *)
Closed(b) == b.kind = "else" \/ (b.kind = "if" /\ b.hasElse)

(* A branch is closed: what follows may be reached unless it was the last  *)
(* one and all have returned.                                              *)
LEMMA FlowShutBranch ==
  ASSUME NEW bs \in Seq(BlockType), NEW cs \in Seq(BlockType), Kept(bs, cs),
         Len(bs) > 1, NEW c \in Seq(Line), NEW L, NEW P, NEW A, Flow(bs, c, L, P, A),
         Lev(bs, Len(bs)) = Bal(c, Len(c)), NEW i \in Line, i.op = "close",
         Last(bs).kind \in {"if", "case", "else"},
         Live(bs, Len(bs) - 1)
           => (Closed(Last(bs)) /\ Owing(bs, Len(bs)) /\ Last(bs).returned) \/ Live(cs, Len(cs))
  PROVE  \E K, R : Flow(cs, Append(c, i), K, R, Owing(bs, Len(bs)) /\ Last(bs).returned)
  <1> DEFINE n == Len(c)
             m == Len(bs)
             e == Append(c, i)
             Owes == \E q \in 1..n : /\ Open(c, q, Bal(c, n)) /\ q \in P
                                     /\ c[q].op \in {"else", "elseif"}
             S == {q \in {n + 2} : Live(cs, Len(cs))}
             T == {q \in {n + 2} : n + 1 \in L \/ Owes}
             K == L \cup S
             R == P \cup T
  <1>1. /\ Paths(c, L, P) /\ (n + 1 \in L => Live(bs, m))
        /\ \A k \in 1..m : HeadOf(bs, k, c, L, P)
        /\ L \subseteq 1..n + 1 /\ P \subseteq L
    BY DEF Flow, Paths
  <1>2. n \in Nat /\ Len(e) = n + 1 /\ e \in Seq(Line)
    BY SameAppend
  <1>3. m \in 1..m /\ bs[m] = Last(bs) /\ Lev(bs, m) = Bal(c, n)
    BY DEF Last
  <1>4. \A q \in 1..n : Open(c, q, Bal(c, n)) =>
          /\ IsHead(c[q].op, Last(bs))
          /\ q \in L => Live(bs, m - 1)
          /\ q \in P /\ c[q].op \in {"else", "elseif"} => ~Owing(bs, m)
    <2>1. HeadOf(bs, m, c, L, P)
      BY <1>1, <1>3
    <2>2. bs[m].kind \notin {"fn", "match"}
      BY <1>3
    <2> QED
      BY <2>1, <2>2, <1>3, Zenon DEF HeadOf
  <1>5. n + 1 \in L => Live(bs, m - 1) /\ ~Last(bs).returned
    <2>1. \A k \in 1..m - 1 : k \in 1..m
      BY <1>3
    <2> QED
      BY <2>1, <1>1, <1>3 DEF Live
  <1>6. Owes => Live(bs, m - 1) /\ ~Owing(bs, m)
    BY <1>1, <1>4
  <1>7. n + 1 \in L \/ Owes => Live(cs, Len(cs))
    BY <1>5, <1>6
  <1>8. ASSUME NEW q \in 1..n, Open(c, q, Bal(c, n))
        PROVE  Joins(c[q].op, q, n + 1, K, R)
    <2> DEFINE o == c[q].op
    <2>1. IsHead(o, Last(bs)) /\ (q \in L => Live(bs, m - 1))
      BY <1>4, <1>8
    <2>2. q \in K => q \in L
      BY <1>2
    <2>3. q \in R => q \in P
      BY <1>2
    <2>4. n + 1 \in K => n + 1 \in L
      BY <1>2
    <2>5. Live(cs, Len(cs)) => (n + 1) + 1 \in K
      BY <1>2
    <2>6. n + 1 \in L \/ Owes => (n + 1) + 1 \in R
      BY <1>2
    <2>7. o \in {"else", "elseif"} /\ q \in P => Owes
      BY <1>8
    <2> HIDE DEF K, R, Owes
    <2>8. o \in {"if", "elseif", "else"} /\ (o \in {"if", "elseif"} => ~Closed(Last(bs)))
      BY <2>1, Zenon DEF IsHead, Closed
    <2> HIDE DEF o
    <2>9. o \notin Loops /\ o # "scope"
      BY <2>8, Zenon DEF Loops
    <2>10. o \in {"if", "elseif"} /\ q \in K => (n + 1) + 1 \in K
      BY <2>1, <2>2, <2>5, <2>8
    <2>11. o \in Branches /\ n + 1 \in K => (n + 1) + 1 \in R
      BY <2>4, <2>6
    <2>12. o \in {"else", "elseif"} /\ q \in R => (n + 1) + 1 \in R
      BY <2>3, <2>6, <2>7
    <2>13. Joins(o, q, n + 1, K, R)
      BY <2>9, <2>10, <2>11, <2>12 DEF Joins
    <2> QED
      BY <2>13 DEF o
  <1>9. Paths(e, K, R)
    <2>1. S \in SUBSET {Len(c) + 1, Len(c) + 2} /\ T \in SUBSET {Len(c) + 2} /\ T \subseteq S
      BY <1>7
    <2>2. \A q \in 1..Len(c) : Open(c, q, Bal(c, Len(c))) =>
            Joins(c[q].op, q, Len(c) + 1, L \cup S, P \cup T)
      BY <1>8
    <2> HIDE DEF S, T
    <2> QED
      BY <2>1, <2>2, <1>1, PathsClose
  <1>10. (n + 1) + 1 \in K => Live(cs, Len(cs))
    BY <1>1, <1>2
  <1>11. (n + 1) + 1 \in R => ~(Owing(bs, m) /\ Last(bs).returned)
    <2>1. (n + 1) + 1 \in R => n + 1 \in L \/ Owes
      BY <1>1, <1>2
    <2> QED
      BY <2>1, <1>5, <1>6
  <1>12. \A q \in 1..Len(c) : (q \in K => q \in L) /\ (q \in R => q \in P)
    BY <1>2
  <1> HIDE DEF K, R, Owes
  <1>13. \A k \in 1..Len(cs) : HeadOf(cs, k, e, K, R)
    <2>1. \A k \in 1..Len(cs) : HeadOf(cs, k, c, L, P)
      BY <1>1, HeadsKept
    <2>2. i.op \notin Openings
      BY Zenon DEF Openings, Loops
    <2> QED
      BY <2>1, <2>2, <1>12, HeadsAppend
  <1> HIDE DEF e
  <1>14. Flow(cs, e, K, R, Owing(bs, m) /\ Last(bs).returned)
    BY <1>2, <1>9, <1>10, <1>11, <1>13 DEF Flow
  <1> QED
    BY <1>14 DEF e

(* A loop is closed: what follows may be reached whenever the loop may.    *)
LEMMA FlowShutLoop ==
  ASSUME NEW bs \in Seq(BlockType), NEW cs \in Seq(BlockType), Kept(bs, cs),
         Len(bs) > 1, NEW c \in Seq(Line), NEW L, NEW P, NEW A, Flow(bs, c, L, P, A),
         Lev(bs, Len(bs)) = Bal(c, Len(c)), NEW i \in Line, i.op = "close",
         Last(bs).kind \in Loops, Live(bs, Len(bs) - 1) => Live(cs, Len(cs))
  PROVE  \E K : Flow(cs, Append(c, i), K, P, TRUE)
  <1> DEFINE n == Len(c)
             m == Len(bs)
             e == Append(c, i)
             S == {q \in {n + 1, n + 2} : Live(cs, Len(cs))}
             K == L \cup S
             R == P \cup {}
  <1>1. /\ Paths(c, L, P) /\ (n + 1 \in L => Live(bs, m))
        /\ \A k \in 1..m : HeadOf(bs, k, c, L, P)
        /\ L \subseteq 1..n + 1 /\ P \subseteq L
    BY DEF Flow, Paths
  <1>2. n \in Nat /\ Len(e) = n + 1 /\ e \in Seq(Line)
    BY SameAppend
  <1>3. m \in 1..m /\ bs[m] = Last(bs) /\ Lev(bs, m) = Bal(c, n)
    BY DEF Last
  <1>4. \A q \in 1..n : Open(c, q, Bal(c, n)) =>
          /\ c[q].op \in Loops
          /\ q \in L => Live(bs, m - 1)
    <2>1. HeadOf(bs, m, c, L, P)
      BY <1>1, <1>3
    <2>2. bs[m].kind \notin {"fn", "match"} /\ bs[m].kind \in Loops
      BY <1>3, Zenon DEF Loops
    <2>3. \A o : IsHead(o, bs[m]) => o \in Loops
      BY <2>2, Zenon DEF IsHead
    <2> QED
      BY <2>1, <2>2, <2>3, <1>3, Zenon DEF HeadOf
  <1>5. ASSUME NEW q \in 1..n, Open(c, q, Bal(c, n))
        PROVE  Joins(c[q].op, q, n + 1, K, R)
    <2> DEFINE o == c[q].op
    <2>1. o \in Loops /\ (q \in L => Live(bs, m - 1))
      BY <1>4, <1>5
    <2>2. q \in K => q \in L
      BY <1>2
    <2>3. Live(cs, Len(cs)) => n + 1 \in K /\ (n + 1) + 1 \in K
      BY <1>2
    <2> HIDE DEF K, R, o
    <2>4. o \notin {"if", "elseif", "else", "scope"}
      BY <2>1, Zenon DEF Loops
    <2>5. q \in K => n + 1 \in K /\ (n + 1) + 1 \in K
      BY <2>1, <2>2, <2>3
    <2>6. Joins(o, q, n + 1, K, R)
      BY <2>4, <2>5, Zenon DEF Joins, Branches
    <2> QED
      BY <2>6 DEF o
  <1>6. Paths(e, K, R)
    <2>1. S \in SUBSET {Len(c) + 1, Len(c) + 2} /\ {} \in SUBSET {Len(c) + 2} /\ {} \subseteq S
      OBVIOUS
    <2>2. \A q \in 1..Len(c) : Open(c, q, Bal(c, Len(c))) =>
            Joins(c[q].op, q, Len(c) + 1, L \cup S, P \cup {})
      BY <1>5
    <2> HIDE DEF S
    <2> QED
      BY <2>1, <2>2, <1>1, PathsClose
  <1>7. (n + 1) + 1 \in K => Live(cs, Len(cs))
    BY <1>1, <1>2
  <1>8. (n + 1) + 1 \notin P /\ R = P
    BY <1>1, <1>2
  <1>9. \A q \in 1..Len(c) : (q \in K => q \in L) /\ (q \in P => q \in P)
    BY <1>2
  <1> HIDE DEF K, R
  <1>10. \A k \in 1..Len(cs) : HeadOf(cs, k, e, K, P)
    <2>1. \A k \in 1..Len(cs) : HeadOf(cs, k, c, L, P)
      BY <1>1, HeadsKept
    <2>2. i.op \notin Openings
      BY Zenon DEF Openings, Loops
    <2> QED
      BY <2>1, <2>2, <1>9, HeadsAppend
  <1> HIDE DEF e
  <1>11. Flow(cs, e, K, P, TRUE)
    BY <1>2, <1>6, <1>7, <1>8, <1>10 DEF Flow
  <1> QED
    BY <1>11 DEF e

(* Under the loop of a range is the block of its variable.                 *)
LEMMA ScopeUnder ==
  ASSUME NEW bs \in Seq(BlockType), Len(bs) > 1,
         NEW c \in Seq(Line), NEW L, NEW P, NEW A, Flow(bs, c, L, P, A),
         Lev(bs, Len(bs)) = Bal(c, Len(c)), NEW i \in Line, i.op = "close",
         Last(bs).kind = "range"
  PROVE  LET e == Append(c, i)
         IN  \A q \in 1..Len(e) : Open(e, q, Bal(e, Len(e))) => e[q].op = "scope"
  <1> DEFINE n == Len(c)
             m == Len(bs)
             e == Append(c, i)
  <1>1. m \in 1..m /\ bs[m] = Last(bs) /\ Lev(bs, m) = Bal(c, n)
    BY DEF Last
  <1>2. HeadOf(bs, m, c, L, P)
    BY <1>1 DEF Flow
  <1>3. /\ n \in Nat /\ Len(e) = n + 1 /\ \A k \in 1..n : e[k] = c[k]
        /\ Bal(e, n + 1) = Bal(c, n) - 1
    BY SameAppend, BalAppend DEF Same
  <1>4. i.op \notin Openings
    BY Zenon DEF Openings, Loops
  <1>5. /\ \A q \in 1..n : \A d : Open(e, q, d) => Open(c, q, d)
        /\ \A d : ~Open(e, n + 1, d)
        /\ \A q, d : Open(e, q, d) => q \in 1..n \/ q = n + 1
    BY <1>4, OpenSame
  <1> HIDE DEF e
  <1>6. ASSUME NEW q \in 1..Len(e), Open(e, q, Bal(e, Len(e))) PROVE e[q].op = "scope"
    <2>1. q \in 1..n /\ e[q] = c[q] /\ Open(c, q, Lev(bs, m) - 1)
      BY <1>1, <1>3, <1>5, <1>6
    <2> QED
      BY <2>1, <1>1, <1>2, Zenon DEF HeadOf
  <1> QED
    BY <1>6 DEF e

(* The block of a range's variable is closed.                              *)
LEMMA FlowScope ==
  ASSUME NEW bs \in Seq(BlockType), NEW c \in Seq(Line), NEW L, NEW P, NEW A,
         Flow(bs, c, L, P, A), NEW i \in Line, i.op = "close",
         \A q \in 1..Len(c) : Open(c, q, Bal(c, Len(c))) => c[q].op = "scope"
  PROVE  \E K : Flow(bs, Append(c, i), K, P, TRUE)
  <1> DEFINE n == Len(c)
             e == Append(c, i)
             S == {q \in {n + 2} : Live(bs, Len(bs))}
             K == L \cup S
             R == P \cup {}
  <1>1. /\ Paths(c, L, P) /\ (n + 1 \in L => Live(bs, Len(bs)))
        /\ \A k \in 1..Len(bs) : HeadOf(bs, k, c, L, P)
        /\ L \subseteq 1..n + 1 /\ P \subseteq L
    BY DEF Flow, Paths
  <1>2. n \in Nat /\ Len(e) = n + 1 /\ e \in Seq(Line)
    BY SameAppend
  <1>3. ASSUME NEW q \in 1..n, Open(c, q, Bal(c, n))
        PROVE  Joins(c[q].op, q, n + 1, K, R)
    <2> DEFINE o == c[q].op
    <2>1. o = "scope"
      BY <1>3
    <2>2. n + 1 \in K => (n + 1) + 1 \in K
      BY <1>1, <1>2
    <2> HIDE DEF K, R, o
    <2>3. o \notin {"if", "elseif", "else"} /\ o \notin Loops
      BY <2>1, Zenon DEF Loops
    <2>4. Joins(o, q, n + 1, K, R)
      BY <2>2, <2>3, Zenon DEF Joins, Branches
    <2> QED
      BY <2>4 DEF o
  <1>4. Paths(e, K, R)
    <2>1. /\ S \in SUBSET {Len(c) + 1, Len(c) + 2} /\ {} \in SUBSET {Len(c) + 2}
          /\ {} \subseteq S
      OBVIOUS
    <2>2. \A q \in 1..Len(c) : Open(c, q, Bal(c, Len(c))) =>
            Joins(c[q].op, q, Len(c) + 1, L \cup S, P \cup {})
      BY <1>3
    <2> HIDE DEF S
    <2> QED
      BY <2>1, <2>2, <1>1, PathsClose
  <1>5. (n + 1) + 1 \in K => Live(bs, Len(bs))
    BY <1>1, <1>2
  <1>6. (n + 1) + 1 \notin P /\ R = P
    BY <1>1, <1>2
  <1>7. \A q \in 1..Len(c) : (q \in K => q \in L) /\ (q \in P => q \in P)
    BY <1>2
  <1> HIDE DEF K, R
  <1>8. \A k \in 1..Len(bs) : HeadOf(bs, k, e, K, P)
    <2>1. i.op \notin Openings
      BY Zenon DEF Openings, Loops
    <2> QED
      BY <2>1, <1>1, <1>7, HeadsAppend
  <1> HIDE DEF e
  <1>9. Flow(bs, e, K, P, TRUE)
    BY <1>2, <1>4, <1>5, <1>6, <1>8 DEF Flow
  <1> QED
    BY <1>9 DEF e

----------------------------------------------------------------------------
(***************************************************************************)
(* What holds of every emitted text by itself.                             *)
(***************************************************************************)
Text(c) ==
  /\ \A n \in 0..Len(c) : Bal(c, n) >= 0
  /\ \A q \in 1..Len(c) :
       /\ c[q].op = "range" => q > 1 /\ c[q - 1].op = "scope"
       /\ c[q].op = "loop" => c[q].x \in Name

(* A line that is appended where it may stand.                             *)
LEMMA TextAppend ==
  ASSUME NEW c \in Seq(Line), NEW i \in Line, Text(c),
         i.op = "close" => Bal(c, Len(c)) > 0,
         i.op = "loop" => i.x \in Name,
         i.op = "range" => Len(c) > 0 /\ c[Len(c)].op = "scope"
  PROVE  Text(Append(c, i))
  <1> DEFINE d == Append(c, i)
             n == Len(c)
  <1>1. /\ n \in Nat /\ Len(d) = n + 1 /\ d[n + 1] = i /\ \A k \in 1..n : d[k] = c[k]
    BY SameAppend DEF Same
  <1>2. /\ \A q \in 0..n : Bal(d, q) = Bal(c, q)
        /\ i.op \in Openings => Bal(d, n + 1) = Bal(c, n) + 1
        /\ i.op = "close" => Bal(d, n + 1) = Bal(c, n) - 1
        /\ i.op \notin Openings /\ i.op # "close" => Bal(d, n + 1) = Bal(c, n)
        /\ Bal(c, n) \in Int
    BY BalAppend
  <1>3. /\ \A k \in 0..n : Bal(c, k) >= 0
        /\ \A q \in 1..n : /\ c[q].op = "range" => q > 1 /\ c[q - 1].op = "scope"
                           /\ c[q].op = "loop" => c[q].x \in Name
    BY DEF Text
  <1>4. i.op = "close" => Bal(c, n) > 0
    OBVIOUS
  <1>5. i.op = "range" => n > 0 /\ c[n].op = "scope"
    OBVIOUS
  <1> HIDE DEF d, n
  <1>6. ASSUME NEW k \in 0..Len(d) PROVE Bal(d, k) >= 0
    <2>1. k \in 0..n \/ k = n + 1
      BY <1>1
    <2>2. n \in 0..n
      BY <1>1
    <2>3. Bal(d, n + 1) >= 0
      <3>1. CASE i.op \in Openings
        BY <3>1, <2>2, <1>2, <1>3
      <3>2. CASE i.op = "close"
        BY <3>2, <1>2, <1>4
      <3>3. CASE i.op \notin Openings /\ i.op # "close"
        BY <3>3, <2>2, <1>2, <1>3
      <3> QED
        BY <3>1, <3>2, <3>3
    <2> QED
      BY <2>1, <2>3, <1>2, <1>3
  <1>7. ASSUME NEW q \in 1..Len(d)
        PROVE  /\ d[q].op = "range" => q > 1 /\ d[q - 1].op = "scope"
               /\ d[q].op = "loop" => d[q].x \in Name
    <2>1. CASE q \in 1..n
      <3>1. d[q] = c[q] /\ (q > 1 => d[q - 1] = c[q - 1])
        BY <2>1, <1>1
      <3> QED
        BY <2>1, <3>1, <1>3
    <2>2. CASE q = n + 1
      <3>1. (n + 1) - 1 = n /\ (n > 0 => n + 1 > 1 /\ d[n] = c[n])
        BY <1>1
      <3> QED
        BY <2>2, <3>1, <1>1, <1>5
    <2>3. q \in 1..n \/ q = n + 1
      BY <1>1
    <2> QED
      BY <2>1, <2>2, <2>3
  <1> QED
    BY <1>6, <1>7 DEF Text, d

----------------------------------------------------------------------------
(***************************************************************************)
(* What the reader keeps of the text it emits.                             *)
(***************************************************************************)

(* An else that comes next is passed over by none.                         *)
Owed(bs) == Last(bs).kind = "match" /\ Last(bs).all

Sound(bs, c, A) ==
  /\ \E L, P : Flow(bs, c, L, P, A)
  /\ Text(c)

(* What is owed to a later else is given up.                               *)
LEMMA FlowWeaken ==
  ASSUME NEW bs, NEW c, NEW L, NEW P, NEW A, Flow(bs, c, L, P, TRUE)
  PROVE  Flow(bs, c, L, P, A)
  BY DEF Flow

(* The same for the whole text.                                            *)
LEMMA SoundWeaken ==
  ASSUME NEW bs, NEW c, NEW A, Sound(bs, c, TRUE)
  PROVE  Sound(bs, c, A)
  BY FlowWeaken DEF Sound

(* A line that neither opens nor closes a block.                           *)
LEMMA SoundLine ==
  ASSUME NEW bs \in Seq(BlockType), NEW cs \in Seq(BlockType), Kept(bs, cs),
         NEW c \in Seq(Line), NEW A, Sound(bs, c, A),
         NEW i \in Line, i.op \in FlatOps \cup {"return", "bind"},
         i.op \notin Jumps /\ Live(bs, Len(bs)) => Live(cs, Len(cs))
  PROVE  Sound(cs, Append(c, i), TRUE)
  <1>1. /\ i.op \notin Openings /\ i.op # "close" /\ i.op # "loop" /\ i.op # "range"
        /\ i.op \notin {"else", "elseif"}
    BY Zenon DEF FlatOps, Openings, Loops
  <1>2. PICK L, P : Flow(bs, c, L, P, A)
    BY DEF Sound
  <1>3. \E K : Flow(cs, Append(c, i), K, P, TRUE)
    BY <1>1, <1>2, FlowLine
  <1>4. Text(Append(c, i))
    BY <1>1, TextAppend DEF Sound
  <1> QED
    BY <1>3, <1>4 DEF Sound

(* Blocks that stay as they are.                                           *)
LEMMA KeptSelf ==
  ASSUME NEW bs \in Seq(BlockType)
  PROVE  Kept(bs, bs)
  BY DEF Kept

(* A condition computed in front of a block, or a count, changes nothing.  *)
LEMMA SoundAhead ==
  ASSUME NEW bs \in Seq(BlockType), NEW c \in Seq(Line), NEW A, Sound(bs, c, A),
         NEW d \in Seq(Line), Ahead(c, d)
  PROVE  Sound(bs, d, A)
  <1>1. CASE d = c
    BY <1>1
  <1>2. CASE d # c
    <2>1. PICK i \in Line : i.op \in {"inc", "hoist"} /\ d = Append(c, i)
      BY <1>2 DEF Ahead
    <2>2. i.op \in FlatOps \cup {"return", "bind"}
      BY <2>1, Zenon DEF FlatOps
    <2>3. Sound(bs, Append(c, i), TRUE)
      BY <2>2, KeptSelf, SoundLine
    <2> QED
      BY <2>1, <2>3, FlowWeaken DEF Sound
  <1> QED
    BY <1>1, <1>2

(* A block of one brace is opened.                                         *)
LEMMA SoundOpen ==
  ASSUME NEW bs \in Seq(BlockType), NEW cs \in Seq(BlockType), Kept(bs, cs),
         Len(cs) = Len(bs), Len(bs) > 0, Live(bs, Len(bs)) => Live(cs, Len(cs)),
         NEW c \in Seq(Line), NEW A, Sound(bs, c, A),
         Lev(bs, Len(bs)) = Bal(c, Len(c)), NEW i \in Line,
         i.op \in Branches \cup {"while", "loop", "each"}, i.op = "loop" => i.x \in Name,
         NEW b \in BlockType, b.kind \notin {"fn", "match", "range"},
         IsHead(i.op, b), ~b.returned,
         i.op \in {"else", "elseif"} =>
           ((IF b.kind = "if" THEN b.all ELSE Last(cs).all) => A)
  PROVE  Sound(Append(cs, b), Append(c, i), TRUE)
  <1>1. /\ i.op \in Openings /\ i.op # "close" /\ i.op # "range" /\ i.op # "hoist"
    BY Zenon DEF Branches, Openings, Loops
  <1>2. PICK L, P : Flow(bs, c, L, P, A)
    BY DEF Sound
  <1>3. \E K : Flow(Append(cs, b), Append(c, i), K, P, TRUE)
    BY <1>1, <1>2, FlowBlock
  <1>4. Text(Append(c, i))
    BY <1>1, TextAppend DEF Sound
  <1> QED
    BY <1>3, <1>4 DEF Sound

(* The two blocks of a range are opened.                                   *)
LEMMA SoundRange ==
  ASSUME NEW bs \in Seq(BlockType), Len(bs) > 0,
         NEW c \in Seq(Line), NEW A, Sound(bs, c, A), Lev(bs, Len(bs)) = Bal(c, Len(c)),
         NEW i \in Line, i.op = "scope", NEW j \in Line, j.op = "range",
         NEW b \in BlockType, b.kind = "range", ~b.returned
  PROVE  Sound(Append(bs, b), Append(Append(c, i), j), TRUE)
  <1> DEFINE d == Append(c, i)
  <1>1. /\ i.op # "close" /\ i.op # "range" /\ i.op # "hoist" /\ i.op # "loop"
        /\ i.op \notin {"else", "elseif"}
        /\ j.op # "close" /\ j.op # "loop" /\ j.op # "hoist" /\ j.op \notin {"else", "elseif"}
    BY Zenon
  <1>2. PICK L, P : Flow(bs, c, L, P, A)
    BY DEF Sound
  <1>3. \E K : Flow(Append(bs, b), Append(d, j), K, P, TRUE)
    BY <1>2, FlowRange
  <1>4. d \in Seq(Line) /\ Len(d) > 0 /\ d[Len(d)].op = "scope"
    BY SameAppend
  <1>5. Text(d)
    BY <1>1, TextAppend DEF Sound
  <1> HIDE DEF d
  <1>7. Text(Append(d, j))
    BY <1>1, <1>4, <1>5, TextAppend
  <1>9. Sound(Append(bs, b), Append(d, j), TRUE)
    BY <1>3, <1>7 DEF Sound
  <1> QED
    BY <1>9 DEF d

(* A block of one brace or more has a level.                               *)
LEMMA TopLevel ==
  ASSUME NEW bs \in Seq(BlockType), Len(bs) > 1, Last(bs).kind \notin {"fn", "match"}
  PROVE  /\ Lev(bs, Len(bs)) > 0
         /\ Last(bs).kind = "range" => Lev(bs, Len(bs)) > 1
  <1>1. /\ Last(bs).kind = "range" => Lev(bs, Len(bs)) = Lev(bs, Len(bs) - 1) + 2
        /\ Last(bs).kind \notin {"fn", "match", "range"} =>
             Lev(bs, Len(bs)) = Lev(bs, Len(bs) - 1) + 1
        /\ Len(bs) - 1 \in Nat \ {0}
    BY Popped
  <1>2. Lev(bs, Len(bs) - 1) \in Nat
    BY <1>1, LevSteps
  <1>3. Last(bs).kind = "range" \/ Last(bs).kind \notin {"fn", "match", "range"}
    BY Zenon
  <1> QED
    BY <1>1, <1>2, <1>3

(* A branch is closed.                                                     *)
LEMMA SoundShutBranch ==
  ASSUME NEW bs \in Seq(BlockType), NEW cs \in Seq(BlockType), Kept(bs, cs),
         Len(bs) > 1, NEW c \in Seq(Line), NEW A, Sound(bs, c, A),
         Lev(bs, Len(bs)) = Bal(c, Len(c)), NEW i \in Line, i.op = "close",
         Last(bs).kind \in {"if", "case", "else"},
         Live(bs, Len(bs) - 1)
           => (Closed(Last(bs)) /\ Owing(bs, Len(bs)) /\ Last(bs).returned) \/ Live(cs, Len(cs))
  PROVE  Sound(cs, Append(c, i), Owing(bs, Len(bs)) /\ Last(bs).returned)
  <1>1. i.op # "range" /\ i.op # "hoist" /\ i.op # "loop" /\ i.op \notin {"else", "elseif"}
    BY Zenon
  <1>2. PICK L, P : Flow(bs, c, L, P, A)
    BY DEF Sound
  <1>3. \E K, R : Flow(cs, Append(c, i), K, R, Owing(bs, Len(bs)) /\ Last(bs).returned)
    BY <1>2, FlowShutBranch
  <1>4. Last(bs).kind \notin {"fn", "match"}
    BY Zenon
  <1>5. Bal(c, Len(c)) > 0
    BY <1>4, TopLevel
  <1>6. Text(Append(c, i))
    BY <1>1, <1>5, TextAppend DEF Sound
  <1> QED
    BY <1>3, <1>6 DEF Sound

(* A loop of one brace is closed.                                          *)
LEMMA SoundShutLoop ==
  ASSUME NEW bs \in Seq(BlockType), NEW cs \in Seq(BlockType), Kept(bs, cs),
         Len(bs) > 1, NEW c \in Seq(Line), NEW A, Sound(bs, c, A),
         Lev(bs, Len(bs)) = Bal(c, Len(c)), NEW i \in Line, i.op = "close",
         Last(bs).kind \in Loops, Live(bs, Len(bs) - 1) => Live(cs, Len(cs))
  PROVE  Sound(cs, Append(c, i), TRUE)
  <1>1. i.op # "range" /\ i.op # "hoist" /\ i.op # "loop" /\ i.op \notin {"else", "elseif"}
    BY Zenon
  <1>2. PICK L, P : Flow(bs, c, L, P, A)
    BY DEF Sound
  <1>3. \E K : Flow(cs, Append(c, i), K, P, TRUE)
    BY <1>2, FlowShutLoop
  <1>4. Last(bs).kind \notin {"fn", "match"}
    BY Zenon DEF Loops
  <1>5. Bal(c, Len(c)) > 0
    BY <1>4, TopLevel
  <1>6. Text(Append(c, i))
    BY <1>1, <1>5, TextAppend DEF Sound
  <1> QED
    BY <1>3, <1>6 DEF Sound

(* The two blocks of a range are closed.                                   *)
LEMMA SoundShutRange ==
  ASSUME NEW bs \in Seq(BlockType), NEW cs \in Seq(BlockType), Kept(bs, cs),
         Len(bs) > 1, NEW c \in Seq(Line), NEW A, Sound(bs, c, A),
         Lev(bs, Len(bs)) = Bal(c, Len(c)), NEW i \in Line, i.op = "inc",
         NEW j \in Line, j.op = "close",
         Last(bs).kind = "range", Live(bs, Len(bs) - 1) => Live(cs, Len(cs))
  PROVE  Sound(cs, Append(Append(Append(c, i), j), j), TRUE)
  <1> DEFINE d == Append(c, i)
             e == Append(d, j)
  <1>1. j.op # "range" /\ j.op # "hoist" /\ j.op # "loop" /\ j.op \notin {"else", "elseif"}
    BY Zenon
  <1>2. i.op \in FlatOps \cup {"return", "bind"} /\ i.op # "hoist"
    BY Zenon DEF FlatOps
  <1>3. Sound(bs, d, TRUE)
    BY <1>2, KeptSelf, SoundLine
  <1>4. d \in Seq(Line) /\ Bal(d, Len(d)) = Bal(c, Len(c)) /\ Len(d) = Len(c) + 1
    <2>1. i.op \notin Openings /\ i.op # "close"
      BY Zenon DEF Openings, Loops
    <2> QED
      BY <2>1, SameAppend, BalAppend
  <1> HIDE DEF d
  <1>5. e \in Seq(Line) /\ Bal(e, Len(e)) = Bal(d, Len(d)) - 1 /\ Bal(d, Len(d)) \in Int
    BY <1>4, SameAppend, BalAppend
  <1>6. Last(bs).kind \in Loops /\ Sound(bs, d, TRUE)
    BY <1>3, Zenon DEF Loops
  <1>7. Lev(bs, Len(bs)) = Bal(d, Len(d))
    BY <1>4
  <1>8. Sound(cs, e, TRUE)
    BY <1>4, <1>6, <1>7, SoundShutLoop
  <1>9. \A q \in 1..Len(e) : Open(e, q, Bal(e, Len(e))) => e[q].op = "scope"
    <2>1. PICK L, P : Flow(bs, d, L, P, TRUE)
      BY <1>6 DEF Sound
    <2> QED
      BY <2>1, <1>4, <1>7, ScopeUnder
  <1> HIDE DEF e
  <1>10. \E K, P : Flow(cs, Append(e, j), K, P, TRUE)
    <2>1. PICK L, P : Flow(cs, e, L, P, TRUE)
      BY <1>8 DEF Sound
    <2> QED
      BY <2>1, <1>5, <1>9, FlowScope
  <1>11. Bal(e, Len(e)) > 0
    <2>1. Last(bs).kind \notin {"fn", "match"}
      BY Zenon
    <2>2. Lev(bs, Len(bs)) > 1
      BY <2>1, TopLevel
    <2> QED
      BY <2>2, <1>5, <1>7
  <1>12. Text(Append(e, j))
    BY <1>1, <1>5, <1>8, <1>11, TextAppend DEF Sound
  <1>14. Sound(cs, Append(e, j), TRUE)
    BY <1>10, <1>12 DEF Sound
  <1> QED
    BY <1>14 DEF d, e

----------------------------------------------------------------------------
(***************************************************************************)
(* Every step of the reader leaves the text whole.                         *)
(***************************************************************************)
Hold == Now /\ Sound(blocks, code, Owed(blocks))
Reach == verdict' = "rejected" \/ Sound(blocks', code', Owed(blocks'))

(* What the steps below start from.                                        *)
LEMMA HoldIs ==
  ASSUME Hold
  PROVE  /\ Now /\ Typed /\ verdict = "parse" /\ Stand(blocks, loc, loops, code)
         /\ blocks \in Seq(BlockType) /\ code \in Seq(Line) /\ loops \in Seq(NameOrNone)
         /\ Len(blocks) > 0 /\ Len(loc) \in Nat /\ Len(blocks) = Len(blocks)
         /\ Lev(blocks, Len(blocks)) = Bal(code, Len(code))
         /\ Last(blocks) = blocks[Len(blocks)] /\ Len(blocks) \in 1..Len(blocks)
         /\ Last(blocks) \in BlockType
         /\ Sound(blocks, code, Owed(blocks))
         /\ Kept(blocks, blocks)
         /\ Refused => Reach
  <1>1. Now /\ Sound(blocks, code, Owed(blocks))
    BY DEF Hold
  <1>2. /\ Typed /\ verdict = "parse" /\ Stand(blocks, loc, loops, code)
        /\ blocks \in Seq(BlockType) /\ code \in Seq(Line) /\ loops \in Seq(NameOrNone)
        /\ Len(blocks) > 0 /\ Len(blocks) = Len(blocks)
    BY <1>1, NowIs
  <1>3. /\ Len(loc) \in Nat /\ Lev(blocks, Len(blocks)) = Bal(code, Len(code))
        /\ Last(blocks) = blocks[Len(blocks)] /\ Len(blocks) \in 1..Len(blocks)
        /\ Last(blocks) \in BlockType
    BY <1>2, StandIs
  <1>5. Kept(blocks, blocks)
    BY <1>2, KeptSelf
  <1>6. Refused => Reach
    BY Zenon DEF Refused, Reach
  <1> QED
    BY <1>1, <1>2, <1>3, <1>5, <1>6

(* What holds whatever else comes next.                                    *)
LEMMA SoundIsReach ==
  ASSUME Sound(blocks', code', TRUE)
  PROVE  Reach
  BY SoundWeaken DEF Reach

(* Uses, assignments, del and break.                                       *)
LEMMA FlatReach ==
  ASSUME Hold, NEW t \in Tokens, Use(t) \/ Set(t) \/ Del(t) \/ Break(t)
  PROVE  Reach
  <1>1. \/ Refused
        \/ /\ Goes /\ UNCHANGED <<valued, blocks, loops>> /\ Renamed(loc, loc')
           /\ Last(blocks).kind # "match"
           /\ \E i \in Line : i.op \in Simple /\ code' = Append(code, i)
    BY HoldIs, FlatDoes
  <1>2. CASE Refused
    BY <1>2, HoldIs
  <1>3. CASE ~Refused
    <2>1. PICK i \in Line : i.op \in Simple /\ code' = Append(code, i)
      BY <1>1, <1>3
    <2>2. blocks' = blocks
      BY <1>1, <1>3
    <2>3. i.op \in FlatOps \cup {"return", "bind"} /\ i.op # "hoist"
      BY <2>1, Zenon DEF Simple, FlatOps
    <2>4. Sound(blocks, Append(code, i), TRUE)
      BY <2>3, HoldIs, SoundLine
    <2> QED
      BY <2>1, <2>2, <2>4, SoundIsReach
  <1> QED
    BY <1>2, <1>3

(* A binding.                                                              *)
LEMMA BindReach ==
  ASSUME Hold, NEW t \in Tokens, Bind(t)
  PROVE  Reach
  <1>1. \/ Refused
        \/ /\ Goes /\ UNCHANGED <<valued, blocks, loops>> /\ Last(blocks).kind # "match"
           /\ t.x \in Name /\ loc' = Append(loc, Entered(t.x))
           /\ \A k \in 1..Len(loc) : loc[k].name # t.x
           /\ \E i \in Line : i.op = "bind" /\ i.x = t.x /\ code' = Append(code, i)
    BY HoldIs, BindDoes
  <1>2. CASE Refused
    BY <1>2, HoldIs
  <1>3. CASE ~Refused
    <2>1. PICK i \in Line : i.op = "bind" /\ i.x = t.x /\ code' = Append(code, i)
      BY <1>1, <1>3
    <2>2. blocks' = blocks
      BY <1>1, <1>3
    <2>3. i.op \in FlatOps \cup {"return", "bind"} /\ i.op # "hoist"
      BY <2>1, Zenon
    <2>4. Sound(blocks, Append(code, i), TRUE)
      BY <2>3, HoldIs, SoundLine
    <2> QED
      BY <2>1, <2>2, <2>4, SoundIsReach
  <1> QED
    BY <1>2, <1>3

(* Continue, with the advance of a range's variable in front of it.        *)
LEMMA ContinueReach ==
  ASSUME Hold, NEW t \in Tokens, Continue(t)
  PROVE  Reach
  <1>1. /\ Goes /\ UNCHANGED <<valued, blocks, loc, loops>>
        /\ Last(blocks).kind # "match"
        /\ \E c \in Seq(Line) : Ahead(code, c) /\
             \E i \in Line : i.op = "continue" /\ code' = Append(c, i)
    BY HoldIs, ContinueDoes
  <1>2. PICK c \in Seq(Line) : Ahead(code, c) /\
             \E i \in Line : i.op = "continue" /\ code' = Append(c, i)
    BY <1>1
  <1>3. PICK i \in Line : i.op = "continue" /\ code' = Append(c, i)
    BY <1>2
  <1>4. Sound(blocks, c, Owed(blocks))
    BY <1>2, HoldIs, SoundAhead
  <1>5. i.op \in FlatOps \cup {"return", "bind"} /\ i.op # "hoist"
    BY <1>3, Zenon DEF FlatOps
  <1>6. Sound(blocks, Append(c, i), TRUE)
    BY <1>4, <1>5, HoldIs, SoundLine
  <1> QED
    BY <1>1, <1>3, <1>6, SoundIsReach

(* Done() leaves the blocks but for what the last one has of its own.      *)
LEMMA KeptDone ==
  ASSUME NEW bs \in Seq(BlockType), Len(bs) > 0, NEW f \in BOOLEAN
  PROVE  /\ Done(bs, f) \in Seq(BlockType) /\ Len(Done(bs, f)) = Len(bs)
         /\ Kept(bs, Done(bs, f))
         /\ Live(bs, Len(bs)) /\ ~f => Live(Done(bs, f), Len(Done(bs, f)))
         /\ Last(Done(bs, f)).kind = Last(bs).kind
  <1> DEFINE cs == Done(bs, f)
             n == Len(bs)
  <1>1. /\ cs \in Seq(BlockType) /\ Len(cs) = n /\ Alike(bs, cs, n)
        /\ \A b \in 1..n - 1 : cs[b] = bs[b]
        /\ cs[n].all = bs[n].all /\ cs[n].hasElse = bs[n].hasElse
        /\ cs[n].returned <=> (bs[n].returned \/ f)
    BY DoneIs
  <1>2. n \in Nat /\ n > 0
    OBVIOUS
  <1> HIDE DEF cs, n
  <1>3. \A b \in 1..n : (b \in 1..n - 1 /\ b < n) \/ b = n
    BY <1>2
  <1>4. \A b \in 1..n : cs[b].kind = bs[b].kind
    BY <1>1 DEF Alike
  <1>5. n <= n /\ ~(n < n) /\ n \in 1..n
    BY <1>2
  <1>6. Kept(bs, cs)
    BY <1>1, <1>3, <1>4, <1>5 DEF Kept, n
  <1>7. Live(bs, n) /\ ~f => Live(cs, n)
    BY <1>1, <1>3 DEF Live
  <1>8. Last(cs).kind = Last(bs).kind
    BY <1>1, <1>4, <1>5 DEF Last, n
  <1> QED
    BY <1>1, <1>6, <1>7, <1>8 DEF cs, n

(* Return.                                                                 *)
LEMMA RetReach ==
  ASSUME Hold, NEW t \in Tokens, Ret(t)
  PROVE  Reach
  <1>1. \/ Refused
        \/ /\ Goes /\ UNCHANGED <<valued, loc, loops>> /\ Last(blocks).kind # "match"
           /\ blocks' = Done(blocks, TRUE)
           /\ \E i \in Line : i.op = "return" /\ code' = Append(code, i)
    BY HoldIs, RetDoes
  <1>2. CASE Refused
    BY <1>2, HoldIs
  <1>3. CASE ~Refused
    <2>1. PICK i \in Line : i.op = "return" /\ code' = Append(code, i)
      BY <1>1, <1>3
    <2>2. blocks' = Done(blocks, TRUE)
      BY <1>1, <1>3
    <2>3. i.op \in FlatOps \cup {"return", "bind"} /\ i.op # "hoist" /\ i.op \in Jumps
      BY <2>1, Zenon DEF Jumps
    <2>4. Done(blocks, TRUE) \in Seq(BlockType) /\ Kept(blocks, Done(blocks, TRUE))
      BY HoldIs, KeptDone
    <2>5. Sound(Done(blocks, TRUE), Append(code, i), TRUE)
      BY <2>3, <2>4, HoldIs, SoundLine
    <2> QED
      BY <2>1, <2>2, <2>5, SoundIsReach
  <1> QED
    BY <1>2, <1>3

(* The last block replaced by one that differs in what it has of its own.  *)
LEMMA KeptTop ==
  ASSUME NEW bs \in Seq(BlockType), Len(bs) > 0, NEW r \in BlockType,
         r.kind = Last(bs).kind,
         r.kind # "match" => r.hasElse = Last(bs).hasElse /\ r.all = Last(bs).all
  PROVE  LET cs == [bs EXCEPT ![Len(bs)] = r]
         IN  /\ cs \in Seq(BlockType) /\ Len(cs) = Len(bs) /\ Kept(bs, cs) /\ Last(cs) = r
             /\ Live(bs, Len(bs)) /\ ~r.returned => Live(cs, Len(cs))
  <1> DEFINE cs == [bs EXCEPT ![Len(bs)] = r]
             n == Len(bs)
  <1>1. /\ cs \in Seq(BlockType) /\ Len(cs) = n /\ cs[n] = r
        /\ \A b \in 1..n - 1 : cs[b] = bs[b]
    BY TopIs
  <1>2. n \in Nat /\ n > 0 /\ Last(bs) = bs[n]
    BY DEF Last
  <1> HIDE DEF cs, n
  <1>3. \A b \in 1..n : (b \in 1..n - 1 /\ b < n) \/ b = n
    BY <1>2
  <1>4. n <= n /\ ~(n < n) /\ n \in 1..n
    BY <1>2
  <1>5. \A b \in 1..n : cs[b].kind = bs[b].kind
    BY <1>1, <1>2, <1>3
  <1>6. Kept(bs, cs)
    BY <1>1, <1>2, <1>3, <1>4, <1>5 DEF Kept, n
  <1>7. Live(bs, n) /\ ~r.returned => Live(cs, n)
    BY <1>1, <1>3 DEF Live
  <1>8. Last(cs) = r
    BY <1>1 DEF Last
  <1> QED
    BY <1>1, <1>6, <1>7, <1>8 DEF cs, n

(* A match is opened: no line stands for it.                               *)
LEMMA SoundMatch ==
  ASSUME NEW bs \in Seq(BlockType), NEW c \in Seq(Line), Sound(bs, c, TRUE),
         NEW b \in BlockType, b.kind = "match", ~b.returned
  PROVE  Sound(Append(bs, b), c, TRUE)
  <1> DEFINE n == Len(bs)
             cs == Append(bs, b)
  <1>1. /\ cs \in Seq(BlockType) /\ Len(cs) = n + 1 /\ cs[n + 1] = b /\ n \in Nat
        /\ \A j \in 1..n : cs[j] = bs[j]
    BY PushPop
  <1>2. Live(cs, n + 1) <=> Live(bs, n)
    BY LivePush
  <1>3. PICK L, P : Flow(bs, c, L, P, TRUE)
    BY DEF Sound
  <1> HIDE DEF cs
  <1>4. ASSUME NEW k \in 1..Len(cs) PROVE HeadOf(cs, k, c, L, P)
    <2>1. CASE k \in 1..n
      <3>1. k <= Len(cs) /\ \A j \in 1..k : cs[j] = bs[j]
        BY <1>1, <2>1
      <3>2. HeadOf(bs, k, c, L, P)
        BY <1>3, <2>1 DEF Flow
      <3> QED
        BY <2>1, <3>1, <3>2, <1>1, HeadAgree
    <2>2. CASE k = n + 1
      <3>1. cs[k].kind = "match"
        BY <1>1, <2>2
      <3> QED
        BY <3>1, Zenon DEF HeadOf
    <2> QED
      BY <2>1, <2>2, <1>1
  <1>5. Flow(cs, c, L, P, TRUE)
    BY <1>1, <1>2, <1>3, <1>4 DEF Flow
  <1> QED
    BY <1>5 DEF Sound, cs

(* A match.                                                                *)
LEMMA MatchReach ==
  ASSUME Hold, NEW t \in Tokens, OpenMatch(t)
  PROVE  Reach
  <1>1. /\ Goes /\ UNCHANGED <<valued, loc, loops>> /\ Last(blocks).kind # "match"
        /\ blocks' = Append(blocks, Block("match", 0, 0))
        /\ \E i \in Line : i.op = "temp" /\ code' = Append(code, i)
    BY HoldIs, MatchDoes
  <1>2. PICK i \in Line : i.op = "temp" /\ code' = Append(code, i)
    BY <1>1
  <1>3. i.op \in FlatOps \cup {"return", "bind"} /\ i.op # "hoist"
    BY <1>2, Zenon DEF FlatOps
  <1>4. Sound(blocks, Append(code, i), TRUE)
    BY <1>3, HoldIs, SoundLine
  <1>5. Append(code, i) \in Seq(Line)
    BY HoldIs, SameAppend
  <1> DEFINE b == Block("match", 0, 0)
  <1>6. b \in BlockType /\ b.kind = "match" /\ ~b.returned
    <2>1. "match" \in Kinds /\ 0 \in Nat
      BY KindsAre
    <2> QED
      BY <2>1, BlockIs
  <1> HIDE DEF b
  <1>7. Sound(Append(blocks, b), Append(code, i), TRUE)
    BY <1>4, <1>5, <1>6, HoldIs, SoundMatch
  <1>8. blocks' = Append(blocks, b)
    BY <1>1 DEF b
  <1> QED
    BY <1>2, <1>7, <1>8, SoundIsReach

(* If, while and loop.                                                     *)
LEMMA OpenReach ==
  ASSUME Hold, NEW t \in Tokens, OpenIf(t) \/ OpenWhile(t) \/ OpenLoop(t)
  PROVE  Reach
  <1>1. \/ Refused
        \/ /\ Goes /\ UNCHANGED <<valued, loc>> /\ Last(blocks).kind # "match"
           /\ \E k \in {"if", "while", "loop"} :
                /\ blocks' = Append(blocks, Block(k, Len(loc), 0))
                /\ loops' = IF k = "if" THEN loops ELSE Append(loops, "")
                /\ \E c \in Seq(Line) : Ahead(code, c) /\
                     \E i \in Line : /\ i.op = k /\ code' = Append(c, i)
                                     /\ k = "loop" => i.x \in Name
    BY HoldIs, OpenDoes
  <1>2. CASE Refused
    BY <1>2, HoldIs
  <1>3. CASE ~Refused
    <2>1. PICK k \in {"if", "while", "loop"} :
             /\ blocks' = Append(blocks, Block(k, Len(loc), 0))
             /\ \E c \in Seq(Line) : Ahead(code, c) /\
                  \E i \in Line : /\ i.op = k /\ code' = Append(c, i)
                                  /\ k = "loop" => i.x \in Name
      BY <1>1, <1>3, Zenon
    <2>2. PICK c \in Seq(Line) : Ahead(code, c) /\
                  \E i \in Line : /\ i.op = k /\ code' = Append(c, i)
                                  /\ k = "loop" => i.x \in Name
      BY <2>1, Zenon
    <2>4. PICK i \in Line : /\ i.op = k /\ code' = Append(c, i)
                            /\ k = "loop" => i.x \in Name
      BY <2>2
    <2>5. Sound(blocks, c, Owed(blocks))
      BY <2>2, HoldIs, SoundAhead
    <2>6. Lev(blocks, Len(blocks)) = Bal(c, Len(c))
      <3>1. Stand(blocks, loc, loops, c)
        BY <2>2, HoldIs, KeepAhead
      <3> QED
        BY <3>1 DEF Stand
    <2> DEFINE b == Block(k, Len(loc), 0)
    <2>7. b \in BlockType /\ b.kind = k /\ ~b.returned /\ ~b.hasElse
      <3>1. k \in Kinds /\ Len(loc) \in Nat /\ 0 \in Nat
        BY HoldIs, KindsAre
      <3> QED
        BY <3>1, BlockIs
    <2> HIDE DEF b
    <2>8. /\ i.op \in Branches \cup {"while", "loop", "each"} /\ i.op \notin {"else", "elseif"}
          /\ b.kind \notin {"fn", "match", "range"} /\ IsHead(i.op, b)
          /\ i.op = "loop" => i.x \in Name
      <3>1. i.op = k /\ b.kind = k
        BY <2>4, <2>7
      <3>2. /\ k \in Branches \cup {"while", "loop", "each"} /\ k \notin {"else", "elseif"}
            /\ k \notin {"fn", "match", "range", "case", "else"}
        BY Zenon DEF Branches
      <3>3. IsHead(i.op, b)
        BY <3>1, <3>2, <2>7, Zenon DEF IsHead
      <3> QED
        BY <3>1, <3>2, <3>3, <2>4, Zenon
    <2>9. Sound(Append(blocks, b), Append(c, i), TRUE)
      BY <2>5, <2>6, <2>7, <2>8, HoldIs, SoundOpen
    <2>10. blocks' = Append(blocks, b)
      BY <2>1 DEF b
    <2> QED
      BY <2>4, <2>9, <2>10, SoundIsReach
  <1> QED
    BY <1>2, <1>3

(* For each.                                                               *)
LEMMA EachReach ==
  ASSUME Hold, NEW t \in Tokens, OpenEach(t)
  PROVE  Reach
  <1>1. \/ Refused
        \/ /\ blocks' = Append(blocks, Block("each", Len(loc) + 1, Len(loc)))
           /\ \E i \in Line : i.op = "each" /\ i.x = t.x /\ code' = Append(code, i)
    BY HoldIs, EachDoes
  <1>2. CASE Refused
    BY <1>2, HoldIs
  <1>3. CASE ~Refused
    <2>1. PICK i \in Line : i.op = "each" /\ code' = Append(code, i)
      BY <1>1, <1>3
    <2> DEFINE b == Block("each", Len(loc) + 1, Len(loc))
    <2>2. blocks' = Append(blocks, b)
      BY <1>1, <1>3
    <2>3. b \in BlockType /\ b.kind = "each" /\ ~b.returned /\ ~b.hasElse
      <3>1. "each" \in Kinds /\ Len(loc) \in Nat /\ Len(loc) + 1 \in Nat
        BY HoldIs, KindsAre
      <3> QED
        BY <3>1, BlockIs
    <2> HIDE DEF b
    <2>4. /\ i.op \in Branches \cup {"while", "loop", "each"} /\ i.op \notin {"else", "elseif"}
          /\ b.kind \notin {"fn", "match", "range"} /\ IsHead(i.op, b)
          /\ i.op = "loop" => i.x \in Name
      BY <2>1, <2>3, Zenon DEF IsHead
    <2>5. Sound(Append(blocks, b), Append(code, i), TRUE)
      BY <2>3, <2>4, HoldIs, SoundOpen
    <2> QED
      BY <2>1, <2>2, <2>5, SoundIsReach
  <1> QED
    BY <1>2, <1>3

(* A range.                                                                *)
LEMMA RangeReach ==
  ASSUME Hold, NEW t \in Tokens, OpenRange(t)
  PROVE  Reach
  <1>1. \/ Refused
        \/ /\ blocks' = Append(blocks, Block("range", Len(loc) + 1, Len(loc)))
           /\ \E i, j \in Line : /\ i.op = "scope" /\ i.x = t.x /\ j.op = "range"
                                 /\ code' = Append(Append(code, i), j)
    BY HoldIs, RangeDoes
  <1>2. CASE Refused
    BY <1>2, HoldIs
  <1>3. CASE ~Refused
    <2>1. PICK i, j \in Line : /\ i.op = "scope" /\ j.op = "range"
                               /\ code' = Append(Append(code, i), j)
      BY <1>1, <1>3
    <2> DEFINE b == Block("range", Len(loc) + 1, Len(loc))
    <2>2. blocks' = Append(blocks, b)
      BY <1>1, <1>3
    <2>3. b \in BlockType /\ b.kind = "range" /\ ~b.returned
      <3>1. "range" \in Kinds /\ Len(loc) \in Nat /\ Len(loc) + 1 \in Nat
        BY HoldIs, KindsAre
      <3> QED
        BY <3>1, BlockIs
    <2> HIDE DEF b
    <2>4. Sound(Append(blocks, b), Append(Append(code, i), j), TRUE)
      BY <2>1, <2>3, HoldIs, SoundRange
    <2> QED
      BY <2>1, <2>2, <2>4, SoundIsReach
  <1> QED
    BY <1>2, <1>3

(* A case of a match, and its else.                                        *)
LEMMA CaseReach ==
  ASSUME Hold, NEW t \in Tokens, OpenCase(t) \/ OpenCaseElse(t)
  PROVE  Reach
  <1> DEFINE p == Last(blocks)
             r1 == [p EXCEPT !.hasCase = TRUE]
             r2 == [p EXCEPT !.hasElse = TRUE]
             b1 == Block("case", Len(loc), 0)
             b2 == Block("else", Len(loc), 0)
  <1>1. PICK r \in {r1, r2}, b \in {b1, b2} :
          /\ p.kind = "match"
          /\ blocks' = Append([blocks EXCEPT ![Len(blocks)] = r], b)
          /\ \E i \in Line : /\ b = b1 => i.op \in {"if", "elseif"}
                             /\ b # b1 => i.op = "else"
                             /\ code' = Append(code, i)
    <2>1. CASE OpenCase(t)
      <3>1. /\ p.kind = "match"
            /\ blocks' = Append([blocks EXCEPT ![Len(blocks)].hasCase = TRUE], b1)
            /\ \E i \in Line : /\ i.op = (IF p.hasCase THEN "elseif" ELSE "if")
                               /\ code' = Append(code, i)
        BY <2>1, HoldIs, CaseDoes
      <3>2. \E i \in Line : i.op \in {"if", "elseif"} /\ code' = Append(code, i)
        BY <3>1, Zenon
      <3>3. [blocks EXCEPT ![Len(blocks)].hasCase = TRUE] = [blocks EXCEPT ![Len(blocks)] = r1]
        BY HoldIs DEF Last
      <3> HIDE DEF r1, r2, b1, b2
      <3> QED
        BY <3>1, <3>2, <3>3
    <2>2. CASE OpenCaseElse(t)
      <3>1. /\ p.kind = "match"
            /\ blocks' = Append([blocks EXCEPT ![Len(blocks)].hasElse = TRUE], b2)
            /\ \E i \in Line : i.op = "else" /\ code' = Append(code, i)
        BY <2>2, HoldIs, CaseElseDoes
      <3>2. b2 # b1
        <4>1. "case" \in Kinds /\ "else" \in Kinds /\ Len(loc) \in Nat /\ 0 \in Nat
          BY HoldIs, KindsAre
        <4>2. b2.kind = "else" /\ b1.kind = "case"
          BY <4>1, BlockIs
        <4> HIDE DEF b1, b2
        <4> QED
          BY <4>2
      <3>3. [blocks EXCEPT ![Len(blocks)].hasElse = TRUE] = [blocks EXCEPT ![Len(blocks)] = r2]
        BY HoldIs DEF Last
      <3> HIDE DEF r1, r2, b1, b2
      <3> QED
        BY <3>1, <3>2, <3>3
    <2> QED
      BY <2>1, <2>2
  <1>2. PICK i \in Line : /\ b = b1 => i.op \in {"if", "elseif"}
                          /\ b # b1 => i.op = "else"
                          /\ code' = Append(code, i)
    BY <1>1
  <1>3. /\ b \in BlockType /\ ~b.returned /\ b.kind \in {"case", "else"}
        /\ b.kind = "case" <=> b = b1
    <2>1. "case" \in Kinds /\ "else" \in Kinds /\ Len(loc) \in Nat /\ 0 \in Nat
      BY HoldIs, KindsAre
    <2>2. /\ b1 \in BlockType /\ ~b1.returned /\ b1.kind = "case"
          /\ b2 \in BlockType /\ ~b2.returned /\ b2.kind = "else"
      BY <2>1, BlockIs
    <2> HIDE DEF b1, b2
    <2> QED
      BY <2>2
  <1>4. /\ r \in BlockType /\ r.kind = p.kind /\ r.all = p.all /\ r.returned = p.returned
    <2>1. p \in BlockType /\ TRUE \in BOOLEAN
      BY HoldIs
    <2>2. r1 \in BlockType /\ r2 \in BlockType
      BY <2>1, FlagIs
    <2>3. /\ r1.kind = p.kind /\ r1.all = p.all /\ r1.returned = p.returned
          /\ r2.kind = p.kind /\ r2.all = p.all /\ r2.returned = p.returned
      BY <2>1, Zenon DEF BlockType
    <2> HIDE DEF r1, r2
    <2> QED
      BY <2>2, <2>3
  <1> DEFINE cs == [blocks EXCEPT ![Len(blocks)] = r]
  <1> HIDE DEF b1, b2, r1, r2
  <1>5. /\ cs \in Seq(BlockType) /\ Len(cs) = Len(blocks) /\ Kept(blocks, cs) /\ Last(cs) = r
        /\ Live(blocks, Len(blocks)) /\ ~r.returned => Live(cs, Len(cs))
    <2>1. r.kind = Last(blocks).kind /\ r.kind = "match"
      BY <1>1, <1>4
    <2> QED
      BY <2>1, <1>4, HoldIs, KeptTop
  <1>6. Live(blocks, Len(blocks)) => Live(cs, Len(cs))
    <2>1. Live(blocks, Len(blocks)) => ~p.returned
      BY HoldIs DEF Live
    <2> QED
      BY <2>1, <1>4, <1>5
  <1>7. i.op = "else" \/ i.op \in {"if", "elseif"}
    BY <1>2
  <1>8. /\ i.op \in Branches \cup {"while", "loop", "each"}
        /\ b.kind \notin {"fn", "match", "range"} /\ b.kind # "if"
        /\ i.op = "loop" => i.x \in Name
    BY <1>3, <1>7, Zenon DEF Branches
  <1>9. IsHead(i.op, b)
    <2>1. \/ b.kind = "case" /\ i.op \in {"if", "elseif"}
          \/ b.kind = "else" /\ i.op = "else"
      BY <1>2, <1>3
    <2> QED
      BY <2>1, Zenon DEF IsHead, Loops
  <1>10. (IF b.kind = "if" THEN b.all ELSE Last(cs).all) => Owed(blocks)
    BY <1>1, <1>4, <1>5, <1>8, HoldIs DEF Owed
  <1> HIDE DEF cs
  <1>11. Sound(Append(cs, b), Append(code, i), TRUE)
    BY <1>3, <1>5, <1>6, <1>8, <1>9, <1>10, HoldIs, SoundOpen
  <1>12. blocks' = Append(cs, b) /\ code' = Append(code, i)
    BY <1>1, <1>2 DEF cs
  <1> QED
    BY <1>11, <1>12, SoundIsReach

(* What holds with an obligation holds with a lesser one.                  *)
LEMMA SoundLess ==
  ASSUME NEW bs, NEW c, NEW A, NEW B, Sound(bs, c, A), B => A
  PROVE  Sound(bs, c, B)
  <1>1. PICK L, P : Flow(bs, c, L, P, A)
    BY DEF Sound
  <1>2. Flow(bs, c, L, P, B)
    BY <1>1, Zenon DEF Flow
  <1> QED
    BY <1>2, Zenon DEF Sound

(* Computing a condition opens and closes nothing.                         *)
LEMMA BalAhead ==
  ASSUME NEW c \in Seq(Line), NEW d \in Seq(Line), Ahead(c, d)
  PROVE  Bal(d, Len(d)) = Bal(c, Len(c))
  <1>1. CASE d = c
    BY <1>1
  <1>2. CASE d # c
    <2>1. PICK i \in Line : i.op \in {"inc", "hoist"} /\ d = Append(c, i)
      BY <1>2 DEF Ahead
    <2>2. i.op \notin Openings /\ i.op # "close"
      BY <2>1, Zenon DEF Openings, Loops
    <2>3. Len(d) = Len(c) + 1 /\ Bal(d, Len(c) + 1) = Bal(c, Len(c))
      BY <2>1, <2>2, SameAppend, BalAppend
    <2> QED
      BY <2>3
  <1> QED
    BY <1>1, <1>2

(* The blocks below the innermost.                                         *)
LEMMA KeptFront ==
  ASSUME NEW bs \in Seq(BlockType), Len(bs) > 1
  PROVE  /\ Front(bs) \in Seq(BlockType) /\ Len(Front(bs)) = Len(bs) - 1
         /\ Kept(bs, Front(bs))
         /\ Live(bs, Len(bs) - 1) <=> Live(Front(bs), Len(Front(bs)))
         /\ Last(Front(bs)) = bs[Len(bs) - 1]
  <1> DEFINE m == Len(bs)
             fs == Front(bs)
  <1>1. /\ fs \in Seq(BlockType) /\ Len(fs) = m - 1 /\ m - 1 \in Nat \ {0}
        /\ m \in 1..m /\ \A b \in 1..m - 1 : fs[b] = bs[b] /\ b \in 1..m
    BY Popped
  <1> HIDE DEF fs
  <1>2. Kept(bs, fs)
    BY <1>1 DEF Kept
  <1>3. Live(bs, m - 1) <=> Live(fs, m - 1)
    BY <1>1 DEF Live
  <1>4. Last(fs) = bs[m - 1]
    BY <1>1 DEF Last
  <1> QED
    BY <1>1, <1>2, <1>3, <1>4 DEF fs

(* The innermost block ends, with what it says of the one below.           *)
LEMMA KeptEnd ==
  ASSUME NEW bs \in Seq(BlockType), Len(bs) > 1, NEW f \in BOOLEAN
  PROVE  /\ Done(Front(bs), f) \in Seq(BlockType)
         /\ Len(Done(Front(bs), f)) = Len(bs) - 1
         /\ Kept(bs, Done(Front(bs), f))
         /\ Live(bs, Len(bs) - 1) /\ ~f =>
              Live(Done(Front(bs), f), Len(Done(Front(bs), f)))
         /\ Last(Done(Front(bs), f)).kind = bs[Len(bs) - 1].kind
  <1> DEFINE fs == Front(bs)
             cs == Done(fs, f)
             n == Len(bs) - 1
  <1>1. /\ fs \in Seq(BlockType) /\ Len(fs) = n /\ Kept(bs, fs) /\ Len(bs) - 1 \in Nat \ {0}
        /\ Live(bs, n) <=> Live(fs, Len(fs))
        /\ Last(fs) = bs[n]
    BY KeptFront
  <1> HIDE DEF fs
  <1>2. /\ Len(fs) > 0 /\ fs \in Seq(BlockType)
    BY <1>1
  <1>3. /\ cs \in Seq(BlockType) /\ Len(cs) = Len(fs) /\ Kept(fs, cs)
        /\ Live(fs, Len(fs)) /\ ~f => Live(cs, Len(cs))
        /\ Last(cs).kind = Last(fs).kind
    BY <1>2, KeptDone
  <1>4. \A b \in 1..n : fs[b] = bs[b]
    BY Popped DEF fs
  <1> HIDE DEF cs
  <1>5. Kept(bs, cs)
    BY <1>1, <1>3, <1>4 DEF Kept
  <1> QED
    BY <1>1, <1>3, <1>5 DEF cs, fs

(* Only cases and else branches stand directly on a match.                 *)
LEMMA OnMatch ==
  ASSUME NEW bs, NEW l, NEW lo, NEW c, Stand(bs, l, lo, c), Len(bs) > 1
  PROVE  /\ Last(bs).kind \in {"case", "else"} <=> bs[Len(bs) - 1].kind = "match"
         /\ bs[Len(bs) - 1].kind = "match" => Len(bs) - 1 > 1 /\ bs[Len(bs) - 2].kind # "match"
  <1>1. Shape(bs) /\ bs \in Seq(BlockType)
    BY DEF Stand
  <1>2. Len(bs) \in Nat /\ Len(bs) \in 1..Len(bs) /\ Len(bs) - 1 \in 1..Len(bs)
    BY <1>1
  <1>3. Last(bs).kind \in {"case", "else"} <=> bs[Len(bs) - 1].kind = "match"
    BY <1>1, <1>2 DEF Shape, Last
  <1>4. ASSUME bs[Len(bs) - 1].kind = "match"
        PROVE  Len(bs) - 1 > 1 /\ bs[Len(bs) - 2].kind # "match"
    <2>1. bs[Len(bs) - 1].kind \notin {"fn", "case", "else"}
      BY <1>4, Zenon
    <2>2. Len(bs) - 1 # 1
      BY <2>1, <1>1, <1>2 DEF Shape
    <2>3. (Len(bs) - 1) - 1 = Len(bs) - 2 /\ Len(bs) - 1 > 1
      <3>1. \A n \in Nat : n > 1 /\ n - 1 # 1 => (n - 1) - 1 = n - 2 /\ n - 1 > 1
        OBVIOUS
      <3>2. Len(bs) \in Nat /\ Len(bs) > 1
        BY <1>2
      <3> QED
        BY <3>1, <3>2, <2>2, Zenon
    <2>4. bs[(Len(bs) - 1) - 1].kind # "match"
      BY <2>1, <2>3, <1>1, <1>2 DEF Shape
    <2> QED
      BY <2>3, <2>4
  <1> QED
    BY <1>3, <1>4

(* What a closing step finds.                                              *)
LEMMA ShutFinds ==
  ASSUME Hold, Last(blocks).kind # "fn"
  PROVE  /\ Len(blocks) > 1 /\ Len(blocks) \in Nat
         /\ CloseLine \in Line /\ CloseLine.op = "close"
         /\ Append(code, CloseLine) \in Seq(Line)
         /\ Bal(Append(code, CloseLine), Len(Append(code, CloseLine))) = Bal(code, Len(code)) - 1
         /\ Last(blocks).returned \in BOOLEAN /\ Last(blocks).all \in BOOLEAN
         /\ Last(blocks).hasElse \in BOOLEAN
  <1>1. Len(blocks) > 1
    BY HoldIs, StandIs
  <1>2. CloseLine \in Line /\ CloseLine.op = "close" /\ Append(code, CloseLine) \in Seq(Line)
    BY HoldIs, CloseLineIs
  <1>3. Bal(Append(code, CloseLine), Len(code) + 1) = Bal(code, Len(code)) - 1
        /\ Len(Append(code, CloseLine)) = Len(code) + 1
    BY <1>2, HoldIs, BalAppend, SameAppend
  <1>4. /\ Last(blocks).returned \in BOOLEAN /\ Last(blocks).all \in BOOLEAN
        /\ Last(blocks).hasElse \in BOOLEAN
    BY HoldIs, FieldIs
  <1>5. Len(blocks) \in Nat
    BY HoldIs
  <1> QED
    BY <1>1, <1>2, <1>3, <1>4, <1>5

(* The next branch of an if.                                               *)
LEMMA BranchReach ==
  ASSUME Hold, NEW t \in Tokens, NextBranch(t)
  PROVE  Reach
  <1>1. /\ valued' = valued /\ loops' = loops /\ loc' = Dropped
        /\ Last(blocks).kind = "if" /\ ~Last(blocks).hasElse
        /\ t.k \in {"else", "elseif"}
        /\ \/ verdict' = "rejected" /\ UNCHANGED <<blocks, code>>
           \/ /\ Goes
              /\ blocks' = [blocks EXCEPT ![Len(blocks)] =
                              Branched(Last(blocks), t.k = "else", Len(loc'))]
              /\ \E i \in Line : /\ i.op = t.k
                   /\ code' = Append(Prepared(Append(code, CloseLine), t), i)
    BY HoldIs, BranchDoes
  <1>2. CASE verdict' = "rejected"
    BY <1>2 DEF Reach
  <1>3. CASE verdict' # "rejected"
    <2>1. PICK i \in Line : i.op = t.k
                 /\ code' = Append(Prepared(Append(code, CloseLine), t), i)
      BY <1>1, <1>3
    <2> DEFINE top == Last(blocks)
               fs == Front(blocks)
               c1 == Append(code, CloseLine)
               c2 == Prepared(c1, t)
               f == (t.k = "else")
               b == Branched(top, f, Len(loc'))
               A == Owing(blocks, Len(blocks)) /\ top.returned
    <2>2. blocks' = [blocks EXCEPT ![Len(blocks)] = b]
      BY <1>1, <1>3
    <2>3. /\ Len(blocks) > 1 /\ CloseLine \in Line /\ CloseLine.op = "close"
          /\ c1 \in Seq(Line) /\ Bal(c1, Len(c1)) = Bal(code, Len(code)) - 1
      BY <1>1, ShutFinds
    <2>4. /\ fs \in Seq(BlockType) /\ Len(fs) = Len(blocks) - 1 /\ Kept(blocks, fs)
          /\ Live(blocks, Len(blocks) - 1) <=> Live(fs, Len(fs))
          /\ Len(fs) > 0
      <3>1. blocks \in Seq(BlockType) /\ Len(blocks) > 1
        BY <2>3, HoldIs
      <3>2. /\ fs \in Seq(BlockType) /\ Len(fs) = Len(blocks) - 1 /\ Kept(blocks, fs)
            /\ Live(blocks, Len(blocks) - 1) <=> Live(fs, Len(fs))
        BY <3>1, KeptFront
      <3> QED
        BY <3>1, <3>2
    <2>5. Lev(fs, Len(fs)) = Bal(c1, Len(c1))
      <3>1. top.kind \notin {"fn", "match", "range"}
        BY <1>1, Zenon
      <3>2. /\ Lev(blocks, Len(blocks)) = Lev(blocks, Len(blocks) - 1) + 1
            /\ Lev(fs, Len(blocks) - 1) = Lev(blocks, Len(blocks) - 1)
            /\ Len(blocks) - 1 \in Nat
        BY <3>1, <2>3, HoldIs, Popped
      <3>3. Lev(blocks, Len(blocks) - 1) \in Nat
        BY <3>2, HoldIs, LevSteps
      <3>4. Lev(blocks, Len(blocks)) = Bal(code, Len(code))
        BY HoldIs
      <3> HIDE DEF fs, c1
      <3> QED
        BY <3>2, <3>3, <3>4, <2>3, <2>4
    <2> HIDE DEF fs, c1
    <2>6. Sound(fs, c1, A)
      <3>1. top.kind \in {"if", "case", "else"}
        BY <1>1
      <3> QED
        BY <3>1, <2>3, <2>4, HoldIs, SoundShutBranch DEF c1
    <2>7. Ahead(c1, c2) /\ c2 \in Seq(Line)
      BY <2>3, PreparedIs
    <2> HIDE DEF c2
    <2>9. Sound(fs, c2, A)
      BY <2>3, <2>4, <2>6, <2>7, SoundAhead
    <2>10. Lev(fs, Len(fs)) = Bal(c2, Len(c2))
      BY <2>3, <2>5, <2>7, BalAhead
    <2>11. top \in BlockType /\ f \in BOOLEAN /\ Len(loc') \in Nat
      <3>1. top \in BlockType
        BY HoldIs
      <3>2. Dropped \in Seq(Local)
        <4>1. top.kind # "match"
          BY <1>1, Zenon
        <4> QED
          BY <4>1, HoldIs, DroppedIs
      <3>3. Len(loc') \in Nat
        BY <3>2, <1>1
      <3> QED
        BY <3>1, <3>3
    <2>12. /\ b \in BlockType /\ b.kind = "if" /\ ~b.returned
           /\ b.all <=> top.all /\ top.returned
           /\ b.hasElse <=> t.k = "else"
      <3> HIDE DEF f
      <3>1. /\ b \in BlockType /\ b.kind = top.kind /\ ~b.returned
            /\ b.all <=> (top.all /\ top.returned)
            /\ b.hasElse <=> f
        BY <2>11, BranchedIs
      <3> QED
        BY <3>1, <1>1 DEF f
    <2> HIDE DEF b
    <2>13. b.all => A
      <3>1. Owing(blocks, Len(blocks)) <=> top.all
        BY <1>1, HoldIs DEF Owing
      <3> QED
        BY <3>1, <2>12
    <2>14. /\ i.op \in Branches \cup {"while", "loop", "each"}
           /\ b.kind \notin {"fn", "match", "range"}
           /\ i.op = "loop" => i.x \in Name
      BY <2>1, <2>12, <1>1, Zenon DEF Branches
    <2>15. IsHead(i.op, b)
      <3>1. IF b.hasElse THEN i.op = "else" ELSE i.op \in {"if", "elseif"}
        BY <2>1, <2>12, <1>1
      <3> QED
        BY <3>1, <2>12, Zenon DEF IsHead, Loops
    <2>16. Kept(fs, fs) /\ Len(fs) = Len(fs)
      BY <2>4, KeptSelf
    <2>17. Sound(Append(fs, b), Append(c2, i), TRUE)
      <3>1. i.op \in {"else", "elseif"} =>
              ((IF b.kind = "if" THEN b.all ELSE Last(fs).all) => A)
        BY <2>12, <2>13
      <3> HIDE DEF A
      <3> QED
        BY <3>1, <2>4, <2>7, <2>9, <2>10, <2>12, <2>14, <2>15, <2>16, SoundOpen
    <2>18. blocks' = Append(fs, b)
      <3>1. Append(fs, b) = [blocks EXCEPT ![Len(blocks)] = b]
        BY <2>3, <2>12, HoldIs, Replace DEF fs
      <3> QED
        BY <3>1, <2>2
    <2>19. code' = Append(c2, i)
      BY <2>1 DEF c1, c2
    <2> QED
      BY <2>17, <2>18, <2>19, SoundIsReach
  <1> QED
    BY <1>2, <1>3

(* The end of an if.                                                       *)
LEMMA ShutIfReach ==
  ASSUME Hold, NEW t \in Tokens, CloseIf(t)
  PROVE  Reach
  <1> DEFINE top == Last(blocks)
             f == top.hasElse /\ top.all /\ top.returned
             cs == Done(Front(blocks), f)
             e == Append(code, CloseLine)
             A == Owing(blocks, Len(blocks)) /\ top.returned
  <1>1. top.kind = "if" /\ code' = e /\ blocks' = cs
    BY HoldIs, ShutIfDoes
  <1>2. top.kind # "fn" /\ top.kind \in {"if", "case", "else"} /\ top.kind \notin {"case", "else"}
    BY <1>1, Zenon
  <1>3. Len(blocks) > 1 /\ CloseLine \in Line /\ CloseLine.op = "close"
    BY <1>2, ShutFinds
  <1>4. f \in BOOLEAN
    BY Zenon
  <1>5. /\ cs \in Seq(BlockType) /\ Kept(blocks, cs)
        /\ Live(blocks, Len(blocks) - 1) /\ ~f => Live(cs, Len(cs))
        /\ Last(cs).kind = blocks[Len(blocks) - 1].kind
    <2> HIDE DEF f
    <2> QED
      BY <1>3, <1>4, HoldIs, KeptEnd
  <1>6. f <=> Closed(top) /\ Owing(blocks, Len(blocks)) /\ top.returned
    <2>1. Closed(top) <=> top.hasElse
      BY <1>1, Zenon DEF Closed
    <2>2. Owing(blocks, Len(blocks)) <=> top.all
      BY <1>1, HoldIs DEF Owing
    <2> QED
      BY <2>1, <2>2
  <1> HIDE DEF cs, f
  <1>7. Sound(cs, e, A)
    <2>1. Live(blocks, Len(blocks) - 1)
            => (Closed(top) /\ Owing(blocks, Len(blocks)) /\ top.returned) \/ Live(cs, Len(cs))
      BY <1>5, <1>6
    <2> QED
      BY <2>1, <1>2, <1>3, <1>5, HoldIs, SoundShutBranch
  <1>8. ~Owed(cs)
    BY <1>2, <1>3, <1>5, HoldIs, OnMatch DEF Owed
  <1> HIDE DEF A
  <1>9. Sound(cs, e, Owed(cs))
    BY <1>7, <1>8, SoundLess
  <1> QED
    BY <1>1, <1>9 DEF Reach

(* The end of a loop.                                                      *)
LEMMA ShutLoopReach ==
  ASSUME Hold, NEW t \in Tokens, CloseLoop(t)
  PROVE  Reach
  <1> DEFINE top == Last(blocks)
             cs == Done(Front(blocks), FALSE)
             e == Append(code, CloseLine)
  <1>1. top.kind \in {"while", "loop", "each"} /\ code' = e /\ blocks' = cs
    BY HoldIs, ShutLoopDoes
  <1>2. top.kind # "fn" /\ top.kind \in Loops
    BY <1>1, Zenon DEF Loops
  <1>3. Len(blocks) > 1 /\ CloseLine \in Line /\ CloseLine.op = "close"
    BY <1>2, ShutFinds
  <1>4. /\ cs \in Seq(BlockType) /\ Kept(blocks, cs)
        /\ Live(blocks, Len(blocks) - 1) => Live(cs, Len(cs))
    BY <1>3, HoldIs, KeptEnd
  <1> HIDE DEF cs
  <1>5. Sound(cs, e, TRUE)
    BY <1>2, <1>3, <1>4, HoldIs, SoundShutLoop
  <1> QED
    BY <1>1, <1>5, SoundIsReach

(* The end of a range.                                                     *)
LEMMA ShutRangeReach ==
  ASSUME Hold, NEW t \in Tokens, CloseRange(t)
  PROVE  Reach
  <1> DEFINE top == Last(blocks)
             cs == Done(Front(blocks), FALSE)
  <1>1. top.kind = "range"
    BY DEF CloseRange, Closing
  <1>2. top.kind # "fn" /\ top.kind \in Loops
    BY <1>1, Zenon DEF Loops
  <1>3. Len(loops) > 0
    BY <1>2, HoldIs, LoopsFront
  <1>4. /\ blocks' = cs
        /\ \E i \in Line : /\ i.op = "inc" /\ i.x = Last(loops)
                           /\ code' = Append(Append(Append(code, i), CloseLine), CloseLine)
    BY <1>3, HoldIs, ShutRangeDoes
  <1>5. PICK i \in Line :
           code' = Append(Append(Append(code, i), CloseLine), CloseLine) /\ i.op = "inc"
    BY <1>4, Zenon
  <1>6. Len(blocks) > 1 /\ CloseLine \in Line /\ CloseLine.op = "close"
    BY <1>2, ShutFinds
  <1>7. /\ cs \in Seq(BlockType) /\ Kept(blocks, cs)
        /\ Live(blocks, Len(blocks) - 1) => Live(cs, Len(cs))
    BY <1>6, HoldIs, KeptEnd
  <1> HIDE DEF cs
  <1>8. Sound(cs, Append(Append(Append(code, i), CloseLine), CloseLine), TRUE)
    BY <1>1, <1>5, <1>6, <1>7, HoldIs, SoundShutRange
  <1> QED
    BY <1>4, <1>5, <1>8, SoundIsReach

(* The end of a case.                                                      *)
LEMMA ShutCaseReach ==
  ASSUME Hold, NEW t \in Tokens, CloseCase(t)
  PROVE  Reach
  <1> DEFINE top == Last(blocks)
             fs == Front(blocks)
             p == Last(fs)
             g == p.all /\ top.returned
             r == [p EXCEPT !.all = g]
             cs == [fs EXCEPT ![Len(fs)] = r]
             e == Append(code, CloseLine)
             A == Owing(blocks, Len(blocks)) /\ top.returned
  <1>1. /\ top.kind = "case" /\ code' = e
        /\ blocks' = [fs EXCEPT ![Len(fs)].all = @ /\ top.returned]
    BY HoldIs, ShutCaseDoes
  <1>2. top.kind # "fn" /\ top.kind \in {"if", "case", "else"} /\ top.kind \in {"case", "else"}
        /\ top.kind # "if"
    BY <1>1, Zenon
  <1>3. Len(blocks) > 1 /\ CloseLine \in Line /\ CloseLine.op = "close"
    BY <1>2, ShutFinds
  <1>4. blocks[Len(blocks) - 1].kind = "match"
    BY <1>2, <1>3, HoldIs, OnMatch
  <1>5. /\ fs \in Seq(BlockType) /\ Len(fs) = Len(blocks) - 1 /\ Kept(blocks, fs)
        /\ Live(blocks, Len(blocks) - 1) <=> Live(fs, Len(fs))
        /\ p = blocks[Len(blocks) - 1]
    BY <1>3, HoldIs, KeptFront
  <1>6. Len(fs) > 0 /\ p = fs[Len(fs)] /\ p \in BlockType /\ Len(blocks) > 1
        /\ \A b \in 1..Len(fs) : fs[b] = blocks[b]
    <2>1. Len(fs) > 0 /\ p = fs[Len(fs)]
      BY <1>3, <1>5 DEF Last
    <2>2. \A b \in 1..Len(blocks) - 1 : fs[b] = blocks[b]
      BY <1>3, HoldIs, Popped
    <2> HIDE DEF fs, p
    <2>3. p \in BlockType
      BY <2>1, <1>5
    <2> QED
      BY <2>1, <2>2, <2>3, <1>3, <1>5
  <1>7. g \in BOOLEAN
    BY Zenon
  <1>8. /\ r \in BlockType /\ r.kind = p.kind /\ r.returned = p.returned
        /\ r.all = g
    <2> HIDE DEF p, g
    <2>1. r \in BlockType
      BY <1>6, <1>7, FlagIs
    <2>2. r.kind = p.kind /\ r.returned = p.returned /\ r.all = g
      BY <1>6, Zenon DEF BlockType
    <2> QED
      BY <2>1, <2>2
  <1>9. blocks' = cs
    BY <1>1, <1>5, <1>6
  <1> HIDE DEF r, g
  <1>10. /\ cs \in Seq(BlockType) /\ Len(cs) = Len(fs) /\ Kept(fs, cs) /\ Last(cs) = r
         /\ Live(fs, Len(fs)) /\ ~r.returned => Live(cs, Len(cs))
    <2>1. r.kind # "match" => r.hasElse = Last(fs).hasElse /\ r.all = Last(fs).all
      BY <1>4, <1>5, <1>8
    <2> HIDE DEF fs
    <2> QED
      BY <2>1, <1>5, <1>6, <1>8, KeptTop
  <1>11. Live(blocks, Len(blocks) - 1) => Live(cs, Len(cs))
    <2>1. Live(fs, Len(fs)) => ~p.returned
      <3> HIDE DEF fs, p
      <3>1. Len(fs) \in 1..Len(fs)
        BY <1>5, <1>6
      <3> QED
        BY <3>1, <1>6 DEF Live
    <2> QED
      BY <2>1, <1>5, <1>8, <1>10
  <1>12. Kept(blocks, cs)
    <2> HIDE DEF fs, cs, p
    <2>1. /\ Len(cs) <= Len(blocks)
          /\ \A k \in 1..Len(cs) : fs[k] = blocks[k]
      BY <1>3, <1>5, <1>6, <1>10
    <2> QED
      BY <2>1, <1>10 DEF Kept
  <1> HIDE DEF cs
  <1>13. Sound(cs, e, A)
    <2>1. Live(blocks, Len(blocks) - 1)
            => (Closed(top) /\ Owing(blocks, Len(blocks)) /\ top.returned) \/ Live(cs, Len(cs))
      BY <1>11
    <2> QED
      BY <2>1, <1>2, <1>3, <1>10, <1>12, HoldIs, SoundShutBranch
  <1>14. Owed(cs) => A
    <2>1. Owed(cs) => p.all /\ top.returned
      BY <1>8, <1>10 DEF Owed, g
    <2>2. Owing(blocks, Len(blocks)) <=> p.all
      BY <1>2, <1>3, <1>5, HoldIs DEF Owing
    <2> QED
      BY <2>1, <2>2
  <1> HIDE DEF A
  <1>15. Sound(cs, e, Owed(cs))
    BY <1>13, <1>14, SoundLess
  <1> QED
    BY <1>1, <1>9, <1>15 DEF Reach

(* The end of the else of a match, and of the match.                       *)
LEMMA ShutElseReach ==
  ASSUME Hold, NEW t \in Tokens, CloseCaseElse(t)
  PROVE  Reach
  <1> DEFINE top == Last(blocks)
             p == blocks[Len(blocks) - 1]
             fs == Front(blocks)
             f == p.hasCase /\ p.all /\ top.returned
             cs == Done(Front(fs), f)
             e == Append(code, CloseLine)
             A == Owing(blocks, Len(blocks)) /\ top.returned
  <1>1. top.kind = "else" /\ code' = e /\ blocks' = cs
    BY HoldIs, ShutElseDoes
  <1>2. top.kind # "fn" /\ top.kind \in {"if", "case", "else"} /\ top.kind \in {"case", "else"}
        /\ top.kind # "if"
    BY <1>1, Zenon
  <1>3. Len(blocks) > 1 /\ CloseLine \in Line /\ CloseLine.op = "close" /\ Len(blocks) \in Nat
    BY <1>2, ShutFinds
  <1>4. p.kind = "match" /\ Len(blocks) - 1 > 1 /\ blocks[Len(blocks) - 2].kind # "match"
    BY <1>2, <1>3, HoldIs, OnMatch
  <1>5. /\ fs \in Seq(BlockType) /\ Len(fs) = Len(blocks) - 1
        /\ Live(blocks, Len(blocks) - 1) <=> Live(fs, Len(fs))
        /\ \A b \in 1..Len(blocks) - 1 : fs[b] = blocks[b]
    BY <1>3, HoldIs, KeptFront, Popped
  <1>6. f \in BOOLEAN
    BY Zenon
  <1> HIDE DEF fs, f
  <1>7. /\ cs \in Seq(BlockType) /\ Len(cs) = Len(fs) - 1 /\ Kept(fs, cs)
        /\ Live(fs, Len(fs) - 1) /\ ~f => Live(cs, Len(cs))
        /\ Last(cs).kind = fs[Len(fs) - 1].kind
    <2>1. Len(fs) > 1
      BY <1>4, <1>5
    <2> QED
      BY <2>1, <1>5, <1>6, KeptEnd
  <1> HIDE DEF cs
  <1>8. Kept(blocks, cs)
    <2>1. /\ Len(cs) <= Len(blocks)
          /\ \A k \in 1..Len(cs) : fs[k] = blocks[k]
      BY <1>3, <1>5, <1>7
    <2> QED
      BY <2>1, <1>7 DEF Kept
  <1>9. Live(fs, Len(fs)) => Live(fs, Len(fs) - 1)
    BY <1>3, <1>5 DEF Live
  <1>10. Closed(top) /\ (Owing(blocks, Len(blocks)) <=> p.all)
    <2>1. Closed(top)
      BY <1>1 DEF Closed
    <2>2. Owing(blocks, Len(blocks)) <=> p.all
      BY <1>2, <1>3, HoldIs DEF Owing
    <2> QED
      BY <2>1, <2>2
  <1>11. Sound(cs, e, A)
    <2>1. Live(blocks, Len(blocks) - 1)
            => (Closed(top) /\ Owing(blocks, Len(blocks)) /\ top.returned) \/ Live(cs, Len(cs))
      BY <1>5, <1>7, <1>9, <1>10 DEF f
    <2> QED
      BY <2>1, <1>2, <1>3, <1>7, <1>8, HoldIs, SoundShutBranch
  <1>12. ~Owed(cs)
    <2>1. Len(fs) - 1 = Len(blocks) - 2 /\ Len(blocks) - 2 \in 1..Len(blocks) - 1
      BY <1>3, <1>4, <1>5
    <2> QED
      BY <2>1, <1>4, <1>5, <1>7 DEF Owed
  <1> HIDE DEF A
  <1>13. Sound(cs, e, Owed(cs))
    BY <1>11, <1>12, SoundLess
  <1> QED
    BY <1>1, <1>13 DEF Reach

(* The end of a match that has no else.                                    *)
LEMMA ShutMatchReach ==
  ASSUME Hold, NEW t \in Tokens, CloseMatch(t)
  PROVE  Reach
  <1>1. \/ Refused
        \/ /\ Goes /\ UNCHANGED <<valued, loc, loops, code>>
           /\ Last(blocks).kind = "match" /\ blocks' = Done(Front(blocks), FALSE)
    BY HoldIs, ShutMatchDoes
  <1>2. CASE Refused
    BY <1>2, HoldIs
  <1>3. CASE ~Refused
    <2> DEFINE cs == Done(Front(blocks), FALSE)
    <2>1. code' = code /\ Last(blocks).kind = "match" /\ blocks' = cs
      BY <1>1, <1>3
    <2>2. Last(blocks).kind \notin {"fn", "case", "else"} /\ Last(blocks).kind # "fn"
      BY <2>1, Zenon
    <2>3. Len(blocks) > 1 /\ Len(blocks) \in Nat
      BY <2>2, ShutFinds
    <2>4. /\ cs \in Seq(BlockType) /\ Kept(blocks, cs)
          /\ Live(blocks, Len(blocks) - 1) => Live(cs, Len(cs))
          /\ Last(cs).kind = blocks[Len(blocks) - 1].kind
      BY <2>3, HoldIs, KeptEnd
    <2> HIDE DEF cs
    <2>5. Live(blocks, Len(blocks)) => Live(cs, Len(cs))
      BY <2>3, <2>4 DEF Live
    <2>6. ~Owed(cs)
      BY <2>2, <2>3, <2>4, HoldIs, OnMatch DEF Owed
    <2>7. PICK L, P : Flow(blocks, code, L, P, Owed(blocks))
      BY HoldIs DEF Sound
    <2>8. Flow(cs, code, L, P, Owed(blocks))
      BY <2>4, <2>5, <2>7, HoldIs, FlowDrop
    <2>9. Flow(cs, code, L, P, Owed(cs))
      BY <2>6, <2>8 DEF Flow
    <2>10. Text(code)
      BY HoldIs DEF Sound
    <2>11. Sound(cs, code, Owed(cs))
      BY <2>9, <2>10 DEF Sound
    <2> QED
      BY <2>1, <2>11 DEF Reach
  <1> QED
    BY <1>2, <1>3

(* Every statement keeps the text whole, or ends the body.                 *)
LEMMA StepReach ==
  ASSUME Hold, Parse
  PROVE  Reach \/ Accepting
  <1>1. PICK t \in Tokens :
           \/ Bind(t) \/ Use(t) \/ Set(t) \/ Del(t)
           \/ Break(t) \/ Continue(t) \/ Ret(t)
           \/ OpenIf(t) \/ NextBranch(t) \/ OpenWhile(t) \/ OpenLoop(t)
           \/ OpenRange(t) \/ OpenEach(t)
           \/ OpenMatch(t) \/ OpenCase(t) \/ OpenCaseElse(t)
           \/ CloseIf(t) \/ CloseLoop(t) \/ CloseRange(t)
           \/ CloseCase(t) \/ CloseCaseElse(t) \/ CloseMatch(t) \/ CloseFunction(t)
    BY DEF Parse
  <1>2. CASE Use(t) \/ Set(t) \/ Del(t) \/ Break(t)
    BY <1>2, FlatReach
  <1>3. CASE Bind(t)
    BY <1>3, BindReach
  <1>4. CASE Continue(t)
    BY <1>4, ContinueReach
  <1>5. CASE Ret(t)
    BY <1>5, RetReach
  <1>6. CASE OpenIf(t) \/ OpenWhile(t) \/ OpenLoop(t)
    BY <1>6, OpenReach
  <1>7. CASE NextBranch(t)
    BY <1>7, BranchReach
  <1>8. CASE OpenRange(t)
    BY <1>8, RangeReach
  <1>9. CASE OpenEach(t)
    BY <1>9, EachReach
  <1>10. CASE OpenMatch(t)
    BY <1>10, MatchReach
  <1>11. CASE OpenCase(t) \/ OpenCaseElse(t)
    BY <1>11, CaseReach
  <1>12. CASE CloseIf(t)
    BY <1>12, ShutIfReach
  <1>13. CASE CloseLoop(t)
    BY <1>13, ShutLoopReach
  <1>14. CASE CloseRange(t)
    BY <1>14, ShutRangeReach
  <1>15. CASE CloseCase(t)
    BY <1>15, ShutCaseReach
  <1>16. CASE CloseCaseElse(t)
    BY <1>16, ShutElseReach
  <1>17. CASE CloseMatch(t)
    BY <1>17, ShutMatchReach
  <1>18. CASE CloseFunction(t)
    <2>1. Progress \/ Accepting
      BY <1>18, HoldIs, ShutFunctionKeeps
    <2>2. Refused \/ verdict' = "accepted"
      BY <1>18, HoldIs, ShutFunctionDoes
    <2>3. "accepted" # "parse" /\ "accepted" # "rejected"
      BY Zenon
    <2> QED
      BY <2>1, <2>2, <2>3, HoldIs DEF Progress
  <1> QED
    BY <1>1, <1>2, <1>3, <1>4, <1>5, <1>6, <1>7, <1>8, <1>9, <1>10, <1>11, <1>12,
       <1>13, <1>14, <1>15, <1>16, <1>17, <1>18

(* A finished text: its braces match, and with a result to return control  *)
(* never reaches its end.                                                  *)
Sealed ==
  /\ code \in Seq(Line) /\ Text(code) /\ Bal(code, Len(code)) = 0
  /\ \E L, P : Paths(code, L, P) /\ (valued => Len(code) + 1 \notin L)

Written ==
  /\ Reading
  /\ verdict = "parse" => Sound(blocks, code, Owed(blocks))
  /\ verdict = "accepted" => Sealed

(* The empty text.                                                         *)
LEMMA FirstSound ==
  ASSUME Init
  PROVE  Sound(blocks, code, Owed(blocks))
  <1> DEFINE b == Block("fn", 0, 0)
  <1>1. b \in BlockType /\ b.kind = "fn" /\ ~b.returned
    <2>1. "fn" \in Kinds /\ 0 \in Nat
      BY Zenon DEF Kinds
    <2> QED
      BY <2>1, BlockIs
  <1>2. blocks = <<b>> /\ code = <<>>
    BY Zenon DEF Init
  <1> HIDE DEF b
  <1>3. /\ Len(blocks) = 1 /\ blocks[1] = b /\ Len(code) = 0 /\ 1..Len(code) = {}
        /\ code \in Seq(Line)
    <2> HIDE DEF Line
    <2> QED
      BY <1>2
  <1>4. Paths(code, {1}, {})
    BY <1>3 DEF Paths
  <1>5. Live(blocks, Len(blocks))
    BY <1>1, <1>3 DEF Live
  <1>6. \A k \in 1..Len(blocks) : HeadOf(blocks, k, code, {1}, {})
    BY <1>3 DEF HeadOf
  <1>7. Flow(blocks, code, {1}, {}, Owed(blocks))
    BY <1>4, <1>5, <1>6 DEF Flow
  <1>8. Text(code)
    <2>1. Bal(code, 0) = 0
      BY <1>3, BalSteps
    <2> QED
      BY <1>3, <2>1 DEF Text
  <1> QED
    BY <1>7, <1>8 DEF Sound

(* A step of the reader, or none.                                          *)
LEMMA WrittenKept ==
  ASSUME Written, [Parse]_vars
  PROVE  Written'
  <1>1. Reading'
    BY ReadingKept DEF Written
  <1>2. CASE UNCHANGED vars
    <2>1. valued' = valued /\ blocks' = blocks /\ code' = code /\ verdict' = verdict
      BY <1>2, Zenon DEF vars
    <2> QED
      BY <1>1, <2>1 DEF Written, Sealed
  <1>3. CASE Parse
    <2>1. verdict = "parse"
      BY <1>3, StepReads
    <2>2. Hold
      BY <2>1 DEF Written, Reading, Now, Hold
    <2>3. Reach \/ Accepting
      BY <1>3, <2>2, StepReach
    <2>4. CASE Accepting
      <3>1. /\ verdict' = "accepted" /\ valued' = valued /\ code' = code
            /\ Bal(code, Len(code)) = 0 /\ Len(blocks) = 1
            /\ valued => Last(blocks).returned
        BY <2>4 DEF Accepting
      <3>2. PICK L, P : Flow(blocks, code, L, P, Owed(blocks))
        BY <2>2, HoldIs DEF Sound
      <3>3. valued => Len(code) + 1 \notin L
        <4>1. Len(code) + 1 \in L => ~blocks[1].returned
          BY <3>1, <3>2 DEF Flow, Live
        <4> QED
          BY <3>1, <4>1, <2>2, HoldIs
      <3>4. Paths(code, L, P)
        BY <3>2 DEF Flow
      <3>5. code \in Seq(Line) /\ Text(code)
        BY <2>2, HoldIs DEF Sound
      <3>6. Sealed'
        BY <3>1, <3>3, <3>4, <3>5 DEF Sealed
      <3>7. verdict' # "parse"
        BY <3>1
      <3> QED
        BY <1>1, <3>6, <3>7 DEF Written
    <2>5. CASE Reach /\ ~Accepting
      <3>1. verdict' # "accepted"
        <4>1. Progress \/ Accepting
          BY <1>3, <2>2, HoldIs, StepKeeps
        <4>2. verdict' = "parse" \/ verdict' = "rejected"
          BY <2>5, <4>1 DEF Progress
        <4> QED
          BY <4>2
      <3>2. verdict' = "parse" => Sound(blocks', code', Owed(blocks'))
        BY <2>5 DEF Reach
      <3> QED
        BY <1>1, <3>1, <3>2 DEF Written, Owed
    <2> QED
      BY <2>3, <2>4, <2>5
  <1> QED
    BY <1>2, <1>3

----------------------------------------------------------------------------
=============================================================================
