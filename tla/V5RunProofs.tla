---------------------------- MODULE V5RunProofs ----------------------------
(***************************************************************************)
(* Proofs about V5Run: where a run of the emitted text is, which paths it  *)
(* takes, what the pointers of the body point to on the way, and what the  *)
(* variables of its ranges hold.                                           *)
(***************************************************************************)
EXTENDS V5Run, V5StatementsProofs

(* Running a body changes nothing of what the transpiler did: the composed *)
(* specification implements the reader's.                                  *)
THEOREM RunIsReading == RunSpec => Spec
  <1>1. RunInit => Init
    BY DEF RunInit
  <1>2. [RunNext]_allVars => [Parse]_vars
    <2>1. Run => UNCHANGED vars
      BY Zenon DEF Run, Start, Declare, Access, Compute, Free, Assign, Branch, EnterScope,
         EnterLoop, EndOfBlock, BreakLoop, ContinueLoop, Return, EndOfBody, Go, Stop
    <2>2. UNCHANGED allVars => UNCHANGED vars
      BY Zenon DEF allVars
    <2> QED
      BY <2>1, <2>2, Zenon DEF RunNext
  <1> QED
    BY <1>1, <1>2, PTL DEF RunSpec, Spec

(* The same for the bodies that are run, when they are so short that they  *)
(* cannot nest too deep.                                                   *)
THEOREM ShortBodiesAgree ==
  ASSUME MaxTokens + 3 <= SavedBlocks
  PROVE  RunSpec => []ScopesAgree
  <1>1. Reading => Shallow
    BY ShortIsShallow
  <1> QED
    BY <1>1, RunIsReading, ReadingAlways, ScopesHold, PTL

----------------------------------------------------------------------------
(***************************************************************************)
(* Where the lines of a finished text lead.                                *)
(***************************************************************************)

(* A block that is opened is closed.                                       *)
LEMMA CloserExists ==
  ASSUME NEW c \in Seq(Line), Text(c), Bal(c, Len(c)) = 0,
         NEW q \in 1..Len(c), c[q].op \in Openings
  PROVE  \E m \in 1..Len(c) : Pair(c, q, m)
  <1> DEFINE n == Len(c)
             S == {m \in q..n : Bal(c, m) < Bal(c, q)}
  <1>1. /\ n \in Nat /\ q \in 1..n /\ Bal(c, n) = 0
        /\ \A k \in Nat : Bal(c, k) \in Int
        /\ \A k \in 1..n : /\ k - 1 \in Nat
                           /\ c[k].op \in Openings => Bal(c, k) = Bal(c, k - 1) + 1
                           /\ c[k].op = "close" => Bal(c, k) = Bal(c, k - 1) - 1
                           /\ c[k].op \notin Openings /\ c[k].op # "close" =>
                                Bal(c, k) = Bal(c, k - 1)
        /\ \A k \in 0..n : Bal(c, k) >= 0
    BY BalSteps DEF Text
  <1> HIDE DEF n
  <1>2. Bal(c, q) > 0
    <2>1. Bal(c, q) = Bal(c, q - 1) + 1 /\ q - 1 \in 0..n
      BY <1>1
    <2> QED
      BY <2>1, <1>1
  <1>3. n \in S /\ S \in SUBSET Nat
    BY <1>1, <1>2
  <1>4. PICK m \in S : \A x \in S : m <= x
    BY <1>3, Least
  <1>5. m \in q..n /\ Bal(c, m) < Bal(c, q) /\ m # q /\ m \in 1..n /\ m - 1 \in q..n
        /\ m - 1 \in 0..n /\ m \in Nat /\ q \in Nat
    <2>1. m \in q..n /\ Bal(c, m) < Bal(c, q)
      BY <1>4
    <2>2. n \in Nat /\ q \in 1..n /\ Bal(c, q) \in Int
      BY <1>1
    <2>3. m # q
      BY <2>1, <2>2
    <2> HIDE DEF S
    <2> QED
      BY <2>1, <2>2, <2>3
  <1>6. \A r \in q..m - 1 : Bal(c, r) >= Bal(c, q)
    <2> SUFFICES ASSUME NEW r \in q..m - 1, ~(Bal(c, r) >= Bal(c, q)) PROVE FALSE
      OBVIOUS
    <2>0. n \in Nat
      BY <1>1
    <2>1. r \in q..n /\ r \in Nat /\ r < m
      <3> HIDE DEF S
      <3> QED
        BY <1>5, <2>0
    <2>2. Bal(c, r) \in Int /\ Bal(c, q) \in Int
      BY <2>1, <1>1, <1>5
    <2>3. r \in S
      BY <2>1, <2>2
    <2> HIDE DEF S
    <2> QED
      BY <2>1, <2>3, <1>4, <1>5
  <1> HIDE DEF S
  <1>7. Bal(c, m - 1) >= Bal(c, q) /\ Bal(c, m - 1) \in Int /\ Bal(c, m) \in Int
        /\ Bal(c, q) \in Int
    <2>1. m - 1 \in q..m - 1 /\ m - 1 \in Nat
      BY <1>5
    <2> QED
      BY <2>1, <1>1, <1>5, <1>6
  <1>8. c[m].op = "close" /\ Bal(c, m) = Bal(c, q) - 1
    <2>1. /\ c[m].op \in Openings => Bal(c, m) = Bal(c, m - 1) + 1
          /\ c[m].op = "close" => Bal(c, m) = Bal(c, m - 1) - 1
          /\ c[m].op \notin Openings /\ c[m].op # "close" => Bal(c, m) = Bal(c, m - 1)
      BY <1>1, <1>5
    <2> QED
      BY <2>1, <1>5, <1>7
  <1>9. q < m
    BY <1>5
  <1>10. Pair(c, q, m)
    BY <1>1, <1>5, <1>6, <1>8, <1>9 DEF Pair, n
  <1> QED
    BY <1>5, <1>10 DEF n

(* Counting braces from an opening line on.                                *)
LEMMA CountFrom ==
  ASSUME code \in Seq(Line), NEW q \in 1..Len(code), code[q].op \in Openings,
         NEW last \in q..Len(code)
  PROVE  /\ Count(q, last, {"close"}) = Count(q, last, Openings)
              <=> Bal(code, last) = Bal(code, q) - 1
         /\ Count(q, last, {"close"}) < Count(q, last, Openings)
              <=> Bal(code, last) >= Bal(code, q)
  <1>1. /\ Count(q, last, Openings) - Count(q, last, {"close"})
             = Bal(code, last) - Bal(code, q - 1)
        /\ Count(q, last, Openings) \in Int /\ Count(q, last, {"close"}) \in Int
    BY CountIsTally
  <1>2. Bal(code, q) = Bal(code, q - 1) + 1
    BY BalSteps
  <1>3. Bal(code, q) \in Int /\ Bal(code, q - 1) \in Int /\ Bal(code, last) \in Int
    <2>1. q \in Nat /\ q - 1 \in Nat /\ last \in Nat
      OBVIOUS
    <2> QED
      BY <2>1, BalSteps
  <1> DEFINE o == Count(q, last, Openings)
             k == Count(q, last, {"close"})
  <1> HIDE DEF o, k
  <1>4. o - k = Bal(code, last) - Bal(code, q - 1) /\ o \in Int /\ k \in Int
    BY <1>1 DEF o, k
  <1>5. (k = o <=> Bal(code, last) = Bal(code, q) - 1) /\ (k < o <=> Bal(code, last) >= Bal(code, q))
    BY <1>2, <1>3, <1>4
  <1> QED
    BY <1>5 DEF o, k

(* The line that Matching() names closes the block.                        *)
LEMMA MatchingPairs ==
  ASSUME code \in Seq(Line), Text(code), Bal(code, Len(code)) = 0,
         NEW q \in 1..Len(code), code[q].op \in Openings
  PROVE  Matching(q) \in 1..Len(code) /\ Pair(code, q, Matching(q))
  <1> DEFINE Closes(last) ==
               /\ Count(q, last, {"close"}) = Count(q, last, Openings)
               /\ \A mid \in q..(last - 1) :
                    Count(q, mid, {"close"}) < Count(q, mid, Openings)
  <1>1. PICK m \in 1..Len(code) : Pair(code, q, m)
    BY CloserExists
  <1>2. \A last \in q..Len(code) :
          /\ Count(q, last, {"close"}) = Count(q, last, Openings)
               <=> Bal(code, last) = Bal(code, q) - 1
          /\ Count(q, last, {"close"}) < Count(q, last, Openings)
               <=> Bal(code, last) >= Bal(code, q)
    BY CountFrom
  <1>3. m \in q..Len(code) /\ \A mid \in q..m - 1 : mid \in q..Len(code)
    BY <1>1 DEF Pair
  <1>4. Closes(m)
    BY <1>1, <1>2, <1>3 DEF Pair
  <1>5. Matching(q) = CHOOSE last \in q..Len(code) : Closes(last)
    BY DEF Matching
  <1> HIDE DEF Closes
  <1>6. Matching(q) \in q..Len(code) /\ Closes(Matching(q))
    BY <1>3, <1>4, <1>5
  <1> DEFINE k == Matching(q)
  <1> HIDE DEF k
  <1>7. k \in q..Len(code) /\ k \in 1..Len(code) /\ \A mid \in q..k - 1 : mid \in q..Len(code)
    BY <1>6 DEF k
  <1>8. /\ Bal(code, k) = Bal(code, q) - 1
        /\ \A mid \in q..k - 1 : Bal(code, mid) >= Bal(code, q)
    BY <1>2, <1>6, <1>7 DEF Closes, k
  <1>9. k # q /\ q < k
    <2>1. Bal(code, q) \in Int
      <3>1. q \in Nat
        OBVIOUS
      <3> QED
        BY <3>1, BalSteps
    <2> QED
      BY <2>1, <1>7, <1>8
  <1>10. code[k].op = "close"
    <2>1. k - 1 \in q..k - 1 /\ k \in 1..Len(code) /\ k - 1 \in Nat /\ k \in Nat
      BY <1>7, <1>9
    <2>2. Bal(code, k - 1) >= Bal(code, q)
      BY <2>1, <1>8
    <2>3. /\ Bal(code, k) \in Int /\ Bal(code, k - 1) \in Int
          /\ code[k].op \in Openings => Bal(code, k) = Bal(code, k - 1) + 1
          /\ code[k].op \notin Openings /\ code[k].op # "close" =>
               Bal(code, k) = Bal(code, k - 1)
      BY <2>1, BalSteps
    <2>4. Bal(code, q) \in Int
      <3>1. q \in Nat
        OBVIOUS
      <3> QED
        BY <3>1, BalSteps
    <2> QED
      BY <2>2, <2>3, <2>4, <1>8
  <1>11. Pair(code, q, k)
    BY <1>7, <1>8, <1>9, <1>10 DEF Pair
  <1> QED
    BY <1>7, <1>11 DEF k

(* Lines that the Classic parser makes part of the if before them.         *)
IsElse(line) == line <= Len(code) /\ code[line].op \in {"else", "elseif"}

(* What the function inside PastElse() is to be.                           *)
SkipsElses(f) ==
  f = [line \in Nat \ {0} |-> IF IsElse(line) THEN f[Matching(line) + 1] ELSE line]

(* PastElse() is one function for all lines.                               *)
LEMMA PastElseIs ==
  ASSUME NEW q
  PROVE  PastElse(q) = (CHOOSE f : SkipsElses(f))[q]
  BY Zenon DEF PastElse, SkipsElses, IsElse

(* There is such a function: an else is closed behind it.                  *)
LEMMA SkipsExists ==
  ASSUME code \in Seq(Line), Text(code), Bal(code, Len(code)) = 0
  PROVE  \E f \in [Nat \ {0} -> Nat \ {0}] : SkipsElses(f)
  <1> DEFINE N == Len(code)
             D == Nat \ {0}
             X == [D -> D]
             base == [l \in D |-> l]
             M(l) == Matching(l) + 1
             step(k, f) == [l \in D |-> IF l = (N + 1) - k /\ IsElse(l) THEN f[M(l)] ELSE f[l]]
             G == [p \in (1..N) \X X |-> step(p[1], p[2])]
  <1>1. N \in Nat
    OBVIOUS
  <1>2. ASSUME NEW l \in D, IsElse(l) PROVE M(l) \in D /\ M(l) > l
    <2>1. l \in 1..Len(code) /\ code[l].op \in {"else", "elseif"}
      BY <1>1, <1>2 DEF IsElse
    <2>2. code[l].op \in Openings
      BY <2>1, Zenon DEF Openings
    <2>3. Matching(l) \in 1..Len(code) /\ Pair(code, l, Matching(l))
      BY <2>1, <2>2, MatchingPairs
    <2>4. l < Matching(l)
      BY <2>3 DEF Pair
    <2> QED
      BY <2>1, <2>3, <2>4
  <1> HIDE DEF N, M
  <1>3. base \in X
    OBVIOUS
  <1>4. ASSUME NEW k \in 1..N, NEW f \in X PROVE step(k, f) \in X
    <2>1. ASSUME NEW l \in D
          PROVE  (IF l = (N + 1) - k /\ IsElse(l) THEN f[M(l)] ELSE f[l]) \in D
      BY <1>2, <2>1
    <2> QED
      BY <2>1
  <1>5. G \in [(1..N) \X X -> X]
    <2>1. ASSUME NEW p \in (1..N) \X X PROVE step(p[1], p[2]) \in X
      BY <1>4
    <2> HIDE DEF step
    <2> QED
      BY <2>1
  <1>6. ASSUME NEW k \in 1..N, NEW f \in X PROVE G[<<k, f>>] = step(k, f)
    <2> HIDE DEF step, X
    <2>1. <<k, f>> \in (1..N) \X X /\ <<k, f>>[1] = k /\ <<k, f>>[2] = f
      OBVIOUS
    <2> QED
      BY <2>1
  <1> HIDE DEF G, X, base
  <1>7. PICK h : Recursive(X, base, N, G, h)
    BY <1>1, <1>3, <1>5, Recursion
  <1>8. /\ h \in [0..N -> X] /\ h[0] = base
        /\ \A k \in 1..N : h[k] = G[<<k, h[k - 1]>>]
    BY <1>7 DEF Recursive
  <1> DEFINE Right(k) ==
               \A l \in D : /\ l > N - k => h[k][l] = IF IsElse(l) THEN h[k][M(l)] ELSE l
                            /\ l <= N - k => h[k][l] = l
             S == {k \in 0..N : Right(k)}
  <1>9. Right(0)
    <2>1. \A l \in D : h[0][l] = l
      BY <1>8 DEF base
    <2>2. \A l \in D : l > N - 0 => ~IsElse(l)
      BY <1>1 DEF IsElse, N
    <2> QED
      BY <2>1, <2>2
  <1>10. ASSUME NEW k \in 0..N - 1, k \in S PROVE k + 1 \in S
    <2> DEFINE f == h[k]
               g == h[k + 1]
    <2>1. k + 1 \in 1..N /\ (k + 1) - 1 = k /\ k \in 0..N /\ k + 1 \in 0..N /\ k \in Nat
      BY <1>1
    <2>2. f \in X
      BY <1>8, <2>1
    <2>3. g = step(k + 1, f)
      <3>1. g = G[<<k + 1, h[(k + 1) - 1]>>]
        BY <1>8, <2>1
      <3>2. h[(k + 1) - 1] = f
        BY <2>1
      <3>3. G[<<k + 1, f>>] = step(k + 1, f)
        BY <1>6, <2>1, <2>2
      <3> HIDE DEF f, g, step
      <3> QED
        BY <3>1, <3>2, <3>3
    <2>4. ASSUME NEW l \in D
          PROVE  g[l] = IF l = (N + 1) - (k + 1) /\ IsElse(l) THEN f[M(l)] ELSE f[l]
      BY <2>3
    <2>5. \A l \in D : /\ l > N - k => f[l] = IF IsElse(l) THEN f[M(l)] ELSE l
                       /\ l <= N - k => f[l] = l
      BY <1>10
    <2> HIDE DEF f, g, step
    <2>6. ASSUME NEW l \in D
          PROVE  /\ l > N - (k + 1) => g[l] = IF IsElse(l) THEN g[M(l)] ELSE l
                 /\ l <= N - (k + 1) => g[l] = l
      <3>1. (N + 1) - (k + 1) = N - k /\ N - k \in Int /\ N - (k + 1) \in Int
        BY <1>1, <2>1
      <3>2. \A x \in D : x > N - k => g[x] = f[x]
        BY <2>4, <3>1
      <3>3. ASSUME IsElse(l), l >= N - k PROVE g[M(l)] = f[M(l)]
        <4>1. M(l) \in D /\ M(l) > l
          BY <3>3, <1>2
        <4>2. M(l) > N - k
          BY <4>1, <3>1, <3>3
        <4> QED
          BY <4>1, <4>2, <3>2
      <3>4. CASE l > N - k
        <4>1. l > N - (k + 1) /\ l >= N - k /\ ~(l <= N - (k + 1))
          BY <3>4, <3>1, <2>1, <1>1
        <4> QED
          BY <4>1, <3>2, <3>3, <3>4, <2>5
      <3>5. CASE l = N - k
        <4>1. l > N - (k + 1) /\ l >= N - k /\ ~(l <= N - (k + 1)) /\ l <= N - k
          BY <3>5, <3>1, <2>1, <1>1
        <4>2. f[l] = l
          BY <4>1, <2>5
        <4>3. g[l] = IF IsElse(l) THEN f[M(l)] ELSE f[l]
          BY <2>4, <3>1, <3>5
        <4> QED
          BY <4>1, <4>2, <4>3, <3>3
      <3>6. CASE l < N - k
        <4>1. ~(l > N - (k + 1)) /\ l <= N - k /\ l # N - k
          BY <3>6, <3>1, <2>1, <1>1
        <4>2. g[l] = f[l]
          BY <4>1, <2>4, <3>1
        <4> QED
          BY <4>1, <4>2, <2>5
      <3> QED
        BY <3>1, <3>4, <3>5, <3>6
    <2>7. Right(k + 1)
      BY <2>6 DEF g
    <2> QED
      BY <2>1, <2>7
  <1>11. N \in S
    <2>1. 0 <= N => 0 \in S
      BY <1>1, <1>9
    <2>2. \A k \in 0..N - 1 : k \in S => k + 1 \in S
      BY <1>10
    <2> HIDE DEF S
    <2>3. 0..N \subseteq S
      BY <1>1, <2>1, <2>2, UpTo
    <2> QED
      BY <1>1, <2>3
  <1> DEFINE F == h[N]
  <1>12. F \in X /\ \A l \in D : F[l] = IF IsElse(l) THEN F[M(l)] ELSE l
    <2>1. F \in X
      BY <1>1, <1>8
    <2>2. \A l \in D : l > N - N
      BY <1>1
    <2> QED
      BY <1>11, <2>1, <2>2
  <1> HIDE DEF F, S
  <1>13. F = [l \in D |-> IF IsElse(l) THEN F[M(l)] ELSE l]
    BY <1>12 DEF X
  <1>14. SkipsElses(F)
    BY <1>13 DEF SkipsElses, M
  <1> QED
    BY <1>12, <1>14 DEF X

----------------------------------------------------------------------------
(***************************************************************************)
(* A finished text, and the place of control in it.                        *)
(***************************************************************************)
Finished == code \in Seq(Line) /\ Text(code) /\ Bal(code, Len(code)) = 0

(* The balance of a finished text, line by line.                           *)
LEMMA FinishedIs ==
  ASSUME Finished
  PROVE  /\ Len(code) \in Nat
         /\ \A n \in 0..Len(code) : Bal(code, n) \in Int /\ Bal(code, n) >= 0
         /\ \A n \in 1..Len(code) :
              /\ code[n].op \in Openings => Bal(code, n) = Bal(code, n - 1) + 1
              /\ code[n].op = "close" => Bal(code, n) = Bal(code, n - 1) - 1
              /\ code[n].op \notin Openings /\ code[n].op # "close" =>
                   Bal(code, n) = Bal(code, n - 1)
  <1>1. code \in Seq(Line) /\ \A n \in 0..Len(code) : Bal(code, n) >= 0
    BY DEF Finished, Text
  <1>2. Len(code) \in Nat /\ \A n \in 0..Len(code) : n \in Nat
    BY <1>1
  <1>3. /\ \A n \in Nat : Bal(code, n) \in Int
        /\ \A n \in 1..Len(code) :
             /\ code[n].op \in Openings => Bal(code, n) = Bal(code, n - 1) + 1
             /\ code[n].op = "close" => Bal(code, n) = Bal(code, n - 1) - 1
             /\ code[n].op \notin Openings /\ code[n].op # "close" =>
                  Bal(code, n) = Bal(code, n - 1)
    BY <1>1, BalSteps
  <1> QED
    BY <1>1, <1>2, <1>3

(* From line a control may pass on to line e: no block that is open there  *)
(* is left, only whole blocks are passed over, and no else is in front.     *)
Passed(a, e) ==
  /\ e \in a..Len(code) + 1
  /\ ~IsElse(e)
  /\ Bal(code, e - 1) = Bal(code, a - 1)
  /\ \A r \in a - 1..e - 1 : Bal(code, r) >= Bal(code, a - 1)
  /\ \A d \in a..e - 1 : code[d].op = "close" \/ Bal(code, d) > Bal(code, a - 1)

(* A line that is no else is passed on to at once.                         *)
LEMMA PassedSelf ==
  ASSUME Finished, NEW a \in 1..Len(code) + 1, ~IsElse(a)
  PROVE  Passed(a, a)
  <1>1. a \in a..Len(code) + 1 /\ a - 1 \in 0..Len(code) /\ \A r \in a - 1..a - 1 : r = a - 1
        /\ a..a - 1 = {}
    BY FinishedIs
  <1>2. Bal(code, a - 1) \in Int
    BY <1>1, FinishedIs
  <1> QED
    BY <1>1, <1>2 DEF Passed

(* A block is closed where its text returns to the balance before it.      *)
LEMMA PairSpan ==
  ASSUME Finished, NEW q, NEW m, Pair(code, q, m)
  PROVE  /\ q \in 1..Len(code) /\ m \in 1..Len(code) /\ q < m /\ Len(code) \in Nat
         /\ Bal(code, q - 1) \in Int /\ Bal(code, q) = Bal(code, q - 1) + 1
         /\ Bal(code, m) = Bal(code, q - 1) /\ Bal(code, m - 1) = Bal(code, q)
         /\ \A r \in q..m - 1 : Bal(code, r) \in Int /\ Bal(code, r) >= Bal(code, q)
         /\ \A r \in q - 1..m : Bal(code, r) \in Int /\ Bal(code, r) >= Bal(code, q - 1)
  <1>1. /\ q \in 1..Len(code) /\ m \in 1..Len(code) /\ q < m /\ Len(code) \in Nat
        /\ code[q].op \in Openings /\ code[m].op = "close"
        /\ Bal(code, m) = Bal(code, q) - 1
        /\ \A r \in q..m - 1 : Bal(code, r) >= Bal(code, q)
    BY FinishedIs DEF Pair
  <1>2. q - 1 \in 0..Len(code) /\ m - 1 \in 0..Len(code) /\ m \in 0..Len(code)
        /\ \A r \in q - 1..m : r \in 0..Len(code) /\ (r = q - 1 \/ r \in q..m - 1 \/ r = m)
    BY <1>1
  <1>3. /\ Bal(code, q) = Bal(code, q - 1) + 1 /\ Bal(code, m) = Bal(code, m - 1) - 1
    BY <1>1, FinishedIs
  <1>4. /\ Bal(code, q - 1) \in Int /\ Bal(code, m - 1) \in Int /\ Bal(code, m) \in Int
        /\ \A r \in q - 1..m : Bal(code, r) \in Int
    BY <1>2, FinishedIs
  <1>5. Bal(code, m) = Bal(code, q - 1) /\ Bal(code, m - 1) = Bal(code, q)
    BY <1>1, <1>3, <1>4
  <1>6. \A r \in q..m - 1 : r \in q - 1..m
    BY <1>1
  <1>7. ASSUME NEW r \in q - 1..m PROVE Bal(code, r) >= Bal(code, q - 1)
    <2>1. r = q - 1 \/ r \in q..m - 1 \/ r = m
      BY <1>2
    <2> QED
      BY <2>1, <1>1, <1>3, <1>4, <1>5
  <1> QED
    BY <1>1, <1>3, <1>4, <1>5, <1>6, <1>7

(* Control that comes to an else goes on behind its block.                 *)
LEMMA PassedOver ==
  ASSUME Finished, NEW x, NEW m, Pair(code, x, m), NEW e, Passed(m + 1, e)
  PROVE  Passed(x, e)
  <1>1. /\ x \in 1..Len(code) /\ m \in 1..Len(code) /\ x < m /\ Len(code) \in Nat
        /\ Bal(code, m) = Bal(code, x - 1)
        /\ \A r \in x - 1..m : Bal(code, r) >= Bal(code, x - 1)
        /\ Bal(code, x - 1) \in Int /\ Bal(code, x) = Bal(code, x - 1) + 1
        /\ \A r \in x..m - 1 : Bal(code, r) \in Int /\ Bal(code, r) >= Bal(code, x)
    BY PairSpan
  <1>2. (m + 1) - 1 = m /\ m + 1 \in Nat
    BY <1>1
  <1>3. /\ e \in m + 1..Len(code) + 1 /\ ~IsElse(e) /\ Bal(code, e - 1) = Bal(code, m)
        /\ \A r \in m..e - 1 : Bal(code, r) >= Bal(code, m)
        /\ \A d \in m + 1..e - 1 : code[d].op = "close" \/ Bal(code, d) > Bal(code, m)
    BY <1>2 DEF Passed
  <1>4. /\ e \in x..Len(code) + 1
        /\ \A r \in x - 1..e - 1 : r \in x - 1..m \/ r \in m..e - 1
        /\ \A d \in x..e - 1 : d \in x..m - 1 \/ d = m \/ d \in m + 1..e - 1
    BY <1>1, <1>3
  <1>5. ASSUME NEW d \in x..e - 1
        PROVE  code[d].op = "close" \/ Bal(code, d) > Bal(code, x - 1)
    <2>1. CASE d \in x..m - 1
      BY <1>1, <2>1
    <2>2. CASE d = m
      BY <2>2 DEF Pair
    <2>3. CASE d \in m + 1..e - 1
      BY <1>1, <1>3, <2>3
    <2> QED
      BY <1>4, <2>1, <2>2, <2>3
  <1> QED
    BY <1>1, <1>3, <1>4, <1>5 DEF Passed

(* Where control is behind a taken branch.                                 *)
LEMMA PastElseFinds ==
  ASSUME Finished, NEW L, NEW P, Paths(code, L, P), NEW a \in P
  PROVE  PastElse(a) \in P /\ Passed(a, PastElse(a))
  <1> DEFINE F == CHOOSE f : SkipsElses(f)
             N == Len(code)
             S == {x \in P : ~(F[x] \in P /\ Passed(x, F[x]))}
  <1>1. SkipsElses(F)
    <2>1. \E f : SkipsElses(f)
      BY SkipsExists DEF Finished
    <2> QED
      BY <2>1
  <1>2. N \in Nat /\ P \subseteq 1..N + 1 /\ P \subseteq 0..N + 1 /\ N + 1 \in Nat
    <2>1. P \subseteq 1..N + 1 /\ N \in Nat
      BY FinishedIs DEF Paths
    <2> QED
      BY <2>1
  <1> HIDE DEF F
  <1>3. \A x \in Nat \ {0} : F[x] = IF IsElse(x) THEN F[Matching(x) + 1] ELSE x
    <2>1. F = [line \in Nat \ {0} |-> IF IsElse(line) THEN F[Matching(line) + 1] ELSE line]
      BY <1>1 DEF SkipsElses
    <2> QED
      BY <2>1
  <1>4. S = {}
    <2> SUFFICES ASSUME S # {} PROVE FALSE
      OBVIOUS
    <2>1. S \in SUBSET (0..N + 1)
      BY <1>2
    <2>2. PICK x \in S : \A y \in S : y <= x
      BY <1>2, <2>1, Greatest
    <2>3. x \in P /\ ~(F[x] \in P /\ Passed(x, F[x])) /\ x \in 1..N + 1 /\ x \in Nat \ {0}
      BY <1>2, <2>2
    <2>4. \A y \in P : y > x => F[y] \in P /\ Passed(y, F[y])
      <3> SUFFICES ASSUME NEW y \in P, y > x, ~(F[y] \in P /\ Passed(y, F[y])) PROVE FALSE
        OBVIOUS
      <3>1. y \in S /\ y \in Int /\ x \in Int
        BY <1>2, <2>3
      <3> HIDE DEF S
      <3> QED
        BY <3>1, <2>2
    <2> HIDE DEF S
    <2>5. CASE ~IsElse(x)
      <3>1. F[x] = x
        BY <1>3, <2>3, <2>5
      <3>2. Passed(x, x)
        BY <2>3, <2>5, PassedSelf
      <3> QED
        BY <3>1, <3>2, <2>3
    <2>6. CASE IsElse(x)
      <3> DEFINE m == Matching(x)
      <3>1. x \in 1..Len(code) /\ code[x].op \in {"else", "elseif"}
        BY <2>3, <2>6, <1>2 DEF IsElse
      <3>2. code[x].op \in Openings
        BY <3>1, Zenon DEF Openings
      <3>3. m \in 1..Len(code) /\ Pair(code, x, m)
        BY <3>1, <3>2, MatchingPairs DEF Finished
      <3> HIDE DEF m
      <3>4. Joins(code[x].op, x, m, L, P)
        BY <3>1, <3>3 DEF Paths
      <3>5. m + 1 \in P
        BY <3>4, <3>1, <2>3 DEF Joins
      <3>6. m + 1 > x
        <4>1. x < m
          BY <3>3 DEF Pair
        <4> QED
          BY <4>1, <3>3, <2>3
      <3>7. F[m + 1] \in P /\ Passed(m + 1, F[m + 1])
        BY <3>5, <3>6, <2>4
      <3>8. F[x] = F[m + 1]
        BY <1>3, <2>3, <2>6 DEF m
      <3>9. Passed(x, F[m + 1])
        BY <3>3, <3>7, PassedOver
      <3> QED
        BY <3>7, <3>8, <3>9, <2>3
    <2> QED
      BY <2>5, <2>6
  <1>5. F[a] \in P /\ Passed(a, F[a])
    BY <1>4
  <1>6. PastElse(a) = F[a]
    BY PastElseIs DEF F
  <1> QED
    BY <1>5, <1>6

----------------------------------------------------------------------------
(***************************************************************************)
(* The entered blocks are those that are open at the line to run.          *)
(***************************************************************************)
FrameType == [at : Nat, base : Nat, entry : Nat, done : Nat]

(* Line q opened the k-th of the blocks that are open in front of line p.  *)
Under(q, p, k) ==
  /\ q \in 1..Len(code) /\ q < p /\ code[q].op \in Openings /\ Bal(code, q) = k
  /\ \A r \in q..p - 1 : Bal(code, r) >= k

Nest(p, a) ==
  /\ p \in 1..Len(code) + 1 /\ a \in Seq(FrameType) /\ Len(a) = Bal(code, p - 1)
  /\ \A k \in 1..Len(a) : Under(a[k].at, p, k)

(* The block of an opening line is entered.                                *)
LEMMA NestEnter ==
  ASSUME Finished, NEW p, NEW a, Nest(p, a), p \in 1..Len(code), code[p].op \in Openings,
         NEW f \in FrameType, f.at = p
  PROVE  Nest(p + 1, Append(a, f))
  <1> DEFINE b == Append(a, f)
             n == Len(a)
  <1>1. /\ b \in Seq(FrameType) /\ Len(b) = n + 1 /\ b[n + 1] = f /\ n \in Nat
        /\ \A k \in 1..n : b[k] = a[k]
        /\ \A k \in 1..n + 1 : k \in 1..n \/ k = n + 1
    <2>1. a \in Seq(FrameType)
      BY DEF Nest
    <2> HIDE DEF FrameType
    <2> QED
      BY <2>1
  <1>2. /\ n = Bal(code, p - 1) /\ \A k \in 1..n : Under(a[k].at, p, k)
    BY DEF Nest
  <1> HIDE DEF b, n
  <1>3. Bal(code, p) = n + 1 /\ p \in Nat /\ Len(code) \in Nat /\ p + 1 \in 1..Len(code) + 1
        /\ (p + 1) - 1 = p
    BY <1>2, FinishedIs
  <1>4. ASSUME NEW k \in 1..n PROVE Under(b[k].at, p + 1, k)
    <2>1. Under(a[k].at, p, k) /\ b[k] = a[k] /\ k \in Int
      BY <1>1, <1>2
    <2> DEFINE q == a[k].at
    <2> HIDE DEF q
    <2>2. q \in 1..Len(code) /\ q < p /\ code[q].op \in Openings /\ Bal(code, q) = k
          /\ \A r \in q..p - 1 : Bal(code, r) >= k
      BY <2>1 DEF Under, q
    <2>3. \A r \in q..p : r \in q..p - 1 \/ r = p
      BY <2>2, <1>3
    <2>4. n + 1 >= k
      BY <1>1
    <2>5. \A r \in q..(p + 1) - 1 : Bal(code, r) >= k
      BY <2>2, <2>3, <2>4, <1>3
    <2>6. q < p + 1
      BY <2>2, <1>3
    <2>7. Under(q, p + 1, k)
      BY <2>2, <2>5, <2>6 DEF Under
    <2> QED
      BY <2>1, <2>7 DEF q
  <1>5. Under(f.at, p + 1, n + 1)
    <2>1. p < p + 1 /\ \A r \in p..(p + 1) - 1 : r = p
      BY <1>3
    <2>2. n + 1 >= n + 1
      BY <1>1
    <2> QED
      BY <2>1, <2>2, <1>3 DEF Under
  <1>6. \A k \in 1..Len(b) : Under(b[k].at, p + 1, k)
    BY <1>1, <1>4, <1>5
  <1>7. Nest(p + 1, b)
    BY <1>1, <1>3, <1>6 DEF Nest
  <1> QED
    BY <1>7 DEF b

(* The k outermost blocks stay entered when control moves to line e and    *)
(* the text between does not leave them.                                   *)
LEMMA NestMove ==
  ASSUME Finished, NEW p, NEW a, Nest(p, a), NEW k \in 0..Len(a), NEW s \in 1..p,
         NEW e \in s..Len(code) + 1, Bal(code, e - 1) = k,
         \A j \in 1..k : a[j].at < s,
         \A r \in s..e - 1 : Bal(code, r) >= k,
         NEW b \in Seq(FrameType), Len(b) = k, \A j \in 1..k : b[j].at = a[j].at
  PROVE  Nest(e, b)
  <1>1. p \in 1..Len(code) + 1 /\ Len(code) \in Nat /\ Len(a) \in Nat
        /\ \A j \in 1..Len(a) : Under(a[j].at, p, j)
    <2>1. a \in Seq(FrameType)
      BY DEF Nest
    <2>2. Len(a) \in Nat
      BY <2>1
    <2> QED
      BY <2>2, FinishedIs DEF Nest
  <1> DEFINE n == Len(a)
             N == Len(code)
  <1> HIDE DEF n, N
  <1>2. /\ k \in 0..n /\ n \in Nat /\ N \in Nat /\ p \in 1..N + 1 /\ s \in 1..p /\ e \in s..N + 1
        /\ \A j \in 1..n : Under(a[j].at, p, j)
    BY <1>1 DEF n, N
  <1>3. ASSUME NEW j \in 1..k PROVE Under(b[j].at, e, j)
    <2> DEFINE q == a[j].at
    <2> HIDE DEF q
    <2>1. j \in 1..n /\ k >= j /\ j \in Int /\ k \in Int
      BY <1>2
    <2>2. Under(q, p, j) /\ q < s /\ b[j].at = q
      BY <2>1, <1>2 DEF q
    <2>3. q \in 1..N /\ q < p /\ code[q].op \in Openings /\ Bal(code, q) = j
          /\ \A r \in q..p - 1 : Bal(code, r) >= j
      BY <2>2 DEF Under, N
    <2>4. q < e /\ \A r \in q..e - 1 : r \in q..p - 1 \/ r \in s..e - 1
      BY <1>2, <2>2, <2>3
    <2>5. \A r \in s..e - 1 : Bal(code, r) >= j
      <3> TAKE r \in s..e - 1
      <3>1. r \in 0..N
        BY <1>2
      <3>2. Bal(code, r) \in Int
        BY <3>1, FinishedIs DEF N
      <3>3. Bal(code, r) >= k
        OBVIOUS
      <3> QED
        BY <2>1, <3>2, <3>3
    <2>6. \A r \in q..e - 1 : Bal(code, r) >= j
      BY <2>3, <2>4, <2>5
    <2>7. Under(q, e, j)
      BY <2>3, <2>4, <2>6 DEF Under, N
    <2> QED
      BY <2>2, <2>7
  <1>4. e \in 1..Len(code) + 1
    BY <1>2 DEF N
  <1> QED
    BY <1>3, <1>4 DEF Nest

(* The entered blocks are ordered as their lines are.                      *)
LEMMA NestOrder ==
  ASSUME Finished, NEW p, NEW a, Nest(p, a), NEW j \in 1..Len(a), NEW k \in 1..Len(a), j < k
  PROVE  a[j].at < a[k].at
  <1> SUFFICES ASSUME ~(a[j].at < a[k].at) PROVE FALSE
    OBVIOUS
  <1>1. Under(a[j].at, p, j) /\ Under(a[k].at, p, k) /\ p \in 1..Len(code) + 1
        /\ Len(code) \in Nat
    BY FinishedIs DEF Nest
  <1> DEFINE x == a[j].at
             y == a[k].at
  <1> HIDE DEF x, y
  <1>2. /\ x \in Nat /\ y \in Nat /\ x < p /\ Bal(code, x) = j /\ p \in Nat
        /\ \A r \in y..p - 1 : Bal(code, r) >= k
    BY <1>1 DEF Under, x, y
  <1>3. ~(x < y)
    BY DEF x, y
  <1>4. x \in y..p - 1
    BY <1>2, <1>3
  <1>5. j >= k
    BY <1>2, <1>4
  <1>6. j \in Int /\ k \in Int
    <2>1. a \in Seq(FrameType)
      BY DEF Nest
    <2>2. Len(a) \in Nat
      BY <2>1
    <2> QED
      BY <2>2
  <1> QED
    BY <1>5, <1>6

(* The line that closes an entered block is not passed yet.                *)
LEMMA NestPair ==
  ASSUME Finished, NEW p, NEW a, Nest(p, a), NEW k \in 1..Len(a)
  PROVE  /\ a[k].at \in 1..Len(code) /\ code[a[k].at].op \in Openings /\ a[k].at < p
         /\ Bal(code, a[k].at) = k
         /\ Matching(a[k].at) \in 1..Len(code)
         /\ Pair(code, a[k].at, Matching(a[k].at))
         /\ p <= Matching(a[k].at)
  <1>1. Under(a[k].at, p, k) /\ p \in 1..Len(code) + 1 /\ Len(code) \in Nat
    BY FinishedIs DEF Nest
  <1> DEFINE q == a[k].at
             m == Matching(q)
  <1> HIDE DEF q
  <1>2. q \in 1..Len(code) /\ q < p /\ code[q].op \in Openings /\ Bal(code, q) = k
        /\ \A r \in q..p - 1 : Bal(code, r) >= k
    BY <1>1 DEF Under, q
  <1>3. m \in 1..Len(code) /\ Pair(code, q, m)
    BY <1>2, MatchingPairs DEF Finished
  <1> HIDE DEF m
  <1>4. q < m /\ Bal(code, m) = k - 1
    BY <1>3, <1>2 DEF Pair
  <1>5. k \in Int
    <2>1. a \in Seq(FrameType)
      BY DEF Nest
    <2>2. Len(a) \in Nat
      BY <2>1
    <2> QED
      BY <2>2
  <1>6. p <= m
    <2> SUFFICES ASSUME ~(p <= m) PROVE FALSE
      OBVIOUS
    <2>1. m \in q..p - 1
      BY <1>1, <1>2, <1>3, <1>4
    <2>2. k - 1 >= k
      BY <2>1, <1>2, <1>4
    <2> QED
      BY <2>2, <1>5
  <1> QED
    BY <1>2, <1>3, <1>6 DEF q, m

(* A closing line closes the innermost entered block.                      *)
LEMMA NestClose ==
  ASSUME Finished, NEW p, NEW a, Nest(p, a), p \in 1..Len(code), code[p].op = "close"
  PROVE  /\ Len(a) \in 1..Len(a) /\ Len(a) \in Nat
         /\ Bal(code, p) = Len(a) - 1 /\ Pair(code, a[Len(a)].at, p)
  <1>1. a \in Seq(FrameType) /\ Len(a) = Bal(code, p - 1)
    BY DEF Nest
  <1>2. Len(a) \in Nat
    BY <1>1
  <1>3. p \in 0..Len(code) /\ p \in Nat
    BY FinishedIs
  <1>4. Bal(code, p) >= 0 /\ Bal(code, p) = Bal(code, p - 1) - 1
    BY <1>3, FinishedIs
  <1> DEFINE k == Len(a)
             q == a[k].at
  <1> HIDE DEF k
  <1>5. k \in 1..k /\ k \in Nat /\ Bal(code, p) = k - 1
    BY <1>1, <1>2, <1>4 DEF k
  <1>6. Under(q, p, k)
    BY <1>5 DEF Nest, k
  <1>7. Pair(code, q, p)
    BY <1>5, <1>6 DEF Under, Pair
  <1> QED
    BY <1>5, <1>7 DEF k

----------------------------------------------------------------------------
(***************************************************************************)
(* A place that the paths of the text lead to.                             *)
(***************************************************************************)
Counted == {"loop", "range", "each"}

Placed(p, a, L) ==
  /\ Nest(p, a) /\ p \in L
  /\ \A k \in 1..Len(a) : a[k].at \in L
  /\ Backend = "native" =>
       \A k \in 1..Len(a) : code[a[k].at].op \in Counted => a[k].done < a[k].entry

(* The first k frames.                                                     *)
LEMMA CutFrames ==
  ASSUME NEW a \in Seq(FrameType), NEW k \in 0..Len(a)
  PROVE  /\ SubSeq(a, 1, k) \in Seq(FrameType) /\ Len(SubSeq(a, 1, k)) = k
         /\ \A j \in 1..k : SubSeq(a, 1, k)[j] = a[j] /\ j \in 1..Len(a)
  <1> HIDE DEF FrameType
  <1> QED
    OBVIOUS

(* The k outermost blocks stay, at another line.                           *)
LEMMA PlacedCut ==
  ASSUME Finished, NEW L, NEW p, NEW a, Placed(p, a, L), NEW k \in 0..Len(a), NEW s \in 1..p,
         NEW e \in s..Len(code) + 1, e \in L, Bal(code, e - 1) = k,
         \A j \in 1..k : a[j].at < s,
         \A r \in s..e - 1 : Bal(code, r) >= k
  PROVE  Placed(e, SubSeq(a, 1, k), L)
  <1> DEFINE b == SubSeq(a, 1, k)
  <1>1. Nest(p, a) /\ a \in Seq(FrameType)
    BY DEF Placed, Nest
  <1>2. b \in Seq(FrameType) /\ Len(b) = k /\ \A j \in 1..k : b[j] = a[j] /\ j \in 1..Len(a)
    BY <1>1, CutFrames
  <1> HIDE DEF b
  <1>3. \A j \in 1..k : b[j].at = a[j].at
    BY <1>2
  <1>4. Nest(e, b)
    BY <1>1, <1>2, <1>3, NestMove
  <1>5. \A j \in 1..Len(b) : b[j].at \in L
    BY <1>2 DEF Placed
  <1>6. Backend = "native" =>
          \A j \in 1..Len(b) : code[b[j].at].op \in Counted => b[j].done < b[j].entry
    BY <1>2 DEF Placed
  <1>7. Placed(e, b, L)
    BY <1>4, <1>5, <1>6 DEF Placed
  <1> QED
    BY <1>7 DEF b

(* Nothing is left or entered.                                             *)
LEMMA PlacedOn ==
  ASSUME Finished, NEW L, NEW p, NEW a, Placed(p, a, L),
         NEW e \in p..Len(code) + 1, e \in L, Bal(code, e - 1) = Bal(code, p - 1),
         \A r \in p..e - 1 : Bal(code, r) >= Bal(code, p - 1)
  PROVE  Placed(e, a, L)
  <1>1. /\ Nest(p, a) /\ a \in Seq(FrameType) /\ Len(a) = Bal(code, p - 1)
        /\ p \in 1..Len(code) + 1 /\ Len(code) \in Nat
    BY FinishedIs DEF Placed, Nest
  <1>2. Len(a) \in Nat /\ Len(a) \in 0..Len(a) /\ SubSeq(a, 1, Len(a)) = a
    <2> HIDE DEF FrameType
    <2> QED
      BY <1>1
  <1>3. \A j \in 1..Len(a) : a[j].at < p
    BY <1>1, NestPair
  <1>4. p \in 1..p
    BY <1>1
  <1> DEFINE k == Len(a)
  <1>5. Bal(code, e - 1) = k /\ \A r \in p..e - 1 : Bal(code, r) >= k
    BY <1>1
  <1>6. Placed(e, SubSeq(a, 1, k), L)
    BY <1>2, <1>3, <1>4, <1>5, PlacedCut
  <1> QED
    BY <1>2, <1>6

(* The next line.                                                          *)
LEMMA PlacedLine ==
  ASSUME Finished, NEW L, NEW P, Paths(code, L, P), NEW p, NEW a, Placed(p, a, L),
         p \in 1..Len(code), code[p].op \notin Openings, code[p].op \notin Jumps
  PROVE  Placed(p + 1, a, L)
  <1>1. code[p].op # "close" /\ p \in L
    BY Zenon DEF Jumps, Placed
  <1>2. p + 1 \in L
    BY <1>1 DEF Paths, Follows
  <1>3. Bal(code, p) = Bal(code, p - 1) /\ Len(code) \in Nat /\ p \in 0..Len(code)
        /\ Bal(code, p) \in Int
    <2>1. Len(code) \in Nat /\ p \in 0..Len(code)
      BY FinishedIs
    <2> QED
      BY <1>1, <2>1, FinishedIs
  <1>4. p + 1 \in p..Len(code) + 1 /\ (p + 1) - 1 = p /\ \A r \in p..p : r = p
    BY <1>3
  <1> HIDE DEF Bal
  <1>5. /\ Bal(code, (p + 1) - 1) = Bal(code, p - 1)
        /\ \A r \in p..(p + 1) - 1 : Bal(code, r) >= Bal(code, p - 1)
    BY <1>3, <1>4
  <1> QED
    BY <1>2, <1>4, <1>5, PlacedOn

(* A block is passed over.                                                 *)
LEMMA PlacedPass ==
  ASSUME Finished, NEW L, NEW p, NEW a, Placed(p, a, L),
         p \in 1..Len(code), code[p].op \in Openings, Matching(p) + 1 \in L
  PROVE  Placed(Matching(p) + 1, a, L)
  <1> DEFINE m == Matching(p)
  <1>1. Pair(code, p, m)
    BY MatchingPairs DEF Finished
  <1> HIDE DEF m
  <1>2. /\ m \in 1..Len(code) /\ p < m /\ Len(code) \in Nat
        /\ Bal(code, m) = Bal(code, p - 1)
        /\ \A r \in p - 1..m : Bal(code, r) >= Bal(code, p - 1)
    BY <1>1, PairSpan
  <1>3. m + 1 \in p..Len(code) + 1 /\ (m + 1) - 1 = m /\ \A r \in p..m : r \in p - 1..m
    BY <1>2
  <1>4. m + 1 \in L
    BY DEF m
  <1>5. /\ Bal(code, (m + 1) - 1) = Bal(code, p - 1)
        /\ \A r \in p..(m + 1) - 1 : Bal(code, r) >= Bal(code, p - 1)
    BY <1>2, <1>3
  <1>6. Placed(m + 1, a, L)
    BY <1>3, <1>4, <1>5, PlacedOn
  <1> QED
    BY <1>6 DEF m

(* A block is entered.                                                     *)
LEMMA PlacedEnter ==
  ASSUME Finished, NEW L, NEW P, Paths(code, L, P), NEW p, NEW a, Placed(p, a, L),
         p \in 1..Len(code), code[p].op \in Openings,
         NEW f \in FrameType, f.at = p,
         Backend = "native" => (code[p].op \in Counted => f.done < f.entry)
  PROVE  Placed(p + 1, Append(a, f), L)
  <1> DEFINE b == Append(a, f)
             n == Len(a)
  <1>1. Nest(p + 1, b)
    BY NestEnter DEF Placed
  <1>2. code[p].op \notin Jumps
    BY Zenon DEF Jumps, Openings, Loops
  <1>3. p \in L /\ p + 1 \in L
    BY <1>2 DEF Placed, Paths, Follows
  <1>4. /\ b[n + 1] = f /\ \A k \in 1..n : b[k] = a[k]
        /\ \A k \in 1..Len(b) : k \in 1..n \/ k = n + 1
    <2>1. a \in Seq(FrameType)
      BY DEF Placed, Nest
    <2> HIDE DEF FrameType
    <2> QED
      BY <2>1
  <1> HIDE DEF b, n
  <1>5. \A k \in 1..Len(b) : b[k].at \in L
    <2>1. \A k \in 1..n : a[k].at \in L
      BY DEF Placed, n
    <2> QED
      BY <2>1, <1>3, <1>4
  <1>6. ASSUME Backend = "native", NEW k \in 1..Len(b), code[b[k].at].op \in Counted
        PROVE  b[k].done < b[k].entry
    <2>1. CASE k \in 1..n
      BY <1>4, <1>6, <2>1 DEF Placed, n
    <2>2. CASE k = n + 1
      BY <1>4, <1>6, <2>2
    <2> QED
      BY <1>4, <2>1, <2>2
  <1>7. Placed(p + 1, b, L)
    BY <1>1, <1>3, <1>5, <1>6 DEF Placed
  <1> QED
    BY <1>7 DEF b

(* The innermost block is left at its end.                                 *)
LEMMA PlacedLeave ==
  ASSUME Finished, NEW L, NEW p, NEW a, Placed(p, a, L),
         p \in 1..Len(code), code[p].op = "close",
         NEW e \in p + 1..Len(code) + 1, e \in L, Bal(code, e - 1) = Bal(code, p),
         \A r \in p..e - 1 : Bal(code, r) >= Bal(code, p)
  PROVE  Placed(e, Front(a), L)
  <1>1. Nest(p, a) /\ Len(code) \in Nat
    BY FinishedIs DEF Placed
  <1>2. Len(a) \in Nat /\ Len(a) \in 1..Len(a) /\ Bal(code, p) = Len(a) - 1
    BY <1>1, NestClose
  <1> DEFINE k == Len(a) - 1
  <1>3. k \in 0..Len(a) /\ p \in 1..p /\ e \in p..Len(code) + 1
        /\ \A j \in 1..k : j \in 1..Len(a)
    BY <1>1, <1>2
  <1>4. \A j \in 1..k : a[j].at < p
    BY <1>1, <1>3, NestPair
  <1>5. Bal(code, e - 1) = k /\ \A r \in p..e - 1 : Bal(code, r) >= k
    BY <1>2
  <1> HIDE DEF k
  <1>6. Placed(e, SubSeq(a, 1, k), L)
    BY <1>3, <1>4, <1>5, PlacedCut
  <1> QED
    BY <1>6 DEF Front, k

(* Control goes back to the head of a loop that tests its condition.       *)
LEMMA PlacedBack ==
  ASSUME Finished, NEW L, NEW p, NEW a, Placed(p, a, L),
         p \in 1..Len(code), code[p].op = "close"
  PROVE  Placed(Last(a).at, Front(a), L)
  <1>1. Nest(p, a) /\ Len(code) \in Nat /\ p \in Nat
    BY FinishedIs DEF Placed
  <1>2. Len(a) \in Nat /\ Len(a) \in 1..Len(a)
    BY <1>1, NestClose
  <1> DEFINE n == Len(a)
             k == n - 1
             q == a[n].at
  <1>3. /\ q \in 1..Len(code) /\ code[q].op \in Openings /\ q < p /\ Bal(code, q) = n
        /\ q \in L
    BY <1>1, <1>2, NestPair DEF Placed
  <1>4. \A j \in 1..n - 1 : a[j].at < q
    <2> TAKE j \in 1..n - 1
    <2>1. j \in 1..n /\ n \in 1..n /\ j < n
      BY <1>2
    <2> QED
      BY <1>1, <2>1, NestOrder
  <1> HIDE DEF n, q
  <1>5. Bal(code, q - 1) = n - 1 /\ n \in Nat
    <2>1. Bal(code, q) = Bal(code, q - 1) + 1 /\ Bal(code, q - 1) \in Int
      <3>1. q - 1 \in 0..Len(code)
        BY <1>1, <1>3
      <3> QED
        BY <1>3, <3>1, FinishedIs
    <2> QED
      BY <1>2, <1>3, <2>1 DEF n
  <1>6. k \in 0..Len(a)
    BY <1>2 DEF n
  <1>7. q \in 1..p /\ q \in q..Len(code) + 1 /\ \A r \in q..q - 1 : Bal(code, r) >= k
    BY <1>1, <1>3
  <1>8. Bal(code, q - 1) = k /\ \A j \in 1..k : a[j].at < q
    BY <1>4, <1>5
  <1> HIDE DEF k
  <1>9. Placed(q, SubSeq(a, 1, k), L)
    BY <1>3, <1>6, <1>7, <1>8, PlacedCut
  <1> QED
    BY <1>9 DEF Front, Last, k, q, n

(* A counted loop runs its body once more.                                 *)
LEMMA PlacedAgain ==
  ASSUME Finished, NEW L, NEW P, Paths(code, L, P), NEW p, NEW a, Placed(p, a, L),
         p \in 1..Len(code), code[p].op = "close",
         Backend = "native" => Last(a).done + 1 < Last(a).entry
  PROVE  Placed(Last(a).at + 1, [a EXCEPT ![Len(a)].done = @ + 1], L)
  <1> DEFINE n == Len(a)
             q == a[n].at
             b == [a EXCEPT ![n].done = @ + 1]
  <1>1. Nest(p, a) /\ Len(code) \in Nat /\ p \in Nat /\ a \in Seq(FrameType)
    BY FinishedIs DEF Placed, Nest
  <1>2. n \in Nat /\ n \in 1..n
    BY <1>1, NestClose
  <1>3. /\ q \in 1..Len(code) /\ code[q].op \in Openings /\ q < p /\ Bal(code, q) = n
        /\ q \in L
    BY <1>1, <1>2, NestPair DEF Placed
  <1>4. \A j \in 1..n : a[j].at < q + 1
    <2> TAKE j \in 1..n
    <2>1. j \in 1..n /\ n \in 1..n /\ (j < n \/ j = n)
      BY <1>2
    <2>2. j < n => a[j].at < q
      BY <1>1, <2>1, NestOrder
    <2>3. a[j].at \in 1..Len(code)
      BY <1>1, NestPair
    <2> QED
      BY <1>3, <2>1, <2>2, <2>3
  <1>5. q + 1 \in L
    <2>1. code[q].op \notin Jumps
      BY <1>3, Zenon DEF Jumps, Openings, Loops
    <2> QED
      BY <1>3, <2>1 DEF Paths, Follows
  <1>6. /\ b \in Seq(FrameType) /\ Len(b) = n
        /\ \A j \in 1..n : /\ j # n => b[j] = a[j]
                           /\ b[j].at = a[j].at /\ b[j].entry = a[j].entry
        /\ b[n].done = a[n].done + 1
    <2> DEFINE g == [a[n] EXCEPT !.done = @ + 1]
    <2>1. a[n] \in FrameType
      BY <1>1, <1>2
    <2>2. /\ g \in FrameType /\ g.at = a[n].at /\ g.entry = a[n].entry
          /\ g.done = a[n].done + 1
      BY <2>1 DEF FrameType
    <2>3. b = [a EXCEPT ![n] = g]
      OBVIOUS
    <2> HIDE DEF g, FrameType, b
    <2>4. b \in Seq(FrameType) /\ Len(b) = n /\ b[n] = g /\ \A j \in 1..n : j # n => b[j] = a[j]
      BY <1>1, <1>2, <2>2, <2>3
    <2> QED
      BY <2>2, <2>4
  <1>7. a[n] = Last(a)
    BY DEF Last
  <1> HIDE DEF n, q, b
  <1>8. /\ q + 1 \in 1..p /\ q + 1 \in q + 1..Len(code) + 1 /\ (q + 1) - 1 = q /\ n \in 0..n
        /\ \A r \in q + 1..(q + 1) - 1 : Bal(code, r) >= n
    BY <1>1, <1>2, <1>3
  <1>9. Nest(q + 1, b)
    <2>1. n \in 0..Len(a)
      BY <1>8 DEF n
    <2>2. Bal(code, (q + 1) - 1) = n
      BY <1>3, <1>8
    <2>3. \A j \in 1..n : b[j].at = a[j].at
      BY <1>6
    <2> DEFINE s == q + 1
    <2> HIDE DEF s
    <2>4. /\ s \in 1..p /\ s \in s..Len(code) + 1 /\ Bal(code, s - 1) = n
          /\ \A j \in 1..n : a[j].at < s
      BY <1>4, <1>8, <2>2 DEF s
    <2>5. \A r \in s..s - 1 : Bal(code, r) >= n
      BY <2>4
    <2>6. Nest(s, b)
      BY <1>1, <1>6, <2>1, <2>3, <2>4, <2>5, NestMove
    <2> QED
      BY <2>6 DEF s
  <1>10. \A j \in 1..Len(b) : b[j].at \in L
    BY <1>6 DEF Placed, n
  <1>11. ASSUME Backend = "native", NEW j \in 1..Len(b), code[b[j].at].op \in Counted
         PROVE  b[j].done < b[j].entry
    <2>1. j \in 1..n /\ (j = n \/ j # n)
      BY <1>6
    <2>2. j # n => a[j].done < a[j].entry
      BY <1>6, <1>11, <2>1 DEF Placed, n
    <2>3. j = n => a[n].done + 1 < a[n].entry
      BY <1>7, <1>11
    <2> QED
      BY <1>6, <2>1, <2>2, <2>3
  <1>12. Placed(q + 1, b, L)
    BY <1>5, <1>9, <1>10, <1>11 DEF Placed
  <1> QED
    BY <1>7, <1>12 DEF b, q, n

(* A loop is left from within.                                             *)
LEMMA PlacedBreak ==
  ASSUME Finished, NEW L, NEW P, Paths(code, L, P), NEW p, NEW a, Placed(p, a, L),
         NEW k \in 1..Len(a), code[a[k].at].op \in Loops
  PROVE  Placed(Matching(a[k].at) + 1, SubSeq(a, 1, k - 1), L)
  <1> DEFINE q == a[k].at
             m == Matching(q)
  <1>1. Nest(p, a) /\ Len(code) \in Nat /\ p \in Nat /\ Len(a) \in Nat
    <2>1. a \in Seq(FrameType)
      BY DEF Placed, Nest
    <2>2. Len(a) \in Nat
      BY <2>1
    <2> QED
      BY <2>2, FinishedIs DEF Placed, Nest
  <1>2. /\ q \in 1..Len(code) /\ q < p /\ Bal(code, q) = k
        /\ m \in 1..Len(code) /\ Pair(code, q, m) /\ q \in L
    BY <1>1, NestPair DEF Placed
  <1>3. \A j \in 1..k - 1 : a[j].at < q
    <2> TAKE j \in 1..k - 1
    <2>1. j \in 1..Len(a) /\ j < k
      BY <1>1
    <2> QED
      BY <1>1, <2>1, NestOrder
  <1>4. code[q].op \in Loops
    OBVIOUS
  <1> HIDE DEF q, m
  <1>5. /\ q < m /\ Bal(code, q - 1) \in Int /\ Bal(code, q) = Bal(code, q - 1) + 1
        /\ Bal(code, m) = Bal(code, q - 1)
        /\ \A r \in q - 1..m : Bal(code, r) \in Int /\ Bal(code, r) >= Bal(code, q - 1)
    BY <1>2, PairSpan
  <1>6. k - 1 = Bal(code, q - 1) /\ k - 1 \in 0..Len(a) /\ q \in 1..p
        /\ m + 1 \in q..Len(code) + 1 /\ (m + 1) - 1 = m
        /\ \A r \in q..m : r \in q - 1..m
    BY <1>1, <1>2, <1>5
  <1>7. m + 1 \in L
    <2>1. Joins(code[q].op, q, m, L, P)
      BY <1>2 DEF Paths
    <2> QED
      BY <1>2, <1>4, <2>1 DEF Joins
  <1>8. Bal(code, (m + 1) - 1) = k - 1 /\ \A r \in q..(m + 1) - 1 : Bal(code, r) >= k - 1
    BY <1>5, <1>6
  <1>9. Placed(m + 1, SubSeq(a, 1, k - 1), L)
    BY <1>3, <1>6, <1>7, <1>8, PlacedCut
  <1> QED
    BY <1>9 DEF q, m

(* The rest of the body of a loop is passed over.                          *)
LEMMA PlacedContinue ==
  ASSUME Finished, NEW L, NEW P, Paths(code, L, P), NEW p, NEW a, Placed(p, a, L),
         NEW k \in 1..Len(a), code[a[k].at].op \in Loops
  PROVE  Placed(Matching(a[k].at), SubSeq(a, 1, k), L)
  <1> DEFINE q == a[k].at
             m == Matching(q)
  <1>1. Nest(p, a) /\ Len(code) \in Nat /\ p \in Nat /\ Len(a) \in Nat
        /\ a \in Seq(FrameType)
    <2>1. a \in Seq(FrameType)
      BY DEF Placed, Nest
    <2>2. Len(a) \in Nat
      BY <2>1
    <2> QED
      BY <2>1, <2>2, FinishedIs DEF Placed, Nest
  <1>2. /\ q \in 1..Len(code) /\ q < p /\ Bal(code, q) = k
        /\ m \in 1..Len(code) /\ Pair(code, q, m) /\ q \in L
    BY <1>1, NestPair DEF Placed
  <1>3. \A j \in 1..k : a[j].at < q + 1
    <2> TAKE j \in 1..k
    <2>1. j \in 1..Len(a) /\ (j < k \/ j = k)
      BY <1>1
    <2>2. j < k => a[j].at < q
      BY <1>1, <2>1, NestOrder
    <2>3. a[j].at \in 1..Len(code)
      BY <1>1, <2>1, NestPair
    <2> QED
      BY <1>2, <2>1, <2>2, <2>3
  <1>4. code[q].op \in Loops
    OBVIOUS
  <1> HIDE DEF q, m
  <1>5. /\ q < m /\ Bal(code, m - 1) = Bal(code, q)
        /\ \A r \in q..m - 1 : Bal(code, r) \in Int /\ Bal(code, r) >= Bal(code, q)
    BY <1>2, PairSpan
  <1>6. k \in 0..Len(a) /\ q + 1 \in 1..p /\ m \in q + 1..Len(code) + 1
        /\ \A r \in q + 1..m - 1 : r \in q..m - 1
    BY <1>1, <1>2, <1>5
  <1>7. m \in L
    <2>1. Joins(code[q].op, q, m, L, P)
      BY <1>2 DEF Paths
    <2> QED
      BY <1>2, <1>4, <2>1 DEF Joins
  <1>8. Bal(code, m - 1) = k /\ \A r \in q + 1..m - 1 : Bal(code, r) >= k
    BY <1>2, <1>5, <1>6
  <1>9. Placed(m, SubSeq(a, 1, k), L)
    BY <1>3, <1>6, <1>7, <1>8, PlacedCut
  <1> QED
    BY <1>9 DEF q, m

(* Where the text compiles, a `break` or a `continue` has its loop.        *)
LEMMA InnermostIs ==
  ASSUME Finished, Compiles, Nest(pc, active), pc \in 1..Len(code),
         code[pc].op \in {"break", "continue"}
  PROVE  Innermost \in 1..Len(active) /\ code[active[Innermost].at].op \in Loops
  <1> DEFINE IsLoop(k) == code[active[k].at].op \in Loops
             n == Len(active)
             S == {k \in 1..n : IsLoop(k)}
  <1>1. PICK open \in 1..pc - 1 : code[open].op \in Loops /\ Matching(open) > pc
    BY DEF Compiles, Within
  <1> DEFINE m == Matching(open)
             d == Bal(code, open)
  <1>2. open \in 1..Len(code) /\ pc \in Nat /\ Len(code) \in Nat
    BY FinishedIs
  <1>3. m \in 1..Len(code) /\ Pair(code, open, m) /\ m > pc
    <2>1. code[open].op \in Openings
      BY <1>1, Zenon DEF Openings
    <2> QED
      BY <1>1, <1>2, <2>1, MatchingPairs DEF Finished
  <1>4. n \in Nat /\ n = Bal(code, pc - 1) /\ \A k \in 1..n : Under(active[k].at, pc, k)
    <2>1. active \in Seq(FrameType)
      BY DEF Nest
    <2>2. n \in Nat
      BY <2>1
    <2> QED
      BY <2>2 DEF Nest
  <1> HIDE DEF n, m, d
  <1>5. /\ Bal(code, open - 1) \in Int /\ d = Bal(code, open - 1) + 1
        /\ \A r \in open..m - 1 : Bal(code, r) \in Int /\ Bal(code, r) >= d
    BY <1>3, PairSpan DEF d
  <1>6. Bal(code, open - 1) >= 0
    <2>1. open - 1 \in 0..Len(code)
      BY <1>2
    <2> QED
      BY <2>1, FinishedIs
  <1>7. d \in 1..n
    <2>1. pc - 1 \in open..m - 1
      BY <1>1, <1>2, <1>3
    <2>2. n >= d
      BY <1>4, <1>5, <2>1
    <2> QED
      BY <1>4, <1>5, <1>6, <2>2
  <1> DEFINE x == active[d].at
  <1>8. Under(x, pc, d)
    BY <1>4, <1>7
  <1> HIDE DEF x
  <1>9. /\ x \in 1..Len(code) /\ x < pc /\ code[x].op \in Openings /\ Bal(code, x) = d
        /\ \A r \in x..pc - 1 : Bal(code, r) >= d
    BY <1>8 DEF Under
  <1>10. ~(x < open)
    <2> SUFFICES ASSUME x < open PROVE FALSE
      OBVIOUS
    <2>1. open - 1 \in x..pc - 1
      BY <1>1, <1>2, <1>9
    <2>2. Bal(code, open - 1) >= d
      BY <1>9, <2>1
    <2> QED
      BY <1>5, <2>2
  <1>11. ~(open < x)
    <2> SUFFICES ASSUME open < x PROVE FALSE
      OBVIOUS
    <2>1. x - 1 \in open..m - 1
      BY <1>1, <1>2, <1>3, <1>9
    <2>2. Bal(code, x - 1) \in Int /\ Bal(code, x - 1) >= d
      BY <1>5, <2>1
    <2>3. Bal(code, x) = Bal(code, x - 1) + 1
      BY <1>9, FinishedIs
    <2> QED
      BY <1>5, <1>9, <2>2, <2>3
  <1>12. x = open
    BY <1>1, <1>2, <1>9, <1>10, <1>11
  <1>13. d \in S
    BY <1>1, <1>7, <1>12 DEF x
  <1>14. S \in SUBSET (0..n)
    OBVIOUS
  <1>15. PICK k \in S : \A y \in S : y <= k
    BY <1>4, <1>13, <1>14, Greatest
  <1>16. k \in 1..n /\ IsLoop(k) /\ \A j \in k + 1..n : ~IsLoop(j)
    <2>1. k \in 1..n /\ IsLoop(k)
      BY <1>15
    <2>2. ASSUME NEW j \in k + 1..n, IsLoop(j) PROVE FALSE
      <3>1. j \in S
        BY <1>4, <2>1, <2>2
      <3> HIDE DEF S
      <3>2. j <= k
        BY <1>15, <3>1
      <3> QED
        BY <1>4, <2>1, <2>2, <3>2
    <2> QED
      BY <2>1, <2>2
  <1> HIDE DEF S, IsLoop
  <1>17. Innermost = CHOOSE z \in 1..n : IsLoop(z) /\ \A j \in z + 1..n : ~IsLoop(j)
    BY DEF Innermost, IsLoop, n
  <1>18. Innermost \in 1..n /\ IsLoop(Innermost)
    BY <1>16, <1>17
  <1> QED
    BY <1>18 DEF IsLoop, n

----------------------------------------------------------------------------
(***************************************************************************)
(* The run of a body, action by action.                                    *)
(***************************************************************************)
Led(p, a) ==
  \E L, P : /\ Paths(code, L, P) /\ Placed(p, a, L)
            /\ valued => Len(code) + 1 \notin L

(* What holds whenever a body is read or run.                              *)
Course ==
  /\ Written
  /\ num \in [Name -> Nat]
  /\ state = "off" => pc = 1 /\ active = <<>>
  /\ state # "off" => verdict = "accepted"
  /\ state = "running" => Compiles /\ Led(pc, active)
  /\ state # "fellOff"

(* What a step of the run comes to.                                        *)
Arrived ==
  /\ vars' = vars /\ num' \in [Name -> Nat]
  /\ \/ state' = "running" /\ Led(pc', active')
     \/ state' \in {"returned", "useAfterFree", "doubleFree"}

(* What is known while a body runs.                                        *)
LEMMA RunningIs ==
  ASSUME Course, state = "running"
  PROVE  /\ Finished /\ verdict = "accepted" /\ Compiles /\ Led(pc, active)
         /\ pc \in 1..Len(code) + 1 /\ Len(code) \in Nat
         /\ pc <= Len(code) => pc \in 1..Len(code)
         /\ active \in Seq(FrameType) /\ Len(active) \in Nat /\ num \in [Name -> Nat]
         /\ Len(active) = Bal(code, pc - 1)
  <1>1. verdict = "accepted"
    <2>1. state # "off"
      BY Zenon
    <2> QED
      BY <2>1, Zenon DEF Course
  <1>2. Sealed /\ Compiles /\ Led(pc, active) /\ num \in [Name -> Nat]
    BY <1>1, Zenon DEF Course, Written
  <1>3. Finished
    BY <1>2, Zenon DEF Sealed, Finished
  <1>4. Nest(pc, active)
    BY <1>2 DEF Led, Placed
  <1>5. pc \in 1..Len(code) + 1 /\ active \in Seq(FrameType) /\ Len(active) = Bal(code, pc - 1)
    BY <1>4 DEF Nest
  <1>6. Len(code) \in Nat /\ Len(active) \in Nat
    BY <1>3, <1>5, FinishedIs
  <1>7. pc <= Len(code) => pc \in 1..Len(code)
    BY <1>5, <1>6
  <1> QED
    BY <1>1, <1>2, <1>3, <1>5, <1>6, <1>7

(* A line that control passes through.                                     *)
LEMMA LineArrives ==
  ASSUME Course, state = "running", pc <= Len(code),
         code[pc].op \in {"bind", "use", "temp", "hoist", "free", "set", "inc"}
  PROVE  Led(pc + 1, active)
  <1>1. Finished /\ pc \in 1..Len(code) /\ Led(pc, active)
    BY RunningIs
  <1>2. PICK L, P : /\ Paths(code, L, P) /\ Placed(pc, active, L)
                    /\ valued => Len(code) + 1 \notin L
    BY <1>1 DEF Led
  <1>3. code[pc].op \notin Openings /\ code[pc].op \notin Jumps
    BY Zenon DEF Openings, Loops, Jumps
  <1>4. Placed(pc + 1, active, L)
    BY <1>1, <1>2, <1>3, PlacedLine
  <1> QED
    BY <1>2, <1>4 DEF Led

(* A declaration.                                                          *)
LEMMA DeclareArrives ==
  ASSUME Course, Declare
  PROVE  Arrived
  <1>1. /\ state = "running" /\ pc <= Len(code) /\ code[pc].op = "bind"
        /\ pc' = pc + 1 /\ vars' = vars /\ state' = state /\ active' = active
        /\ num' = num \/ \E n \in Counts : num' = [num EXCEPT ![code[pc].x] = n]
    BY Zenon DEF Declare, At, Op, Go
  <1>2. Led(pc + 1, active) /\ num \in [Name -> Nat]
    <2>1. code[pc].op \in {"bind", "use", "temp", "hoist", "free", "set", "inc"}
      BY <1>1, Zenon
    <2> QED
      BY <1>1, <2>1, LineArrives, RunningIs
  <1>3. num' \in [Name -> Nat]
    BY <1>1, <1>2, RunAssumption
  <1> QED
    BY <1>1, <1>2, <1>3 DEF Arrived

(* A use.                                                                  *)
LEMMA AccessArrives ==
  ASSUME Course, Access
  PROVE  Arrived
  <1>1. /\ state = "running" /\ pc <= Len(code) /\ code[pc].op = "use"
        /\ vars' = vars /\ active' = active /\ num' = num
        /\ (pc' = pc + 1 /\ state' = state) \/ state' = "useAfterFree"
    BY Zenon DEF Access, At, Op, Go, Stop
  <1>2. Led(pc + 1, active) /\ num \in [Name -> Nat]
    <2>1. code[pc].op \in {"bind", "use", "temp", "hoist", "free", "set", "inc"}
      BY <1>1, Zenon
    <2> QED
      BY <1>1, <2>1, LineArrives, RunningIs
  <1> QED
    BY <1>1, <1>2 DEF Arrived

(* A computed condition or temporary.                                      *)
LEMMA ComputeArrives ==
  ASSUME Course, Compute
  PROVE  Arrived
  <1>1. /\ state = "running" /\ pc <= Len(code) /\ code[pc].op \in {"temp", "hoist"}
        /\ vars' = vars /\ active' = active /\ num' = num
        /\ pc' = pc + 1 /\ state' = state
    BY Zenon DEF Compute, At, Op, Go
  <1>2. Led(pc + 1, active) /\ num \in [Name -> Nat]
    <2>1. code[pc].op \in {"bind", "use", "temp", "hoist", "free", "set", "inc"}
      BY <1>1, Zenon
    <2> QED
      BY <1>1, <2>1, LineArrives, RunningIs
  <1> QED
    BY <1>1, <1>2 DEF Arrived

(* A `free`.                                                               *)
LEMMA FreeArrives ==
  ASSUME Course, Free
  PROVE  Arrived
  <1>1. /\ state = "running" /\ pc <= Len(code) /\ code[pc].op = "free"
        /\ vars' = vars /\ active' = active /\ num' = num
        /\ (pc' = pc + 1 /\ state' = state) \/ state' = "doubleFree"
    BY Zenon DEF Free, At, Op, Go, Stop
  <1>2. Led(pc + 1, active) /\ num \in [Name -> Nat]
    <2>1. code[pc].op \in {"bind", "use", "temp", "hoist", "free", "set", "inc"}
      BY <1>1, Zenon
    <2> QED
      BY <1>1, <2>1, LineArrives, RunningIs
  <1> QED
    BY <1>1, <1>2 DEF Arrived

(* An assignment.                                                          *)
LEMMA AssignArrives ==
  ASSUME Course, Assign
  PROVE  Arrived
  <1> DEFINE New(v) == IF code[pc].op = "inc" THEN v + 1 ELSE IF v = 0 THEN 0 ELSE v - 1
  <1>1. /\ state = "running" /\ pc <= Len(code) /\ code[pc].op \in {"set", "inc"}
        /\ vars' = vars /\ active' = active
        /\ pc' = pc + 1 /\ state' = state
    BY Zenon DEF Assign, At, Op, Go
  <1>2. num' = [num EXCEPT ![code[pc].x] = New(num[code[pc].x])]
    BY DEF Assign, Op
  <1>3. Led(pc + 1, active) /\ num \in [Name -> Nat]
    <2>1. code[pc].op \in {"bind", "use", "temp", "hoist", "free", "set", "inc"}
      BY <1>1, Zenon
    <2> QED
      BY <1>1, <2>1, LineArrives, RunningIs
  <1>4. \A v \in Nat : New(v) \in Nat
    OBVIOUS
  <1> HIDE DEF New
  <1>5. num' \in [Name -> Nat]
    BY <1>2, <1>3, <1>4
  <1> QED
    BY <1>1, <1>3, <1>5 DEF Arrived

(* The frame of a block that is entered.                                   *)
LEMMA FrameIs ==
  ASSUME NEW at \in Nat, NEW base \in Nat, NEW entry \in Nat
  PROVE  /\ Frame(at, base, entry) \in FrameType
         /\ Frame(at, base, entry).at = at /\ Frame(at, base, entry).entry = entry
         /\ Frame(at, base, entry).done = 0
  BY DEF Frame, FrameType

(* A block is entered.                                                     *)
LEMMA EnterArrives ==
  ASSUME Course, state = "running", pc <= Len(code), code[pc].op \in Openings,
         NEW base \in Nat, NEW entry \in Nat,
         code[pc].op \in Counted => 0 < entry
  PROVE  Led(pc + 1, Append(active, Frame(pc, base, entry)))
  <1>1. Finished /\ pc \in 1..Len(code) /\ Led(pc, active) /\ pc \in Nat
    BY RunningIs
  <1>2. PICK L, P : /\ Paths(code, L, P) /\ Placed(pc, active, L)
                    /\ valued => Len(code) + 1 \notin L
    BY <1>1 DEF Led
  <1> DEFINE f == Frame(pc, base, entry)
  <1>3. f \in FrameType /\ f.at = pc /\ f.entry = entry /\ f.done = 0
    BY <1>1, FrameIs
  <1> HIDE DEF f
  <1>4. Backend = "native" => (code[pc].op \in Counted => f.done < f.entry)
    BY <1>3
  <1>5. Placed(pc + 1, Append(active, f), L)
    BY <1>1, <1>2, <1>3, <1>4, PlacedEnter
  <1>6. Led(pc + 1, Append(active, f))
    BY <1>2, <1>5 DEF Led
  <1> QED
    BY <1>6 DEF f

(* A block is passed over.                                                 *)
LEMMA PassArrives ==
  ASSUME Course, state = "running", pc <= Len(code),
         code[pc].op \in Loops \/ code[pc].op \in {"if", "elseif"}
  PROVE  Led(Matching(pc) + 1, active)
  <1>1. Finished /\ pc \in 1..Len(code) /\ Led(pc, active)
    BY RunningIs
  <1>2. PICK L, P : /\ Paths(code, L, P) /\ Placed(pc, active, L)
                    /\ valued => Len(code) + 1 \notin L
    BY <1>1 DEF Led
  <1>3. code[pc].op \in Openings
    BY Zenon DEF Openings
  <1>4. Matching(pc) \in 1..Len(code) /\ Pair(code, pc, Matching(pc))
    BY <1>1, <1>3, MatchingPairs DEF Finished
  <1>5. Matching(pc) + 1 \in L
    <2>1. Joins(code[pc].op, pc, Matching(pc), L, P)
      BY <1>1, <1>2, <1>4 DEF Paths
    <2>2. pc \in L
      BY <1>2 DEF Placed
    <2> QED
      BY <2>1, <2>2 DEF Joins
  <1>6. Placed(Matching(pc) + 1, active, L)
    BY <1>1, <1>2, <1>3, <1>5, PlacedPass
  <1> QED
    BY <1>2, <1>6 DEF Led

(* The head of a branch.                                                   *)
LEMMA BranchArrives ==
  ASSUME Course, Branch
  PROVE  Arrived
  <1>1. /\ state = "running" /\ pc <= Len(code) /\ code[pc].op \in {"if", "elseif", "else"}
        /\ vars' = vars /\ num' = num /\ state' = state
        /\ \/ active' = Append(active, Frame(pc, 0, 0)) /\ pc' = pc + 1
           \/ code[pc].op # "else" /\ active' = active /\ pc' = Matching(pc) + 1
    BY Zenon DEF Branch, At, Op, Go
  <1>2. code[pc].op \in Openings /\ code[pc].op \notin Counted
    BY <1>1, Zenon DEF Openings, Counted
  <1>3. num \in [Name -> Nat]
    BY <1>1, RunningIs
  <1>4. CASE active' = Append(active, Frame(pc, 0, 0)) /\ pc' = pc + 1
    <2>1. Led(pc + 1, Append(active, Frame(pc, 0, 0)))
      BY <1>1, <1>2, EnterArrives
    <2> QED
      BY <1>1, <1>3, <1>4, <2>1 DEF Arrived
  <1>5. CASE code[pc].op # "else" /\ active' = active /\ pc' = Matching(pc) + 1
    <2>1. code[pc].op \in {"if", "elseif"}
      BY <1>1, <1>5, Zenon
    <2>2. Led(Matching(pc) + 1, active)
      BY <1>1, <2>1, PassArrives
    <2> QED
      BY <1>1, <1>3, <1>5, <2>2 DEF Arrived
  <1> QED
    BY <1>1, <1>4, <1>5

(* The block around a lowered range.                                       *)
LEMMA EnterScopeArrives ==
  ASSUME Course, EnterScope
  PROVE  Arrived
  <1>1. /\ state = "running" /\ pc <= Len(code) /\ code[pc].op = "scope"
        /\ vars' = vars /\ state' = state /\ pc' = pc + 1
    BY Zenon DEF EnterScope, At, Op, Go
  <1>2. PICK start \in Starts, n \in Counts :
          /\ active' = Append(active, Frame(pc, start, n))
          /\ num' = [num EXCEPT ![code[pc].x] = start]
    BY Zenon DEF EnterScope
  <1>3. code[pc].op \in Openings /\ code[pc].op \notin Counted
    BY <1>1, Zenon DEF Openings, Counted
  <1>4. start \in Nat /\ n \in Nat
    BY RunAssumption
  <1>5. Led(pc + 1, Append(active, Frame(pc, start, n)))
    BY <1>1, <1>3, <1>4, EnterArrives
  <1>6. num' \in [Name -> Nat]
    <2>1. num \in [Name -> Nat]
      BY <1>1, RunningIs
    <2> QED
      BY <1>2, <1>4, <2>1
  <1> QED
    BY <1>1, <1>2, <1>5, <1>6 DEF Arrived

(* How often a counted loop is to run is a number: a range has its block,  *)
(* and a `loop` has a name.                                                *)
LEMMA EntryIs ==
  ASSUME Course, state = "running", pc <= Len(code), code[pc].op \in Loops
  PROVE  Entry \in Nat
  <1>1. Finished /\ pc \in 1..Len(code) /\ num \in [Name -> Nat]
        /\ active \in Seq(FrameType) /\ Len(active) \in Nat /\ Len(active) = Bal(code, pc - 1)
    BY RunningIs
  <1>2. /\ code[pc].op = "range" => pc > 1 /\ code[pc - 1].op = "scope"
        /\ code[pc].op = "loop" => code[pc].x \in Name
    BY <1>1 DEF Finished, Text
  <1>3. CASE code[pc].op = "loop"
    <2>1. Entry = num[code[pc].x]
      BY <1>3, Zenon DEF Entry, Op
    <2> QED
      BY <1>1, <1>2, <1>3, <2>1
  <1>4. CASE code[pc].op = "range"
    <2>1. code[pc].op # "loop"
      BY <1>4, Zenon
    <2>2. Entry = TopFrame.entry
      BY <1>4, <2>1 DEF Entry, Op
    <2>3. code[pc - 1].op \in Openings
      BY <1>2, <1>4, Zenon DEF Openings
    <2>4. pc - 1 \in 1..Len(code) /\ (pc - 1) - 1 \in 0..Len(code)
      BY <1>1, <1>2, <1>4
    <2>5. Bal(code, pc - 1) > 0
      <3>1. Bal(code, pc - 1) = Bal(code, (pc - 1) - 1) + 1
        BY <1>1, <2>3, <2>4, FinishedIs
      <3>2. Bal(code, (pc - 1) - 1) \in Int /\ Bal(code, (pc - 1) - 1) >= 0
        BY <1>1, <2>4, FinishedIs
      <3> QED
        BY <3>1, <3>2
    <2>6. Len(active) \in 1..Len(active)
      BY <1>1, <2>5
    <2>7. active[Len(active)] \in FrameType
      BY <1>1, <2>6
    <2> QED
      BY <2>2, <2>7 DEF TopFrame, Last, FrameType
  <1>5. CASE code[pc].op = "each"
    <2>1. code[pc].op # "loop" /\ code[pc].op # "range"
      BY <1>5, Zenon
    <2> QED
      BY <1>5, <2>1 DEF Entry, Op
  <1>6. CASE code[pc].op = "while"
    <2>1. code[pc].op # "loop" /\ code[pc].op # "range" /\ code[pc].op # "each"
      BY <1>6, Zenon
    <2> QED
      BY <2>1 DEF Entry, Op
  <1> QED
    BY <1>3, <1>4, <1>5, <1>6, Zenon DEF Loops

(* The head of a loop.                                                     *)
LEMMA EnterLoopArrives ==
  ASSUME Course, EnterLoop
  PROVE  Arrived
  <1>1. /\ state = "running" /\ pc <= Len(code) /\ code[pc].op \in Loops
        /\ vars' = vars /\ num' = num /\ state' = state
        /\ \/ /\ code[pc].op = "while" \/ Entry > 0
              /\ active' = Append(active, Frame(pc, 0, Entry)) /\ pc' = pc + 1
           \/ active' = active /\ pc' = Matching(pc) + 1
    BY Zenon DEF EnterLoop, At, Op, Go
  <1>2. code[pc].op \in Openings
    BY <1>1, Zenon DEF Openings
  <1>3. num \in [Name -> Nat] /\ Entry \in Nat
    BY <1>1, RunningIs, EntryIs
  <1>4. CASE /\ code[pc].op = "while" \/ Entry > 0
             /\ active' = Append(active, Frame(pc, 0, Entry)) /\ pc' = pc + 1
    <2>1. code[pc].op \in Counted => 0 < Entry
      <3>1. code[pc].op = "while" => code[pc].op \notin Counted
        BY Zenon DEF Counted
      <3> QED
        BY <3>1, <1>3, <1>4
    <2>2. Led(pc + 1, Append(active, Frame(pc, 0, Entry)))
      BY <1>1, <1>2, <1>3, <2>1, EnterArrives
    <2> QED
      BY <1>1, <1>3, <1>4, <2>2 DEF Arrived
  <1>5. CASE active' = active /\ pc' = Matching(pc) + 1
    <2>1. Led(Matching(pc) + 1, active)
      BY <1>1, PassArrives
    <2> QED
      BY <1>1, <1>3, <1>5, <2>1 DEF Arrived
  <1> QED
    BY <1>1, <1>4, <1>5

(* What the end of a block comes to.                                       *)
LEMMA EndDoes ==
  ASSUME EndOfBlock
  PROVE  /\ state = "running" /\ pc <= Len(code) /\ code[pc].op = "close"
         /\ vars' = vars /\ state' = state /\ num' = num
         /\ code[TopFrame.at].op \in Branches =>
              active' = Front(active) /\ pc' = PastElse(pc + 1)
         /\ code[TopFrame.at].op = "while" => active' = Front(active) /\ pc' = TopFrame.at
         /\ code[TopFrame.at].op \in Counted /\ Again(TopFrame) =>
              /\ active' = [active EXCEPT ![Len(active)].done = @ + 1]
              /\ pc' = TopFrame.at + 1
         /\ code[TopFrame.at].op \in Counted /\ ~Again(TopFrame) =>
              active' = Front(active) /\ pc' = pc + 1
         /\ code[TopFrame.at].op = "scope" => active' = Front(active) /\ pc' = pc + 1
  <1> DEFINE o == code[TopFrame.at].op
             once == /\ active' = [active EXCEPT ![Len(active)].done = @ + 1]
                     /\ Go(TopFrame.at + 1)
             exit == active' = Front(active) /\ Go(pc + 1)
             taken == active' = Front(active) /\ Go(PastElse(pc + 1))
             back == active' = Front(active) /\ Go(TopFrame.at)
             turn == IF Again(TopFrame) THEN once ELSE exit
  <1>1. /\ state = "running" /\ pc <= Len(code) /\ code[pc].op = "close" /\ num' = num
    BY Zenon DEF EndOfBlock, At, Op
  <1>2. (CASE o \in {"if", "elseif", "else"} -> taken
           [] o = "while" -> back
           [] o \in {"loop", "range", "each"} -> turn
           [] OTHER -> exit)
    BY DEF EndOfBlock
  <1> HIDE DEF o, once, exit, taken, back, turn
  <1>3. /\ o \in Branches => taken
        /\ o = "while" => back
        /\ o \in Counted => turn
        /\ o = "scope" => exit
    <2>1. o \in Branches => taken
      <3> SUFFICES ASSUME o \in Branches PROVE taken
        OBVIOUS
      <3>1. o # "while" /\ o \notin {"loop", "range", "each"}
        BY Zenon DEF Branches
      <3> QED
        BY <1>2, <3>1 DEF Branches
    <2>2. o = "while" => back
      <3> SUFFICES ASSUME o = "while" PROVE back
        OBVIOUS
      <3>1. o \notin {"if", "elseif", "else"} /\ o \notin {"loop", "range", "each"}
        BY Zenon
      <3> QED
        BY <1>2, <3>1
    <2>3. o \in Counted => turn
      <3> SUFFICES ASSUME o \in Counted PROVE turn
        OBVIOUS
      <3>1. o \notin {"if", "elseif", "else"} /\ o # "while"
        BY Zenon DEF Counted
      <3> QED
        BY <1>2, <3>1 DEF Counted
    <2>4. o = "scope" => exit
      <3> SUFFICES ASSUME o = "scope" PROVE exit
        OBVIOUS
      <3>1. o \notin {"if", "elseif", "else"} /\ o # "while" /\ o \notin {"loop", "range", "each"}
        BY Zenon
      <3> QED
        BY <1>2, <3>1
    <2> QED
      BY <2>1, <2>2, <2>3, <2>4
  <1>4. vars' = vars /\ state' = state
    <2>1. taken \/ back \/ turn \/ exit
      <3>1. \/ o \in {"if", "elseif", "else"} \/ o = "while" \/ o \in {"loop", "range", "each"}
            \/ ~(o \in {"if", "elseif", "else"} \/ o = "while" \/ o \in {"loop", "range", "each"})
        OBVIOUS
      <3> QED
        BY <1>2, <3>1
    <2> QED
      BY <2>1, Zenon DEF taken, back, turn, once, exit, Go
  <1>5. /\ taken => active' = Front(active) /\ pc' = PastElse(pc + 1)
        /\ back => active' = Front(active) /\ pc' = TopFrame.at
        /\ exit => active' = Front(active) /\ pc' = pc + 1
        /\ once => /\ active' = [active EXCEPT ![Len(active)].done = @ + 1]
                   /\ pc' = TopFrame.at + 1
    BY Zenon DEF taken, back, exit, once, Go
  <1>6. (Again(TopFrame) => (turn => once)) /\ (~Again(TopFrame) => (turn => exit))
    BY DEF turn
  <1> HIDE DEF Again
  <1>7. /\ o \in Branches => active' = Front(active) /\ pc' = PastElse(pc + 1)
        /\ o = "while" => active' = Front(active) /\ pc' = TopFrame.at
        /\ o \in Counted /\ Again(TopFrame) =>
             /\ active' = [active EXCEPT ![Len(active)].done = @ + 1]
             /\ pc' = TopFrame.at + 1
        /\ o \in Counted /\ ~Again(TopFrame) => active' = Front(active) /\ pc' = pc + 1
        /\ o = "scope" => active' = Front(active) /\ pc' = pc + 1
    BY <1>3, <1>5, <1>6, Zenon
  <1> QED
    BY <1>1, <1>4, <1>7, Zenon DEF o

(* The end of a block leaves it, or turns back to its head.                *)
LEMMA EndArrives ==
  ASSUME Course, EndOfBlock
  PROVE  Arrived
  <1> DEFINE q == TopFrame.at
             o == code[q].op
  <1>1. /\ state = "running" /\ pc <= Len(code) /\ code[pc].op = "close"
        /\ vars' = vars /\ state' = state /\ num' = num
        /\ o \in Branches => active' = Front(active) /\ pc' = PastElse(pc + 1)
        /\ o = "while" => active' = Front(active) /\ pc' = q
        /\ o \in Counted /\ Again(TopFrame) =>
             /\ active' = [active EXCEPT ![Len(active)].done = @ + 1]
             /\ pc' = q + 1
        /\ o \in Counted /\ ~Again(TopFrame) => active' = Front(active) /\ pc' = pc + 1
        /\ o = "scope" => active' = Front(active) /\ pc' = pc + 1
    BY EndDoes
  <1>2. /\ Finished /\ pc \in 1..Len(code) /\ Led(pc, active) /\ num \in [Name -> Nat]
        /\ Len(code) \in Nat
    BY <1>1, RunningIs
  <1>3. PICK L, P : /\ Paths(code, L, P) /\ Placed(pc, active, L)
                    /\ valued => Len(code) + 1 \notin L
    BY <1>2 DEF Led
  <1>4. q = active[Len(active)].at /\ TopFrame = Last(active) /\ q = Last(active).at
    BY DEF TopFrame, Last
  <1> HIDE DEF q, o
  <1>5. /\ Pair(code, q, pc) /\ q \in L /\ pc \in L
    <2>1. Nest(pc, active) /\ pc \in L
      BY <1>3 DEF Placed
    <2>2. Len(active) \in 1..Len(active) /\ Pair(code, active[Len(active)].at, pc)
      BY <1>1, <1>2, <2>1, NestClose
    <2>3. active[Len(active)].at \in L
      BY <1>3, <2>2 DEF Placed
    <2> QED
      BY <1>4, <2>1, <2>2, <2>3
  <1>6. q \in 1..Len(code) /\ o \in Openings
    BY <1>5 DEF Pair, o
  <1>7. Joins(o, q, pc, L, P) /\ P \subseteq L
    BY <1>2, <1>3, <1>5, <1>6 DEF Paths, o
  <1>8. o \in Branches \/ o = "while" \/ o \in Counted \/ o = "scope"
    BY <1>6, Zenon DEF Openings, Loops, Branches, Counted
  <1> DEFINE Comes == Led(pc', active')
  <1>9. ASSUME pc + 1 \in L, active' = Front(active), pc' = pc + 1 PROVE Comes
    <2>1. /\ pc + 1 \in pc + 1..Len(code) + 1 /\ (pc + 1) - 1 = pc
          /\ \A r \in pc..(pc + 1) - 1 : r = pc
      BY <1>2
    <2>2. Bal(code, pc) \in Int
      <3>1. pc \in 0..Len(code)
        BY <1>2
      <3> QED
        BY <1>2, <3>1, FinishedIs
    <2>3. /\ Bal(code, (pc + 1) - 1) = Bal(code, pc)
          /\ \A r \in pc..(pc + 1) - 1 : Bal(code, r) >= Bal(code, pc)
      BY <2>1, <2>2
    <2>4. Placed(pc + 1, Front(active), L)
      BY <1>1, <1>2, <1>3, <1>9, <2>1, <2>3, PlacedLeave
    <2> QED
      BY <1>3, <1>9, <2>4 DEF Led
  <1>10. ASSUME o \in Branches PROVE Comes
    <2> DEFINE e == PastElse(pc + 1)
    <2>1. pc + 1 \in P
      BY <1>5, <1>7, <1>10 DEF Joins
    <2>2. e \in P /\ Passed(pc + 1, e)
      BY <1>2, <1>3, <2>1, PastElseFinds
    <2> HIDE DEF e
    <2>3. (pc + 1) - 1 = pc
      BY <1>2
    <2>4. /\ e \in L /\ e \in pc + 1..Len(code) + 1 /\ Bal(code, e - 1) = Bal(code, pc)
          /\ \A r \in pc..e - 1 : Bal(code, r) >= Bal(code, pc)
      BY <1>7, <2>2, <2>3 DEF Passed
    <2>5. Placed(e, Front(active), L)
      BY <1>1, <1>2, <1>3, <2>4, PlacedLeave
    <2>6. active' = Front(active) /\ pc' = e
      BY <1>1, <1>10 DEF e
    <2> QED
      BY <1>3, <2>5, <2>6 DEF Led
  <1>11. ASSUME o = "while" PROVE Comes
    <2>1. Placed(q, Front(active), L)
      BY <1>1, <1>2, <1>3, <1>4, PlacedBack
    <2> QED
      BY <1>1, <1>3, <1>11, <2>1 DEF Led
  <1>12. ASSUME o \in Counted /\ Again(TopFrame) PROVE Comes
    <2>1. Backend = "native" => Last(active).done + 1 < Last(active).entry
      BY <1>4, <1>12 DEF Again, NativeAgain
    <2>2. Placed(q + 1, [active EXCEPT ![Len(active)].done = @ + 1], L)
      BY <1>1, <1>2, <1>3, <1>4, <2>1, PlacedAgain
    <2> QED
      BY <1>1, <1>3, <1>12, <2>2 DEF Led
  <1>13. ASSUME o \in Counted /\ ~Again(TopFrame) PROVE Comes
    <2>1. o \in Loops
      BY <1>13, Zenon DEF Counted, Loops
    <2>2. pc + 1 \in L
      BY <1>5, <1>7, <2>1 DEF Joins
    <2> QED
      BY <1>1, <1>9, <1>13, <2>2
  <1>14. ASSUME o = "scope" PROVE Comes
    <2>1. pc + 1 \in L
      BY <1>5, <1>7, <1>14 DEF Joins
    <2> QED
      BY <1>1, <1>9, <1>14, <2>1
  <1>15. Comes
    BY <1>8, <1>10, <1>11, <1>12, <1>13, <1>14, Zenon
  <1> QED
    BY <1>1, <1>2, <1>15 DEF Arrived

(* A `break`.                                                              *)
LEMMA BreakArrives ==
  ASSUME Course, BreakLoop
  PROVE  Arrived
  <1>1. /\ state = "running" /\ pc <= Len(code) /\ code[pc].op = "break"
        /\ vars' = vars /\ state' = state /\ num' = num
        /\ active' = SubSeq(active, 1, Innermost - 1)
        /\ pc' = Matching(active[Innermost].at) + 1
    BY Zenon DEF BreakLoop, At, Op, Go
  <1>2. /\ Finished /\ Compiles /\ pc \in 1..Len(code) /\ Led(pc, active)
        /\ num \in [Name -> Nat]
    BY <1>1, RunningIs
  <1>3. PICK L, P : /\ Paths(code, L, P) /\ Placed(pc, active, L)
                    /\ valued => Len(code) + 1 \notin L
    BY <1>2 DEF Led
  <1>4. Innermost \in 1..Len(active) /\ code[active[Innermost].at].op \in Loops
    <2>1. code[pc].op \in {"break", "continue"}
      BY <1>1, Zenon
    <2> QED
      BY <1>2, <1>3, <2>1, InnermostIs DEF Placed
  <1>5. Placed(Matching(active[Innermost].at) + 1, SubSeq(active, 1, Innermost - 1), L)
    BY <1>2, <1>3, <1>4, PlacedBreak
  <1>6. Led(pc', active')
    BY <1>1, <1>3, <1>5 DEF Led
  <1> QED
    BY <1>1, <1>2, <1>6 DEF Arrived

(* A `continue`.                                                           *)
LEMMA ContinueArrives ==
  ASSUME Course, ContinueLoop
  PROVE  Arrived
  <1>1. /\ state = "running" /\ pc <= Len(code) /\ code[pc].op = "continue"
        /\ vars' = vars /\ state' = state /\ num' = num
        /\ active' = SubSeq(active, 1, Innermost)
        /\ pc' = Matching(active[Innermost].at)
    BY Zenon DEF ContinueLoop, At, Op, Go
  <1>2. /\ Finished /\ Compiles /\ pc \in 1..Len(code) /\ Led(pc, active)
        /\ num \in [Name -> Nat]
    BY <1>1, RunningIs
  <1>3. PICK L, P : /\ Paths(code, L, P) /\ Placed(pc, active, L)
                    /\ valued => Len(code) + 1 \notin L
    BY <1>2 DEF Led
  <1>4. Innermost \in 1..Len(active) /\ code[active[Innermost].at].op \in Loops
    <2>1. code[pc].op \in {"break", "continue"}
      BY <1>1, Zenon
    <2> QED
      BY <1>2, <1>3, <2>1, InnermostIs DEF Placed
  <1>5. Placed(Matching(active[Innermost].at), SubSeq(active, 1, Innermost), L)
    BY <1>2, <1>3, <1>4, PlacedContinue
  <1>6. Led(pc', active')
    BY <1>1, <1>3, <1>5 DEF Led
  <1> QED
    BY <1>1, <1>2, <1>6 DEF Arrived

(* A `return`.                                                             *)
LEMMA ReturnArrives ==
  ASSUME Course, Return
  PROVE  Arrived
  <1>1. state = "running" /\ vars' = vars /\ num' = num /\ state' = "returned"
    BY Zenon DEF Return, At, Stop
  <1>2. num \in [Name -> Nat]
    BY <1>1, RunningIs
  <1> QED
    BY <1>1, <1>2 DEF Arrived

(* The end of the text is reached by procedures only.                      *)
LEMMA EndOfBodyArrives ==
  ASSUME Course, EndOfBody
  PROVE  Arrived
  <1>1. /\ state = "running" /\ pc > Len(code) /\ vars' = vars /\ num' = num
        /\ state' = IF valued THEN "fellOff" ELSE "returned"
    BY Zenon DEF EndOfBody, Stop
  <1>2. /\ Led(pc, active) /\ num \in [Name -> Nat] /\ pc \in 1..Len(code) + 1
        /\ Len(code) \in Nat
    BY <1>1, RunningIs
  <1>3. pc = Len(code) + 1
    BY <1>1, <1>2
  <1>4. ~valued
    BY <1>2, <1>3 DEF Led, Placed
  <1>5. state' = "returned"
    BY <1>1, <1>4
  <1> QED
    BY <1>1, <1>2, <1>5 DEF Arrived

(* A run starts at the first line, with no block entered.                  *)
LEMMA StartArrives ==
  ASSUME Course, Start
  PROVE  /\ vars' = vars /\ num' = num /\ pc' = pc /\ active' = active
         /\ verdict = "accepted"
         /\ \/ state' = "running" /\ Compiles /\ Led(pc, active)
            \/ state' = "notCompiled"
  <1>1. /\ verdict = "accepted" /\ state = "off"
        /\ state' = IF Compiles THEN "running" ELSE "notCompiled"
        /\ vars' = vars /\ num' = num /\ pc' = pc /\ active' = active
    BY Zenon DEF Start
  <1>2. Sealed /\ pc = 1 /\ active = <<>>
    BY <1>1, Zenon DEF Course, Written
  <1>3. PICK L, P : Paths(code, L, P) /\ (valued => Len(code) + 1 \notin L)
    BY <1>2 DEF Sealed
  <1>4. Finished
    BY <1>2, Zenon DEF Sealed, Finished
  <1>5. Len(code) \in Nat
    BY <1>4, FinishedIs
  <1>6. active \in Seq(FrameType) /\ Len(active) = 0 /\ 1..Len(active) = {}
    <2> HIDE DEF FrameType
    <2> QED
      BY <1>2
  <1>7. Nest(1, active)
    <2>1. Bal(code, 1 - 1) = 0
      <3>1. Bal(code, 0) = 0
        BY <1>4, BalSteps DEF Finished
      <3>2. 1 - 1 = 0
        OBVIOUS
      <3> QED
        BY <3>1, <3>2
    <2>2. 1 \in 1..Len(code) + 1
      BY <1>5
    <2> QED
      BY <1>6, <2>1, <2>2 DEF Nest
  <1>8. Placed(1, active, L)
    BY <1>3, <1>6, <1>7 DEF Placed, Paths
  <1>9. Led(pc, active)
    BY <1>2, <1>3, <1>8 DEF Led
  <1> QED
    BY <1>1, <1>9

(* Before anything is read.                                                *)
LEMMA CourseFirst ==
  ASSUME RunInit
  PROVE  Course
  <1>1. /\ Init /\ pc = 1 /\ active = <<>> /\ state = "off"
        /\ num = [x \in Name |-> 0]
    BY Zenon DEF RunInit
  <1>2. Reading /\ Sound(blocks, code, Owed(blocks))
    BY <1>1, FirstBlock, FirstSound
  <1>3. verdict = "parse"
    BY <1>1, Zenon DEF Init
  <1>4. Written
    BY <1>2, <1>3, Zenon DEF Written
  <1>5. num \in [Name -> Nat]
    BY <1>1
  <1>6. state # "running" /\ state # "fellOff" /\ ~(state # "off")
    BY <1>1, Zenon
  <1> QED
    BY <1>1, <1>4, <1>5, <1>6, Zenon DEF Course

(* A step of the run that goes on or stops.                                *)
LEMMA CourseArrived ==
  ASSUME Course, state = "running", Arrived
  PROVE  Course'
  <1>1. vars' = vars /\ num' \in [Name -> Nat]
    BY DEF Arrived
  <1>2. Written'
    BY <1>1, WrittenKept DEF Course
  <1>3. verdict' = verdict /\ code' = code /\ valued' = valued
    BY <1>1, Zenon DEF vars
  <1>4. verdict = "accepted" /\ Compiles
    BY RunningIs
  <1>5. Compiles' <=> Compiles
    BY <1>3 DEF Compiles, Within, Matching, Count
  <1>6. CASE state' = "running" /\ Led(pc', active')
    <2>1. Led(pc, active)'
      BY <1>3, <1>6 DEF Led, Placed, Nest, Under
    <2>2. state' # "off" /\ state' # "fellOff"
      BY <1>6, Zenon
    <2> QED
      BY <1>1, <1>2, <1>3, <1>4, <1>5, <2>1, <2>2, Zenon DEF Course
  <1>7. CASE state' \in {"returned", "useAfterFree", "doubleFree"}
    <2>1. state' # "off" /\ state' # "fellOff" /\ state' # "running"
      BY <1>7, Zenon
    <2> QED
      BY <1>1, <1>2, <1>3, <1>4, <2>1, Zenon DEF Course
  <1> QED
    BY <1>6, <1>7 DEF Arrived

(* Every step of a running body arrives.                                   *)
LEMMA RunArrives ==
  ASSUME Course, Run, ~Start
  PROVE  state = "running" /\ Arrived
  <1>1. state = "running"
    BY Zenon DEF Run, Declare, Access, Compute, Free, Assign, Branch, EnterScope,
      EnterLoop, EndOfBlock, BreakLoop, ContinueLoop, Return, EndOfBody, At
  <1>2. \/ Declare \/ Access \/ Compute \/ Free \/ Assign \/ Branch
        \/ EnterScope \/ EnterLoop \/ EndOfBlock \/ BreakLoop \/ ContinueLoop \/ Return
        \/ EndOfBody
    BY Zenon DEF Run
  <1>3. Arrived
    BY <1>2, DeclareArrives, AccessArrives, ComputeArrives, FreeArrives, AssignArrives,
       BranchArrives, EnterScopeArrives, EnterLoopArrives, EndArrives, BreakArrives,
       ContinueArrives, ReturnArrives, EndOfBodyArrives, Zenon
  <1> QED
    BY <1>1, <1>3

(* Every step of the reader or of the run keeps the course.                *)
LEMMA CourseKept ==
  ASSUME Course, [RunNext]_allVars
  PROVE  Course'
  <1>1. CASE UNCHANGED allVars
    <2>1. /\ vars' = vars /\ pc' = pc /\ active' = active /\ num' = num /\ state' = state
      BY <1>1, Zenon DEF allVars, runVars
    <2>2. Written'
      BY <2>1, WrittenKept DEF Course
    <2>3. verdict' = verdict /\ code' = code /\ valued' = valued
      BY <2>1, Zenon DEF vars
    <2>4. Compiles' <=> Compiles
      BY <2>3 DEF Compiles, Within, Matching, Count
    <2>5. Led(pc, active)' <=> Led(pc, active)
      BY <2>1, <2>3 DEF Led, Placed, Nest, Under
    <2> QED
      BY <2>1, <2>2, <2>3, <2>4, <2>5, Zenon DEF Course
  <1>2. CASE Parse /\ UNCHANGED runVars
    <2>1. /\ pc' = pc /\ active' = active /\ num' = num /\ state' = state
      BY <1>2, Zenon DEF runVars
    <2>2. Written'
      BY <1>2, WrittenKept DEF Course
    <2>3. verdict = "parse"
      BY <1>2, StepReads DEF Course, Written
    <2>4. state = "off"
      BY <2>3, Zenon DEF Course
    <2>5. state' # "running" /\ state' # "fellOff" /\ state' = "off"
      BY <2>1, <2>4, Zenon
    <2> QED
      BY <2>1, <2>2, <2>4, <2>5, Zenon DEF Course
  <1>3. CASE Start
    <2>1. /\ vars' = vars /\ num' = num /\ pc' = pc /\ active' = active
          /\ verdict = "accepted"
          /\ \/ state' = "running" /\ Compiles /\ Led(pc, active)
             \/ state' = "notCompiled"
      BY <1>3, StartArrives
    <2>2. Written'
      BY <2>1, WrittenKept DEF Course
    <2>3. verdict' = verdict /\ code' = code /\ valued' = valued
      BY <2>1, Zenon DEF vars
    <2>4. Compiles' <=> Compiles
      BY <2>3 DEF Compiles, Within, Matching, Count
    <2>5. Led(pc, active)' <=> Led(pc, active)
      BY <2>1, <2>3 DEF Led, Placed, Nest, Under
    <2>6. /\ state' # "off" /\ state' # "fellOff"
          /\ state' = "running" => Compiles /\ Led(pc, active)
      BY <2>1, Zenon
    <2> QED
      BY <2>1, <2>2, <2>3, <2>4, <2>5, <2>6, Zenon DEF Course
  <1>4. CASE Run /\ ~Start
    BY <1>4, RunArrives, CourseArrived
  <1> QED
    BY <1>1, <1>2, <1>3, <1>4, Zenon DEF RunNext

(* Whatever is read and run, the course is kept.                           *)
THEOREM CourseAlways == RunSpec => []Course
  <1>1. RunInit => Course
    BY CourseFirst
  <1>2. Course /\ [RunNext]_allVars => Course'
    BY CourseKept
  <1> QED
    BY <1>1, <1>2, PTL DEF RunSpec

(* "A non-void function MUST return on every path" (SPEC.md 6): however    *)
(* long the body, and whichever way its conditions go, control never runs  *)
(* off the end of one that the structural analysis of body(), parse_if()   *)
(* and parse_match() accepts.                                              *)
THEOREM EveryPathReturns == RunSpec => []ReturnsOnEveryPath
  <1>1. Course => ReturnsOnEveryPath
    BY Zenon DEF Course, ReturnsOnEveryPath
  <1> QED
    BY <1>1, CourseAlways, PTL

(* The end of a block is the one step at a closing line.                   *)
LEMMA CloseEnds ==
  ASSUME [RunNext]_allVars, At({"close"}), Course
  PROVE  EndOfBlock \/ UNCHANGED allVars
  <1>1. state = "running" /\ pc <= Len(code) /\ code[pc].op = "close"
    BY Zenon DEF At, Op
  <1>2. ~Start
    BY <1>1, Zenon DEF Start
  <1>3. ~Parse
    <2>1. Parse => verdict = "parse"
      BY StepReads DEF Course, Written
    <2>2. verdict = "accepted"
      BY <1>1, RunningIs
    <2> QED
      BY <2>1, <2>2, Zenon
  <1>4. ~EndOfBody
    <2>1. pc \in Int /\ Len(code) \in Int
      BY <1>1, RunningIs
    <2>2. ~(pc > Len(code))
      BY <1>1, <2>1
    <2> QED
      BY <2>2 DEF EndOfBody
  <1>5. /\ ~Declare /\ ~Access /\ ~Compute /\ ~Free /\ ~Assign /\ ~Branch /\ ~EnterScope
        /\ ~EnterLoop /\ ~BreakLoop /\ ~ContinueLoop /\ ~Return
    <2>1. /\ ~At({"bind"}) /\ ~At({"use"}) /\ ~At({"temp", "hoist"}) /\ ~At({"free"})
          /\ ~At({"set", "inc"}) /\ ~At({"if", "elseif", "else"}) /\ ~At({"scope"})
          /\ ~At(Loops) /\ ~At({"break"}) /\ ~At({"continue"}) /\ ~At({"return"})
      BY <1>1, Zenon DEF At, Op, Loops
    <2> QED
      BY <2>1, Zenon DEF Declare, Access, Compute, Free, Assign, Branch, EnterScope,
        EnterLoop, BreakLoop, ContinueLoop, Return
  <1> QED
    BY <1>2, <1>3, <1>4, <1>5, Zenon DEF RunNext, Run

(* "`loop N` runs exactly N times" (SPEC.md 6), for every count: in the    *)
(* native code a counted loop that is left at its end has run as often as  *)
(* its count said when it was entered.                                     *)
THEOREM NativeLoopsRunTheirCount ==
  ASSUME Backend = "native"
  PROVE  RunSpec => LoopRunsCount
  <1> DEFINE Ended == /\ At({"close"})
                      /\ code[TopFrame.at].op \in {"loop", "range", "each"}
                      /\ Len(active') < Len(active)
             Ran == TopFrame.done + 1 = TopFrame.entry
  <1>1. ASSUME Course, [RunNext]_allVars PROVE [Ended => Ran]_allVars
    <2> SUFFICES ASSUME Ended, ~(UNCHANGED allVars) PROVE Ran
      BY DEF Ended
    <2>1. EndOfBlock
      BY <1>1, CloseEnds
    <2>2. code[TopFrame.at].op \in Counted
      BY DEF Counted
    <2>3. /\ state = "running" /\ code[pc].op = "close" /\ pc <= Len(code)
          /\ Again(TopFrame) => active' = [active EXCEPT ![Len(active)].done = @ + 1]
      BY <2>1, <2>2, EndDoes
    <2>4. Finished /\ pc \in 1..Len(code) /\ Led(pc, active)
          /\ active \in Seq(FrameType) /\ Len(active) \in Nat
      BY <1>1, <2>3, RunningIs
    <2>5. ~Again(TopFrame)
      <3> SUFFICES ASSUME Again(TopFrame) PROVE FALSE
        OBVIOUS
      <3>1. active' = [active EXCEPT ![Len(active)].done = @ + 1]
        BY <2>3
      <3>2. Len(active') = Len(active)
        <4> HIDE DEF FrameType
        <4> QED
          BY <2>4, <3>1
      <3> QED
        BY <2>4, <3>2
    <2>6. PICK L : Placed(pc, active, L)
      BY <2>4 DEF Led
    <2>7. Len(active) \in 1..Len(active)
      BY <2>3, <2>4, <2>6, NestClose DEF Placed
    <2>8. TopFrame = active[Len(active)] /\ TopFrame \in FrameType
      BY <2>4, <2>7 DEF TopFrame, Last
    <2>9. TopFrame.done < TopFrame.entry
      BY <2>2, <2>6, <2>7, <2>8 DEF Placed
    <2>10. ~(TopFrame.done + 1 < TopFrame.entry)
      BY <2>5 DEF Again, NativeAgain
    <2>11. TopFrame.done \in Nat /\ TopFrame.entry \in Nat
      BY <2>8 DEF FrameType
    <2> QED
      BY <2>9, <2>10, <2>11
  <1>2. Course /\ [RunNext]_allVars => [Ended => Ran]_allVars
    BY <1>1
  <1>3. LoopRunsCount <=> [][Ended => Ran]_allVars
    BY DEF LoopRunsCount
  <1> HIDE DEF Ended, Ran
  <1> QED
    BY <1>2, <1>3, CourseAlways, PTL DEF RunSpec

----------------------------------------------------------------------------
(***************************************************************************)
(* Where the emitted text uses and frees pointers.                         *)
(***************************************************************************)
IsLine(i, op, x) == i.op = op /\ i.x = x

(* Line d declares what line p uses, is still visible there, and nothing   *)
(* between them frees it.                                                  *)
Declared(c, p) ==
  \E d \in 1..p - 1 :
    /\ IsLine(c[d], "bind", c[p].x)
    /\ \A r \in d..p - 1 : Bal(c, r) >= Bal(c, d) /\ ~IsLine(c[r], "free", c[p].x)

Handled(c, p) ==
  /\ c[p].op = "use" => c[p].x \in Name /\ (c[p].x \in Pointers => Declared(c, p))
  /\ c[p].op = "free" => c[p].x \in Pointers
  /\ c[p].op \in {"scope", "each"} => c[p].x \notin Pointers

Usage(c) == \A p \in 1..Len(c) : Handled(c, p)

(* An entry of the table of names knows of every free of its variable.     *)
Fresh(l, c) ==
  \A k \in 1..Len(l) : \A q \in Visible(c) : c[q].x = l[k].name =>
    \A r \in q..Len(c) : IsLine(c[r], "free", l[k].name) => l[k].freed

(* Lines that neither use nor free, and declare no pointer.                *)
Quiet(i) ==
  i.op \notin {"use", "free"} /\ (i.op \in {"scope", "each"} => i.x \notin Pointers)

Quietly(c, d) ==
  Same(c, d, Len(c)) /\ \A p \in Len(c) + 1..Len(d) : Quiet(d[p])

(* Every entry of k is one of l, or of a name that l does not hold.        *)
Kin(l, k) ==
  \A j \in 1..Len(k) : \/ \E i \in 1..Len(l) : k[j] = l[i]
                       \/ \A i \in 1..Len(l) : l[i].name # k[j].name

(* What is handled stays so when lines follow.                             *)
LEMMA HandledSame ==
  ASSUME NEW c \in Seq(Line), NEW d \in Seq(Line), Same(c, d, Len(c)),
         NEW p \in 1..Len(c), Handled(c, p)
  PROVE  Handled(d, p)
  <1>1. Len(c) \in Nat /\ d[p] = c[p] /\ \A q \in 1..Len(c) : d[q] = c[q]
    BY DEF Same
  <1>2. \A q \in 0..Len(c) : Bal(d, q) = Bal(c, q)
    BY <1>1, BalSame
  <1>3. ASSUME Declared(c, p) PROVE Declared(d, p)
    <2>1. PICK h \in 1..p - 1 :
            /\ IsLine(c[h], "bind", c[p].x)
            /\ \A r \in h..p - 1 : Bal(c, r) >= Bal(c, h) /\ ~IsLine(c[r], "free", c[p].x)
      BY <1>3 DEF Declared
    <2>2. h \in 1..Len(c) /\ \A r \in h..p - 1 : r \in 1..Len(c) /\ r \in 0..Len(c)
      BY <1>1
    <2>3. h \in 0..Len(c)
      BY <2>2
    <2>4. IsLine(d[h], "bind", d[p].x)
      BY <1>1, <2>1, <2>2
    <2>5. ASSUME NEW r \in h..p - 1
          PROVE  Bal(d, r) >= Bal(d, h) /\ ~IsLine(d[r], "free", d[p].x)
      <3>1. Bal(d, r) = Bal(c, r) /\ Bal(d, h) = Bal(c, h) /\ d[r] = c[r]
        BY <1>1, <1>2, <2>2, <2>3
      <3> QED
        BY <1>1, <2>1, <3>1
    <2> QED
      BY <2>4, <2>5 DEF Declared
  <1> QED
    BY <1>1, <1>3, Zenon DEF Handled

(* Quiet lines can be added.                                               *)
LEMMA UsageQuietly ==
  ASSUME NEW c \in Seq(Line), NEW d \in Seq(Line), Quietly(c, d), Usage(c)
  PROVE  Usage(d)
  <1> SUFFICES ASSUME NEW p \in 1..Len(d) PROVE Handled(d, p)
    BY DEF Usage
  <1>1. p \in 1..Len(c) \/ p \in Len(c) + 1..Len(d)
    OBVIOUS
  <1>2. CASE p \in 1..Len(c)
    BY <1>2, HandledSame DEF Quietly, Usage
  <1>3. CASE p \in Len(c) + 1..Len(d)
    <2>1. Quiet(d[p])
      BY <1>3 DEF Quietly
    <2> QED
      BY <2>1, Zenon DEF Quiet, Handled
  <1> QED
    BY <1>1, <1>2, <1>3

(* What is visible was so before the lines that follow.                    *)
LEMMA VisibleBefore ==
  ASSUME NEW c \in Seq(Line), NEW d \in Seq(Line), Same(c, d, Len(c)),
         NEW q \in Visible(d), q \in 1..Len(c)
  PROVE  q \in Visible(c) /\ d[q] = c[q]
  <1>1. Len(c) \in Nat /\ Len(d) \in Nat /\ Len(c) <= Len(d) /\ d[q] = c[q]
    BY DEF Same
  <1>2. \A r \in 0..Len(c) : Bal(d, r) = Bal(c, r)
    BY <1>1, BalSame
  <1>3. d[q].op \in Declaring /\ Held(d, q)
    BY DEF Visible
  <1>4. ASSUME NEW r \in q..Len(c) PROVE Bal(c, r) >= Bal(c, q)
    <2>1. r \in 0..Len(c) /\ q \in 0..Len(c) /\ r \in q..Len(d)
      BY <1>1
    <2>2. Bal(d, r) >= Bal(d, q)
      BY <1>3, <2>1 DEF Held
    <2> QED
      BY <1>2, <2>1, <2>2
  <1> QED
    BY <1>1, <1>3, <1>4 DEF Visible, Held

(* Quiet lines and known or new names leave the table right.               *)
LEMMA FreshTurn ==
  ASSUME NEW c \in Seq(Line), NEW d \in Seq(Line), NEW l, NEW k,
         Agree(l, c), Fresh(l, c), Kin(l, k), Quietly(c, d)
  PROVE  Fresh(k, d)
  <1> SUFFICES ASSUME NEW j \in 1..Len(k), NEW q \in Visible(d), d[q].x = k[j].name,
                      NEW r \in q..Len(d), IsLine(d[r], "free", k[j].name)
               PROVE  k[j].freed
    BY DEF Fresh
  <1>1. Same(c, d, Len(c)) /\ Len(c) \in Nat /\ Len(d) \in Nat
        /\ \A p \in 1..Len(c) : d[p] = c[p]
    BY DEF Quietly, Same
  <1>2. q \in 1..Len(d)
    BY DEF Visible
  <1>3. r \in 1..Len(c)
    <2> SUFFICES ASSUME r \notin 1..Len(c) PROVE FALSE
      OBVIOUS
    <2>1. r \in Len(c) + 1..Len(d)
      BY <1>1, <1>2
    <2>2. d[r].op \notin {"use", "free"}
      BY <2>1 DEF Quietly, Quiet
    <2> QED
      BY <2>2, Zenon DEF IsLine
  <1>4. q \in 1..Len(c) /\ r \in q..Len(c)
    BY <1>1, <1>2, <1>3
  <1>5. q \in Visible(c) /\ d[q] = c[q]
    BY <1>1, <1>4, VisibleBefore
  <1>6. PICK i \in 1..Len(l) : c[q].x = l[i].name
    BY <1>5 DEF Agree
  <1>7. l[i].name = k[j].name
    BY <1>5, <1>6
  <1>8. PICK m \in 1..Len(l) : k[j] = l[m]
    BY <1>7 DEF Kin
  <1>9. IsLine(c[r], "free", l[m].name) /\ c[q].x = l[m].name
    BY <1>1, <1>3, <1>5, <1>8
  <1> QED
    BY <1>4, <1>5, <1>8, <1>9 DEF Fresh

(* One quiet line after another.                                           *)
LEMMA QuietlyOne ==
  ASSUME NEW c \in Seq(Line), NEW i \in Line, Quiet(i)
  PROVE  Quietly(c, Append(c, i)) /\ Append(c, i) \in Seq(Line)
  <1>1. /\ Append(c, i) \in Seq(Line) /\ Len(Append(c, i)) = Len(c) + 1
        /\ Same(c, Append(c, i), Len(c)) /\ Append(c, i)[Len(c) + 1] = i
        /\ Len(c) \in Nat
    BY SameAppend
  <1> DEFINE d == Append(c, i)
  <1> HIDE DEF d
  <1>2. \A p \in Len(c) + 1..Len(c) + 1 : p = Len(c) + 1
    BY <1>1
  <1>3. Same(c, d, Len(c)) /\ \A p \in Len(c) + 1..Len(d) : Quiet(d[p])
    BY <1>1, <1>2 DEF d
  <1> QED
    BY <1>1, <1>3 DEF d, Quietly

(* No lines added.                                                         *)
LEMMA QuietlyNone ==
  ASSUME NEW c \in Seq(Line)
  PROVE  Quietly(c, c)
  BY DEF Quietly, Same

(* Lines added twice over.                                                 *)
LEMMA QuietlyThen ==
  ASSUME NEW c \in Seq(Line), NEW d \in Seq(Line), NEW e \in Seq(Line),
         Quietly(c, d), Quietly(d, e)
  PROVE  Quietly(c, e)
  <1>1. /\ Len(c) \in Nat /\ Len(d) \in Nat /\ Len(e) \in Nat
        /\ Len(c) <= Len(d) /\ Len(d) <= Len(e)
        /\ \A q \in 1..Len(c) : d[q] = c[q] /\ q \in 1..Len(d)
        /\ \A q \in 1..Len(d) : e[q] = d[q]
    BY DEF Quietly, Same
  <1>2. Same(c, e, Len(c))
    BY <1>1 DEF Same
  <1>3. ASSUME NEW p \in Len(c) + 1..Len(e) PROVE Quiet(e[p])
    <2>1. CASE p \in 1..Len(d)
      <3>1. p \in Len(c) + 1..Len(d)
        BY <1>1, <2>1
      <3> QED
        BY <1>1, <2>1, <3>1 DEF Quietly
    <2>2. CASE p \notin 1..Len(d)
      <3>1. p \in Len(d) + 1..Len(e)
        BY <1>1, <2>2
      <3> QED
        BY <3>1 DEF Quietly
    <2> QED
      BY <2>1, <2>2
  <1> QED
    BY <1>2, <1>3 DEF Quietly

(* The table is left alone, cut or given a new name.                       *)
LEMMA KinIs ==
  ASSUME NEW l \in Seq(Local)
  PROVE  /\ Kin(l, l) /\ Kin(l, <<>>)
         /\ \A m \in 0..Len(l) : Kin(l, SubSeq(l, 1, m))
         /\ \A x \in Name : (\A k \in 1..Len(l) : l[k].name # x) =>
              Kin(l, Append(l, Entered(x)))
  <1>1. Kin(l, l) /\ Kin(l, <<>>)
    BY DEF Kin
  <1>2. ASSUME NEW m \in 0..Len(l) PROVE Kin(l, SubSeq(l, 1, m))
    <2> DEFINE k == SubSeq(l, 1, m)
    <2>1. Len(k) = m /\ \A j \in 1..m : k[j] = l[j] /\ j \in 1..Len(l)
      <3> HIDE DEF Local
      <3> QED
        OBVIOUS
    <2> HIDE DEF k
    <2> QED
      BY <2>1, Zenon DEF Kin, k
  <1>3. ASSUME NEW x \in Name, \A k \in 1..Len(l) : l[k].name # x
        PROVE  Kin(l, Append(l, Entered(x)))
    <2> DEFINE e == Entered(x)
               k == Append(l, e)
    <2>1. e \in Local /\ e.name = x
      BY DEF Entered, Local
    <2> HIDE DEF e
    <2>2. /\ Len(l) \in Nat /\ Len(k) = Len(l) + 1 /\ k[Len(l) + 1] = e
          /\ \A j \in 1..Len(l) : k[j] = l[j]
      <3> HIDE DEF Local
      <3> QED
        BY <2>1
    <2> HIDE DEF k
    <2>3. ASSUME NEW j \in 1..Len(k)
          PROVE  \/ \E i \in 1..Len(l) : k[j] = l[i]
                 \/ \A i \in 1..Len(l) : l[i].name # k[j].name
      <3>1. CASE j \in 1..Len(l)
        BY <2>2, <3>1
      <3>2. CASE j = Len(l) + 1
        BY <1>3, <2>1, <2>2, <3>2
      <3> QED
        BY <2>2, <3>1, <3>2
    <2> QED
      BY <2>3 DEF Kin, k, e
  <1> QED
    BY <1>1, <1>2, <1>3

(* Forgetting the names of a block.                                        *)
LEMMA KinDropped ==
  ASSUME Stand(blocks, loc, loops, code), Last(blocks).kind # "match"
  PROVE  /\ Kin(loc, Dropped)
         /\ Last(blocks).kind \in {"range", "each"} =>
              Kin(loc, SubSeq(loc, 1, Last(blocks).before))
  <1>1. loc \in Seq(Local) /\ Last(blocks).nloc \in 0..Len(loc)
        /\ Found(Last(blocks)) \in 0..Len(loc)
    BY StandIs
  <1>2. Kin(loc, loc) /\ Kin(loc, SubSeq(loc, 1, Last(blocks).nloc))
        /\ Kin(loc, SubSeq(loc, 1, Found(Last(blocks))))
    BY <1>1, KinIs
  <1>3. Kin(loc, Dropped)
    BY <1>2 DEF Dropped
  <1> QED
    BY <1>2, <1>3, Zenon DEF Found

(* Operations of which no line is one that matters here.                   *)
QuietOps == OpNames \ {"use", "free", "scope", "each"}

(* Lines of these operations are quiet.                                    *)
LEMMA QuietIs ==
  /\ \A i : i.op \in QuietOps => Quiet(i)
  /\ {"bind", "set", "break", "continue", "return", "inc", "temp", "hoist", "close", "if",
      "else", "elseif", "while", "loop", "range"} \subseteq QuietOps
  <1>1. \A i : i.op \in QuietOps => Quiet(i)
    BY Zenon DEF QuietOps, Quiet
  <1>2. {"bind", "set", "break", "continue", "return", "inc", "temp", "hoist", "close", "if",
         "else", "elseif", "while", "loop", "range"} \subseteq QuietOps
    BY Zenon DEF QuietOps, OpNames, Openings, Loops
  <1> QED
    BY <1>1, <1>2

(* A condition is computed quietly.                                        *)
LEMMA QuietAhead ==
  ASSUME NEW c \in Seq(Line), NEW d \in Seq(Line), Ahead(c, d)
  PROVE  Quietly(c, d)
  <1>1. CASE d = c
    BY <1>1, QuietlyNone
  <1>2. ASSUME NEW i \in Line, i.op \in {"inc", "hoist"}, d = Append(c, i) PROVE Quietly(c, d)
    <2>1. i.op \in QuietOps
      BY <1>2, QuietIs, Zenon
    <2> QED
      BY <1>2, <2>1, QuietIs, QuietlyOne
  <1> QED
    BY <1>1, <1>2 DEF Ahead

QuietStep ==
  verdict' = "rejected" \/ (Quietly(code, code') /\ Kin(loc, loc'))

(* One more line.                                                          *)
LEMMA QuietLine ==
  ASSUME NEW c \in Seq(Line), Ahead(code, c), code \in Seq(Line), NEW i \in Line, Quiet(i),
         code' = Append(c, i), Kin(loc, loc')
  PROVE  QuietStep
  <1>1. Quietly(code, c)
    BY QuietAhead
  <1>2. Quietly(c, code') /\ code' \in Seq(Line)
    BY QuietlyOne
  <1>3. Quietly(code, code')
    BY <1>1, <1>2, QuietlyThen
  <1> QED
    BY <1>3 DEF QuietStep

(* A text is ahead of itself.                                              *)
LEMMA AheadNone ==
  ASSUME NEW c
  PROVE  Ahead(c, c)
  BY DEF Ahead

(* Set and break.                                                          *)
LEMMA FlatQuiet ==
  ASSUME Now, NEW t \in Tokens, Set(t) \/ Break(t)
  PROVE  QuietStep
  <1>1. code \in Seq(Line) /\ loc \in Seq(Local)
    BY NowIs
  <1>2. t.x \in NameOrNone /\ "" \in NameOrNone
    BY TokenNames, NoneIs
  <1>3. "set" \in QuietOps /\ "break" \in QuietOps
    BY QuietIs, Zenon
  <1>4. ASSUME NEW op \in QuietOps, NEW x \in NameOrNone, Emit(<<Instr(op, x)>>), loc' = loc
        PROVE  QuietStep
    <2>1. op \in OpNames
      BY DEF QuietOps
    <2>2. /\ Instr(op, x) \in Line /\ Instr(op, x).op = op
          /\ code \o <<Instr(op, x)>> = Append(code, Instr(op, x))
      BY <1>1, <2>1, LinesAre
    <2>3. Quiet(Instr(op, x))
      BY <2>2, QuietIs
    <2>4. Kin(loc, loc')
      BY <1>1, <1>4, KinIs
    <2> QED
      BY <1>1, <1>4, <2>2, <2>3, <2>4, AheadNone, QuietLine DEF Emit
  <1>5. CASE Set(t)
    <2>1. Reject \/ (Emit(<<Instr("set", t.x)>>) /\ loc' = loc)
      BY <1>5, Zenon DEF Set
    <2>2. Reject => QuietStep
      BY Zenon DEF Reject, QuietStep
    <2> QED
      BY <1>2, <1>3, <1>4, <2>1, <2>2, Zenon
  <1>6. CASE Break(t)
    <2>1. Emit(<<Instr("break", "")>>) /\ loc' = loc
      BY <1>6, Zenon DEF Break
    <2> QED
      BY <1>2, <1>3, <1>4, <2>1, Zenon
  <1> QED
    BY <1>5, <1>6

(* What a rejection leaves.                                                *)
LEMMA RefusedQuiet ==
  ASSUME Refused
  PROVE  QuietStep
  BY Zenon DEF Refused, QuietStep

(* Statements of one line, with what computes a condition.                 *)
LEMMA LinesQuiet ==
  ASSUME Now, NEW t \in Tokens,
         \/ Continue(t) \/ Ret(t) \/ Bind(t) \/ OpenIf(t) \/ OpenWhile(t) \/ OpenLoop(t)
         \/ OpenMatch(t) \/ OpenCase(t) \/ OpenCaseElse(t)
  PROVE  QuietStep
  <1>1. /\ code \in Seq(Line) /\ loc \in Seq(Local) /\ Typed /\ verdict = "parse"
        /\ Kin(loc, loc)
    BY NowIs, KinIs
  <1>2. ASSUME NEW c \in Seq(Line), Ahead(code, c), NEW i \in Line, i.op \in QuietOps,
               code' = Append(c, i), Kin(loc, loc')
        PROVE  QuietStep
    <2>1. Quiet(i)
      BY <1>2, QuietIs
    <2> QED
      BY <1>1, <1>2, <2>1, QuietLine
  <1>3. CASE Continue(t)
    <2>1. PICK c \in Seq(Line) : Ahead(code, c) /\
            \E i \in Line : i.op = "continue" /\ code' = Append(c, i)
      BY <1>1, <1>3, ContinueDoes
    <2>2. loc' = loc
      BY <1>1, <1>3, ContinueDoes
    <2>3. "continue" \in QuietOps
      BY QuietIs, Zenon
    <2> QED
      BY <1>1, <1>2, <2>1, <2>2, <2>3
  <1>4. CASE Ret(t)
    <2>1. \/ Refused
          \/ loc' = loc /\ \E i \in Line : i.op = "return" /\ code' = Append(code, i)
      BY <1>1, <1>4, RetDoes
    <2>2. "return" \in QuietOps
      BY QuietIs, Zenon
    <2> QED
      BY <1>1, <1>2, <2>1, <2>2, AheadNone, RefusedQuiet
  <1>5. CASE Bind(t)
    <2>1. \/ Refused
          \/ /\ t.x \in Name /\ loc' = Append(loc, Entered(t.x))
             /\ \A k \in 1..Len(loc) : loc[k].name # t.x
             /\ \E i \in Line : i.op = "bind" /\ code' = Append(code, i)
      BY <1>1, <1>5, BindDoes
    <2>2. "bind" \in QuietOps
      BY QuietIs, Zenon
    <2>3. ~Refused => Kin(loc, loc')
      BY <1>1, <2>1, KinIs
    <2> QED
      BY <1>1, <1>2, <2>1, <2>2, <2>3, AheadNone, RefusedQuiet
  <1>6. CASE OpenIf(t) \/ OpenWhile(t) \/ OpenLoop(t)
    <2>1. \/ Refused
          \/ /\ loc' = loc
             /\ \E k \in {"if", "while", "loop"} :
                  \E c \in Seq(Line) : Ahead(code, c) /\
                      \E i \in Line : i.op = k /\ code' = Append(c, i)
      <3>1. \/ Refused
            \/ /\ Goes /\ UNCHANGED <<valued, loc>> /\ Last(blocks).kind # "match"
               /\ \E k \in {"if", "while", "loop"} :
                    /\ blocks' = Append(blocks, Block(k, Len(loc), 0))
                    /\ loops' = IF k = "if" THEN loops ELSE Append(loops, "")
                    /\ \E c \in Seq(Line) : Ahead(code, c) /\
                         \E i \in Line : /\ i.op = k /\ code' = Append(c, i)
                                         /\ k = "loop" => i.x \in Name
        BY <1>1, <1>6, OpenDoes
      <3> QED
        BY <3>1, Zenon
    <2>2. {"if", "while", "loop"} \subseteq QuietOps
      BY QuietIs, Zenon
    <2> QED
      BY <1>1, <1>2, <2>1, <2>2, RefusedQuiet
  <1>7. CASE OpenMatch(t)
    <2>1. loc' = loc /\ \E i \in Line : i.op = "temp" /\ code' = Append(code, i)
      BY <1>1, <1>7, MatchDoes
    <2>2. "temp" \in QuietOps
      BY QuietIs, Zenon
    <2> QED
      BY <1>1, <1>2, <2>1, <2>2, AheadNone
  <1>8. CASE OpenCase(t)
    <2>1. loc' = loc /\ \E i \in Line : /\ i.op = (IF Last(blocks).hasCase THEN "elseif" ELSE "if")
                                        /\ code' = Append(code, i)
      BY <1>1, <1>8, CaseDoes
    <2>2. (IF Last(blocks).hasCase THEN "elseif" ELSE "if") \in QuietOps
      BY QuietIs, Zenon
    <2> QED
      BY <1>1, <1>2, <2>1, <2>2, AheadNone
  <1>9. CASE OpenCaseElse(t)
    <2>1. loc' = loc /\ \E i \in Line : i.op = "else" /\ code' = Append(code, i)
      BY <1>1, <1>9, CaseElseDoes
    <2>2. "else" \in QuietOps
      BY QuietIs, Zenon
    <2> QED
      BY <1>1, <1>2, <2>1, <2>2, AheadNone
  <1> QED
    BY <1>3, <1>4, <1>5, <1>6, <1>7, <1>8, <1>9
(* A loop over an array, or over a range: neither variable is a pointer.   *)
LEMMA ForQuiet ==
  ASSUME Now, NEW t \in Tokens, OpenEach(t) \/ OpenRange(t)
  PROVE  QuietStep
  <1>1. /\ code \in Seq(Line) /\ loc \in Seq(Local) /\ Typed /\ verdict = "parse"
    BY NowIs
  <1>2. t.x \notin Pointers
    <2>1. t.k \in {"set", "loop", "range", "each"}
      BY Zenon DEF OpenEach, OpenRange, Statement
    <2> QED
      BY <2>1, StatementAssumption, Zenon
  <1>3. ASSUME t.x \in Name, \A k \in 1..Len(loc) : loc[k].name # t.x,
               loc' = Append(loc, Entered(t.x))
        PROVE  Kin(loc, loc')
    BY <1>1, <1>3, KinIs
  <1>4. ASSUME NEW i, i.op \in {"each", "scope"}, i.x = t.x PROVE Quiet(i)
    <2>1. i.op \notin {"use", "free"}
      BY <1>4, Zenon
    <2> QED
      BY <1>2, <1>4, <2>1 DEF Quiet
  <1>5. CASE OpenEach(t)
    <2>1. \/ Refused
          \/ /\ t.x \in Name /\ loc' = Append(loc, Entered(t.x))
             /\ \A k \in 1..Len(loc) : loc[k].name # t.x
             /\ \E i \in Line : i.op = "each" /\ i.x = t.x /\ code' = Append(code, i)
      BY <1>1, <1>5, EachDoes
    <2> QED
      BY <1>1, <1>3, <1>4, <2>1, AheadNone, QuietLine, RefusedQuiet
  <1>6. CASE OpenRange(t)
    <2>1. \/ Refused
          \/ /\ t.x \in Name /\ loc' = Append(loc, Entered(t.x))
             /\ \A k \in 1..Len(loc) : loc[k].name # t.x
             /\ \E i, j \in Line : /\ i.op = "scope" /\ i.x = t.x /\ j.op = "range"
                                   /\ code' = Append(Append(code, i), j)
      BY <1>1, <1>6, RangeDoes
    <2>2. CASE Refused
      BY <2>2, RefusedQuiet
    <2>3. CASE ~Refused
      <3>1. PICK i \in Line, j \in Line :
              i.op = "scope" /\ i.x = t.x /\ j.op = "range" /\ code' = Append(Append(code, i), j)
        BY <2>1, <2>3
      <3>2. Quiet(i)
        BY <1>4, <3>1
      <3>3. Quiet(j)
        <4>1. "range" \in QuietOps
          BY QuietIs, Zenon
        <4> QED
          BY <3>1, <4>1, QuietIs
      <3>4. Quietly(code, Append(code, i)) /\ Append(code, i) \in Seq(Line)
        BY <1>1, <3>2, QuietlyOne
      <3>5. Quietly(Append(code, i), code') /\ code' \in Seq(Line)
        BY <3>1, <3>3, <3>4, QuietlyOne
      <3>6. Quietly(code, code')
        BY <1>1, <3>4, <3>5, QuietlyThen
      <3> QED
        BY <1>3, <2>1, <2>3, <3>6 DEF QuietStep
    <2> QED
      BY <2>2, <2>3
  <1> QED
    BY <1>5, <1>6

(* Closing lines are quiet.                                                *)
LEMMA CloseQuiet ==
  ASSUME NEW c \in Seq(Line)
  PROVE  Quietly(c, Append(c, CloseLine)) /\ Append(c, CloseLine) \in Seq(Line)
  <1>1. CloseLine \in Line /\ CloseLine.op = "close"
    BY CloseLineIs
  <1>2. CloseLine.op \in QuietOps
    BY <1>1, QuietIs, Zenon
  <1> QED
    BY <1>1, <1>2, QuietIs, QuietlyOne

(* The next branch of an if.                                               *)
LEMMA BranchQuiet ==
  ASSUME Now, NEW t \in Tokens, NextBranch(t)
  PROVE  QuietStep
  <1>1. /\ code \in Seq(Line) /\ Typed /\ verdict = "parse"
        /\ Stand(blocks, loc, loops, code)
    BY NowIs
  <1>2. /\ loc' = Dropped /\ Last(blocks).kind = "if" /\ t.k \in {"else", "elseif"}
        /\ \/ verdict' = "rejected"
           \/ \E i \in Line : /\ i.op = t.k
                /\ code' = Append(Prepared(Append(code, CloseLine), t), i)
    BY <1>1, BranchDoes
  <1>3. Last(blocks).kind # "match"
    BY <1>2, Zenon
  <1>4. Kin(loc, loc')
    BY <1>1, <1>2, <1>3, KinDropped
  <1> DEFINE c1 == Append(code, CloseLine)
             c2 == Prepared(c1, t)
  <1>5. Quietly(code, c1) /\ c1 \in Seq(Line)
    BY <1>1, CloseQuiet
  <1> HIDE DEF c1
  <1>6. Ahead(c1, c2) /\ c2 \in Seq(Line)
    BY <1>5, PreparedIs
  <1> HIDE DEF c2
  <1>7. Quietly(code, c2)
    BY <1>1, <1>5, <1>6, QuietAhead, QuietlyThen
  <1>8. ASSUME NEW i \in Line, i.op = t.k, code' = Append(c2, i) PROVE QuietStep
    <2>1. i.op \in QuietOps
      BY <1>2, <1>8, QuietIs, Zenon
    <2>2. Quietly(c2, code') /\ code' \in Seq(Line)
      BY <1>6, <1>8, <2>1, QuietIs, QuietlyOne
    <2>3. Quietly(code, code')
      BY <1>1, <1>6, <1>7, <2>2, QuietlyThen
    <2> QED
      BY <1>4, <2>3 DEF QuietStep
  <1> QED
    BY <1>2, <1>8 DEF QuietStep, c1, c2

(* Closing braces of one line.                                             *)
LEMMA ShutQuiet ==
  ASSUME Now, NEW t \in Tokens,
         CloseIf(t) \/ CloseLoop(t) \/ CloseCase(t) \/ CloseCaseElse(t)
  PROVE  QuietStep
  <1>1. /\ code \in Seq(Line) /\ Typed /\ verdict = "parse"
        /\ Stand(blocks, loc, loops, code)
    BY NowIs
  <1>2. ASSUME Last(blocks).kind # "match", code' = Append(code, CloseLine),
               \/ loc' = Dropped
               \/ Last(blocks).kind \in {"range", "each"} /\ loc' = SubSeq(loc, 1, Last(blocks).before)
        PROVE  QuietStep
    <2>1. Kin(loc, loc')
      BY <1>1, <1>2, KinDropped
    <2>2. Quietly(code, code')
      BY <1>1, <1>2, CloseQuiet
    <2> QED
      BY <2>1, <2>2 DEF QuietStep
  <1>3. CASE CloseIf(t)
    <2>1. loc' = Dropped /\ code' = Append(code, CloseLine) /\ Last(blocks).kind = "if"
      BY <1>1, <1>3, ShutIfDoes
    <2>2. Last(blocks).kind # "match"
      BY <2>1, Zenon
    <2> QED
      BY <1>2, <2>1, <2>2
  <1>4. CASE CloseLoop(t)
    <2>1. /\ loc' = IF Last(blocks).kind = "each"
                      THEN SubSeq(loc, 1, Last(blocks).before) ELSE Dropped
          /\ code' = Append(code, CloseLine)
          /\ Last(blocks).kind \in {"while", "loop", "each"}
      BY <1>1, <1>4, ShutLoopDoes
    <2>2. Last(blocks).kind # "match"
      BY <2>1, Zenon
    <2>3. \/ loc' = Dropped
          \/ Last(blocks).kind \in {"range", "each"} /\ loc' = SubSeq(loc, 1, Last(blocks).before)
      BY <2>1, Zenon
    <2> QED
      BY <1>2, <2>1, <2>2, <2>3
  <1>5. CASE CloseCase(t)
    <2>1. loc' = Dropped /\ code' = Append(code, CloseLine) /\ Last(blocks).kind = "case"
      BY <1>1, <1>5, ShutCaseDoes
    <2>2. Last(blocks).kind # "match"
      BY <2>1, Zenon
    <2> QED
      BY <1>2, <2>1, <2>2
  <1>6. CASE CloseCaseElse(t)
    <2>1. loc' = Dropped /\ code' = Append(code, CloseLine) /\ Last(blocks).kind = "else"
      BY <1>1, <1>6, ShutElseDoes
    <2>2. Last(blocks).kind # "match"
      BY <2>1, Zenon
    <2> QED
      BY <1>2, <2>1, <2>2
  <1> QED
    BY <1>3, <1>4, <1>5, <1>6

(* The end of a range: its variable is advanced, two blocks are closed.    *)
LEMMA ShutRangeQuiet ==
  ASSUME Now, NEW t \in Tokens, CloseRange(t)
  PROVE  QuietStep
  <1>1. /\ code \in Seq(Line) /\ Typed /\ verdict = "parse"
        /\ Stand(blocks, loc, loops, code)
    BY NowIs
  <1>2. Last(blocks).kind = "range"
    BY DEF CloseRange, Closing
  <1>3. Last(blocks).kind \in Loops /\ Last(blocks).kind # "match"
        /\ Last(blocks).kind \in {"range", "each"}
    BY <1>2, Zenon DEF Loops
  <1>4. Len(loops) > 0
    BY <1>3, NowIs, LoopsFront
  <1>5. /\ loc' = SubSeq(loc, 1, Last(blocks).before)
        /\ \E i \in Line : /\ i.op = "inc" /\ i.x = Last(loops)
                           /\ code' = Append(Append(Append(code, i), CloseLine), CloseLine)
    BY <1>1, <1>4, ShutRangeDoes
  <1>6. PICK i \in Line : /\ i.op = "inc"
                          /\ code' = Append(Append(Append(code, i), CloseLine), CloseLine)
    BY <1>5
  <1>7. Kin(loc, loc')
    BY <1>1, <1>3, <1>5, KinDropped
  <1> DEFINE c1 == Append(code, i)
             c2 == Append(c1, CloseLine)
  <1>8. Quietly(code, c1) /\ c1 \in Seq(Line)
    <2>1. i.op \in QuietOps
      BY <1>6, QuietIs, Zenon
    <2> QED
      BY <1>1, <2>1, QuietIs, QuietlyOne
  <1>9. code' = Append(c2, CloseLine)
    BY <1>6
  <1> HIDE DEF c1
  <1>10. Quietly(c1, c2) /\ c2 \in Seq(Line)
    BY <1>8, CloseQuiet
  <1> HIDE DEF c2
  <1>11. Quietly(c2, code') /\ code' \in Seq(Line)
    BY <1>9, <1>10, CloseQuiet
  <1>12. Quietly(code, c2)
    BY <1>1, <1>8, <1>10, QuietlyThen
  <1>13. Quietly(code, code')
    BY <1>1, <1>10, <1>11, <1>12, QuietlyThen
  <1> QED
    BY <1>7, <1>13 DEF QuietStep

(* The end of a match, or of the function.                                 *)
LEMMA EndQuiet ==
  ASSUME Now, NEW t \in Tokens, CloseMatch(t) \/ CloseFunction(t)
  PROVE  QuietStep
  <1>1. code \in Seq(Line) /\ loc \in Seq(Local) /\ verdict = "parse"
    BY NowIs
  <1>2. Refused \/ (code' = code /\ (loc' = loc \/ loc' = <<>>))
    BY <1>1, ShutMatchDoes, ShutFunctionDoes, Zenon
  <1>3. (code' = code /\ (loc' = loc \/ loc' = <<>>)) => QuietStep
    BY <1>1, KinIs, QuietlyNone DEF QuietStep
  <1> QED
    BY <1>2, <1>3, RefusedQuiet

(***************************************************************************)
(* The statements that use and free.                                       *)
(***************************************************************************)
Pointing(l, c) == Usage(c) /\ Fresh(l, c)

(* A use is let through while nothing that its declaration sees freed it.  *)
LEMMA UsePoints ==
  ASSUME Now, Agree(loc, code), Pointing(loc, code), NEW t \in Tokens, Use(t)
  PROVE  verdict' = "rejected" \/ Pointing(loc', code')
  <1>1. code \in Seq(Line) /\ loc \in Seq(Local) /\ Len(code) \in Nat
    BY NowIs
  <1>2. \/ Reject
        \/ /\ ~(Find(t.x) = {}) /\ ~Freed(t.x)
           /\ Emit(<<Instr("use", t.x)>>) /\ UNCHANGED <<blocks, loc, loops>>
    BY Zenon DEF Use
  <1>3. CASE Reject
    BY <1>3, Zenon DEF Reject
  <1>4. CASE ~Reject
    <2> DEFINE x == t.x
               i == Instr("use", x)
               n == Len(code)
               d == Append(code, i)
    <2>1. /\ Find(x) # {} /\ ~Freed(x) /\ Emit(<<i>>) /\ loc' = loc
      BY <1>2, <1>4, Zenon
    <2>2. PICK k \in 1..Len(loc) : loc[k].name = x
      BY <2>1 DEF Find
    <2>3. x \in Name /\ ~loc[k].freed
      <3>1. loc[k] \in Local
        BY <1>1
      <3>2. ~loc[k].freed
        BY <2>1, <2>2 DEF Freed, Find
      <3> QED
        BY <2>2, <3>1, <3>2 DEF Local
    <2>4. i \in Line /\ i.op = "use" /\ i.x = x /\ code' = d
      <3>1. x \in NameOrNone /\ "use" \in OpNames
        BY <2>3, Zenon DEF NameOrNone, OpNames
      <3> QED
        BY <1>1, <2>1, <3>1, LinesAre DEF Emit
    <2>5. /\ d \in Seq(Line) /\ Len(d) = n + 1 /\ d[n + 1] = i /\ Same(code, d, n)
          /\ \A r \in 1..n : d[r] = code[r]
      BY <1>1, <2>4, SameAppend DEF Same
    <2>6. \A r \in 0..n : Bal(d, r) = Bal(code, r)
      BY <1>1, <2>4, BalAppend
    <2> HIDE DEF i, d
    <2>7. PICK q \in Visible(code) : code[q].x = x
      BY <2>2 DEF Agree
    <2>8. q \in 1..n /\ code[q].op \in Declaring /\ Held(code, q)
      BY <2>7 DEF Visible
    <2>9. x \in Pointers => code[q].op = "bind"
      <3>1. code[q].op \in {"scope", "each"} => x \notin Pointers
        BY <2>7, <2>8 DEF Pointing, Usage, Handled
      <3> QED
        BY <2>8, <3>1, Zenon DEF Declaring
    <2>10. \A r \in q..n : ~IsLine(code[r], "free", x)
      BY <2>2, <2>3, <2>7 DEF Pointing, Fresh
    <2>11. x \in Pointers => Declared(d, n + 1)
      <3> SUFFICES ASSUME x \in Pointers PROVE Declared(d, n + 1)
        OBVIOUS
      <3>1. q \in 1..(n + 1) - 1 /\ d[n + 1].x = x
        BY <1>1, <2>4, <2>5, <2>8
      <3>2. IsLine(d[q], "bind", x)
        BY <2>5, <2>7, <2>8, <2>9 DEF IsLine
      <3>3. ASSUME NEW r \in q..(n + 1) - 1
            PROVE  Bal(d, r) >= Bal(d, q) /\ ~IsLine(d[r], "free", x)
        <4>1. r \in q..n /\ r \in 1..n /\ r \in 0..n /\ q \in 0..n
          BY <1>1, <2>8
        <4>2. Bal(code, r) >= Bal(code, q)
          BY <2>8, <4>1 DEF Held
        <4> QED
          BY <2>5, <2>6, <2>10, <4>1, <4>2
      <3> QED
        BY <3>1, <3>2, <3>3 DEF Declared
    <2>12. Handled(d, n + 1)
      <3>1. d[n + 1].op = "use" /\ d[n + 1].x = x
        BY <2>4, <2>5
      <3> QED
        BY <2>3, <2>11, <3>1, Zenon DEF Handled
    <2>13. Usage(d)
      <3> SUFFICES ASSUME NEW p \in 1..Len(d) PROVE Handled(d, p)
        BY DEF Usage
      <3>1. p \in 1..n \/ p = n + 1
        BY <1>1, <2>5
      <3>2. p \in 1..n => Handled(d, p)
        BY <1>1, <2>5, HandledSame DEF Pointing, Usage
      <3> QED
        BY <2>12, <3>1, <3>2
    <2>14. Fresh(loc, d)
      <3> SUFFICES ASSUME NEW j \in 1..Len(loc), NEW v \in Visible(d), d[v].x = loc[j].name,
                          NEW r \in v..Len(d), IsLine(d[r], "free", loc[j].name)
                   PROVE  loc[j].freed
        BY DEF Fresh
      <3>1. v \in 1..Len(d) /\ d[v].op \in Declaring
        BY DEF Visible
      <3>2. r # n + 1 /\ v # n + 1
        <4>1. d[n + 1].op = "use"
          BY <2>4, <2>5
        <4>2. "use" \notin Declaring /\ "use" # "free"
          BY Zenon DEF Declaring
        <4> QED
          BY <3>1, <4>1, <4>2 DEF IsLine
      <3>3. v \in 1..n /\ r \in v..n /\ r \in 1..n
        BY <1>1, <2>5, <3>1, <3>2
      <3>4. v \in Visible(code) /\ d[v] = code[v]
        BY <1>1, <2>5, <3>3, VisibleBefore
      <3>5. IsLine(code[r], "free", loc[j].name) /\ code[v].x = loc[j].name
        BY <2>5, <3>3, <3>4
      <3> QED
        BY <3>3, <3>4, <3>5 DEF Pointing, Fresh
    <2> QED
      BY <2>1, <2>4, <2>13, <2>14 DEF Pointing
  <1> QED
    BY <1>3, <1>4

(* Del marks its name as freed.                                            *)
LEMMA DelPoints ==
  ASSUME Now, Agree(loc, code), Pointing(loc, code), NEW t \in Tokens, Del(t)
  PROVE  verdict' = "rejected" \/ Pointing(loc', code')
  <1>1. code \in Seq(Line) /\ loc \in Seq(Local) /\ Len(code) \in Nat
    BY NowIs
  <1>2. \/ Reject
        \/ /\ t.x \in Pointers /\ Emit(<<Instr("free", t.x)>>)
           /\ loc' = [k \in 1..Len(loc) |-> [loc[k] EXCEPT !.freed = @ \/ loc[k].name = t.x]]
    BY Zenon DEF Del
  <1>3. CASE Reject
    BY <1>3, Zenon DEF Reject
  <1>4. CASE ~Reject
    <2> DEFINE x == t.x
               i == Instr("free", x)
               n == Len(code)
               d == Append(code, i)
    <2>1. /\ x \in Pointers /\ Emit(<<i>>)
          /\ loc' = [k \in 1..Len(loc) |-> [loc[k] EXCEPT !.freed = @ \/ loc[k].name = x]]
      BY <1>2, <1>4
    <2>2. i \in Line /\ i.op = "free" /\ i.x = x /\ code' = d
      <3>1. x \in NameOrNone /\ "free" \in OpNames
        BY TokenNames, Zenon DEF OpNames
      <3> QED
        BY <1>1, <2>1, <3>1, LinesAre DEF Emit
    <2>3. /\ d \in Seq(Line) /\ Len(d) = n + 1 /\ d[n + 1] = i /\ Same(code, d, n)
          /\ \A r \in 1..n : d[r] = code[r]
      BY <1>1, <2>2, SameAppend DEF Same
    <2>4. /\ Len(loc') = Len(loc)
          /\ \A k \in 1..Len(loc) : /\ loc'[k].name = loc[k].name
                                    /\ loc'[k].freed = (loc[k].freed \/ loc[k].name = x)
      <3>1. \A k \in 1..Len(loc) : loc[k] \in Local
        BY <1>1
      <3>2. Len(loc) \in Nat /\ DOMAIN loc' = 1..Len(loc)
        BY <1>1, <2>1
      <3>3. loc' \in Seq(Local)
        <4>1. Typed /\ verdict = "parse"
          BY NowIs
        <4>2. \/ Refused
              \/ Renamed(loc, loc')
          BY <4>1, FlatDoes
        <4>3. Refused => Reject
          BY Zenon DEF Refused, Reject
        <4> QED
          BY <1>4, <4>2, <4>3 DEF Renamed
      <3>4. Len(loc') = Len(loc)
        <4>1. Len(loc') \in Nat /\ DOMAIN loc' = 1..Len(loc')
          BY <3>3
        <4> QED
          BY <3>2, <4>1
      <3>5. ASSUME NEW k \in 1..Len(loc)
            PROVE  /\ loc'[k].name = loc[k].name
                   /\ loc'[k].freed = (loc[k].freed \/ loc[k].name = x)
        <4>1. loc'[k] = [loc[k] EXCEPT !.freed = @ \/ loc[k].name = x]
          BY <2>1
        <4>2. loc[k] \in Local
          BY <3>1
        <4> QED
          BY <4>1, <4>2, Zenon DEF Local
      <3> QED
        BY <3>4, <3>5
    <2> HIDE DEF i, d
    <2>5. Handled(d, n + 1)
      <3>1. d[n + 1].op = "free" /\ d[n + 1].x = x
        BY <2>2, <2>3
      <3> QED
        BY <2>1, <3>1, Zenon DEF Handled
    <2>6. Usage(d)
      <3> SUFFICES ASSUME NEW p \in 1..Len(d) PROVE Handled(d, p)
        BY DEF Usage
      <3>1. p \in 1..n \/ p = n + 1
        BY <1>1, <2>3
      <3>2. p \in 1..n => Handled(d, p)
        BY <1>1, <2>3, HandledSame DEF Pointing, Usage
      <3> QED
        BY <2>5, <3>1, <3>2
    <2>7. Fresh(loc', d)
      <3> SUFFICES ASSUME NEW j \in 1..Len(loc'), NEW v \in Visible(d), d[v].x = loc'[j].name,
                          NEW r \in v..Len(d), IsLine(d[r], "free", loc'[j].name)
                   PROVE  loc'[j].freed
        BY DEF Fresh
      <3>1. v \in 1..Len(d) /\ d[v].op \in Declaring /\ j \in 1..Len(loc)
        BY <2>4 DEF Visible
      <3>2. CASE loc[j].name = x
        BY <2>4, <3>1, <3>2
      <3>3. CASE loc[j].name # x
        <4>1. r # n + 1
          BY <2>2, <2>3, <2>4, <3>1, <3>3 DEF IsLine
        <4>2. v # n + 1
          <5>1. "free" \notin Declaring
            BY Zenon DEF Declaring
          <5> QED
            BY <2>2, <2>3, <3>1, <5>1
        <4>3. v \in 1..n /\ r \in v..n /\ r \in 1..n
          BY <1>1, <2>3, <3>1, <4>1, <4>2
        <4>4. v \in Visible(code) /\ d[v] = code[v]
          BY <1>1, <2>3, <4>3, VisibleBefore
        <4>5. IsLine(code[r], "free", loc[j].name) /\ code[v].x = loc[j].name
          BY <2>3, <2>4, <3>1, <4>3, <4>4
        <4>6. loc[j].freed
          BY <3>1, <4>3, <4>4, <4>5 DEF Pointing, Fresh
        <4> QED
          BY <2>4, <3>1, <4>6
      <3> QED
        BY <3>2, <3>3
    <2> QED
      BY <2>2, <2>6, <2>7 DEF Pointing
  <1> QED
    BY <1>3, <1>4

(* Every step of the reader.                                               *)
LEMMA StepPoints ==
  ASSUME Now, Agree(loc, code), Pointing(loc, code), Parse, code' \in Seq(Line)
  PROVE  verdict' = "rejected" \/ Pointing(loc', code')
  <1>1. PICK t \in Tokens :
           \/ Bind(t) \/ Use(t) \/ Set(t) \/ Del(t)
           \/ Break(t) \/ Continue(t) \/ Ret(t)
           \/ OpenIf(t) \/ NextBranch(t) \/ OpenWhile(t) \/ OpenLoop(t)
           \/ OpenRange(t) \/ OpenEach(t)
           \/ OpenMatch(t) \/ OpenCase(t) \/ OpenCaseElse(t)
           \/ CloseIf(t) \/ CloseLoop(t) \/ CloseRange(t)
           \/ CloseCase(t) \/ CloseCaseElse(t) \/ CloseMatch(t) \/ CloseFunction(t)
    BY DEF Parse
  <1>2. CASE Use(t)
    BY <1>2, UsePoints
  <1>3. CASE Del(t)
    BY <1>3, DelPoints
  <1>4. CASE ~(Use(t) \/ Del(t))
    <2>1. code \in Seq(Line)
      BY NowIs
    <2>2. QuietStep
      BY <1>1, <1>4, FlatQuiet, LinesQuiet, ForQuiet, BranchQuiet, ShutQuiet, ShutRangeQuiet,
         EndQuiet
    <2>3. ASSUME Quietly(code, code'), Kin(loc, loc') PROVE Pointing(loc', code')
      <3>1. Usage(code')
        BY <2>1, <2>3, UsageQuietly DEF Pointing
      <3>2. Fresh(loc', code')
        BY <2>1, <2>3, FreshTurn DEF Pointing
      <3> QED
        BY <3>1, <3>2 DEF Pointing
    <2> QED
      BY <2>2, <2>3 DEF QuietStep
  <1> QED
    BY <1>2, <1>3, <1>4

(* What the table of names and the emitted text know of pointers.          *)
Pointed ==
  /\ verdict = "parse" => Scoped(blocks, loc, code) /\ Pointing(loc, code)
  /\ verdict = "accepted" => Usage(code)

(* It holds before the first token is read.                                *)
LEMMA PointedFirst ==
  ASSUME Init
  PROVE  Pointed
  <1>1. code = <<>> /\ loc = <<>> /\ verdict = "parse"
    BY Zenon DEF Init
  <1>2. Scoped(blocks, loc, code)
    BY <1>1, FirstBlock
  <1>3. 1..Len(code) = {} /\ 1..Len(loc) = {}
    BY <1>1
  <1>4. Pointing(loc, code)
    BY <1>3 DEF Pointing, Usage, Fresh
  <1>5. verdict # "accepted"
    BY <1>1, Zenon
  <1> QED
    BY <1>2, <1>4, <1>5, Zenon DEF Pointed

(* Every step of the reader keeps it.                                      *)
LEMMA PointedKept ==
  ASSUME Reading, Pointed, Shallow, [Parse]_vars
  PROVE  Pointed'
  <1>1. Reading' /\ (verdict' = "parse" => Scoped(blocks', loc', code'))
    BY ReadingKept DEF Pointed
  <1>2. CASE UNCHANGED vars
    <2>1. /\ blocks' = blocks /\ loc' = loc /\ code' = code /\ verdict' = verdict
      BY <1>2, Zenon DEF vars
    <2> QED
      BY <1>1, <2>1 DEF Pointed
  <1>3. CASE Parse
    <2>1. verdict = "parse"
      BY <1>3, StepReads
    <2>2. Now /\ Agree(loc, code) /\ Pointing(loc, code)
      BY <2>1 DEF Reading, Now, Pointed, Scoped
    <2>3. code' \in Seq(Line)
      BY <1>1 DEF Reading, Typed
    <2>4. verdict' = "rejected" \/ Pointing(loc', code')
      BY <1>3, <2>2, <2>3, StepPoints
    <2>5. CASE verdict' = "rejected"
      <3>1. verdict' # "parse" /\ verdict' # "accepted"
        BY <2>5, Zenon
      <3> QED
        BY <3>1, Zenon DEF Pointed
    <2>6. CASE Pointing(loc', code')
      BY <1>1, <2>6 DEF Pointed, Pointing
    <2> QED
      BY <2>4, <2>5, <2>6
  <1> QED
    BY <1>2, <1>3

----------------------------------------------------------------------------
(***************************************************************************)
(* What the pointers of a running body point to.                           *)
(***************************************************************************)

(* A free of x stands in a loop.                                           *)
LoopFree(x) == \E q \in 1..Len(code) : code[q] = Instr("free", x) /\ Within(q, Loops)

(* Control at line p is past the block of line d, or at its end.           *)
Gone(d, p) ==
  \/ \E r \in d..p - 1 : Bal(code, r) < Bal(code, d)
  \/ p <= Len(code) /\ code[p].op = "close" /\ Bal(code, p) < Bal(code, d)

(* A line before p frees x, and no declaration of x between them is seen.  *)
Since(x, p) ==
  \E f \in 1..p - 1 : /\ IsLine(code[f], "free", x)
                      /\ \A d \in f + 1..p - 1 : IsLine(code[d], "bind", x) => Gone(d, p)

(* Control goes on to a later line.                                        *)
LEMMA SinceOn ==
  ASSUME Finished, NEW x, NEW p \in 1..Len(code) + 1, NEW e \in p..Len(code) + 1, Since(x, p),
         \A d \in p..e - 1 : IsLine(code[d], "bind", x) => Gone(d, e)
  PROVE  Since(x, e)
  <1>1. CASE e = p
    BY <1>1
  <1>2. CASE e # p
    <2>1. Len(code) \in Nat /\ p \in Nat /\ e \in Nat /\ p < e /\ p - 1 \in Int
      BY <1>2, FinishedIs
    <2>2. PICK f \in 1..p - 1 : /\ IsLine(code[f], "free", x)
                               /\ \A d \in f + 1..p - 1 : IsLine(code[d], "bind", x) => Gone(d, p)
      BY DEF Since
    <2>3. f \in 1..e - 1 /\ \A d \in f + 1..e - 1 : d \in f + 1..p - 1 \/ d \in p..e - 1
      BY <2>1
    <2>4. ASSUME NEW d \in f + 1..p - 1, Gone(d, p) PROVE Gone(d, e)
      <3>1. \A r \in d..p - 1 : r \in d..e - 1
        BY <2>1
      <3>2. p \in d..e - 1
        BY <2>1
      <3> QED
        BY <2>4, <3>1, <3>2 DEF Gone
    <2> QED
      BY <2>2, <2>3, <2>4 DEF Since
  <1> QED
    BY <1>1, <1>2

(* Control passes over what is left of a block.                            *)
LEMMA SinceOut ==
  ASSUME Finished, NEW x, NEW q, NEW m, Pair(code, q, m), NEW p \in q..m, Since(x, p),
         code[p].op # "bind"
  PROVE  Since(x, m) /\ Since(x, m + 1)
  <1>1. /\ q \in 1..Len(code) /\ m \in 1..Len(code) /\ q < m /\ Len(code) \in Nat
        /\ Bal(code, q - 1) \in Int /\ Bal(code, q) = Bal(code, q - 1) + 1
        /\ Bal(code, m) = Bal(code, q - 1)
        /\ \A r \in q..m - 1 : Bal(code, r) \in Int /\ Bal(code, r) >= Bal(code, q)
    BY PairSpan
  <1>2. code[m].op = "close"
    BY DEF Pair
  <1>3. p \in 1..Len(code) + 1 /\ m \in p..Len(code) + 1 /\ m + 1 \in p..Len(code) + 1
        /\ (m + 1) - 1 = m /\ m \in Nat /\ p \in Nat
    BY <1>1
  <1>4. ASSUME NEW d \in p..m, IsLine(code[d], "bind", x)
        PROVE  Bal(code, m) < Bal(code, d) /\ m \in d..m
    <2>1. d # m
      BY <1>2, <1>4, Zenon DEF IsLine
    <2>2. d \in q..m - 1 /\ m \in d..m
      BY <1>1, <1>3, <2>1
    <2> QED
      BY <1>1, <2>2
  <1>5. \A d \in p..m - 1 : IsLine(code[d], "bind", x) => Gone(d, m)
    <2>1. \A d \in p..m - 1 : d \in p..m
      BY <1>3
    <2>2. m <= Len(code)
      BY <1>1
    <2> QED
      BY <1>2, <1>4, <2>1, <2>2 DEF Gone
  <1>6. \A d \in p..(m + 1) - 1 : IsLine(code[d], "bind", x) => Gone(d, m + 1)
    BY <1>3, <1>4 DEF Gone
  <1> QED
    BY <1>3, <1>5, <1>6, SinceOn

(* Control turns back to the head of a loop: what was freed in the loop    *)
(* was freed in a loop, what was freed before it is still freed.           *)
LEMMA SinceBack ==
  ASSUME Finished, NEW x, NEW q, NEW p, Pair(code, q, p), code[q].op \in Loops, Since(x, p)
  PROVE  LoopFree(x) \/ (Since(x, q) /\ Since(x, q + 1))
  <1>1. /\ q \in 1..Len(code) /\ p \in 1..Len(code) /\ q < p /\ Len(code) \in Nat
        /\ Bal(code, q - 1) \in Int /\ Bal(code, q) = Bal(code, q - 1) + 1
        /\ Bal(code, p) = Bal(code, q - 1)
        /\ \A r \in q..p - 1 : Bal(code, r) \in Int /\ Bal(code, r) >= Bal(code, q)
        /\ \A r \in q - 1..p : Bal(code, r) \in Int /\ Bal(code, r) >= Bal(code, q - 1)
    BY PairSpan
  <1>2. PICK f \in 1..p - 1 : /\ IsLine(code[f], "free", x)
                              /\ \A d \in f + 1..p - 1 : IsLine(code[d], "bind", x) => Gone(d, p)
    BY DEF Since
  <1>3. f \in 1..Len(code) /\ f \in Nat /\ q \in Nat /\ p \in Nat
    BY <1>1
  <1>4. f # q
    <2>1. "free" \notin Loops
      BY Zenon DEF Loops
    <2> QED
      BY <1>2, <2>1 DEF IsLine
  <1>5. CASE f > q
    <2>1. code[f] = Instr("free", x)
      <3>1. code[f] \in Line
        BY <1>3 DEF Finished
      <3> QED
        BY <1>2, <3>1 DEF IsLine, Line, Instr
    <2> DEFINE m == Matching(q)
    <2>2. m \in 1..Len(code) /\ Pair(code, q, m)
      <3>1. code[q].op \in Openings
        BY DEF Openings
      <3> QED
        BY <1>1, <3>1, MatchingPairs DEF Finished
    <2> HIDE DEF m
    <2>3. ~(m < p)
      <3> SUFFICES ASSUME m < p PROVE FALSE
        OBVIOUS
      <3>1. q < m /\ Bal(code, m) = Bal(code, q) - 1
        BY <2>2 DEF Pair
      <3>2. m \in q..p - 1
        BY <1>1, <2>2, <3>1
      <3> QED
        BY <1>1, <3>1, <3>2
    <2>4. m > f /\ q \in 1..f - 1
      BY <1>1, <1>3, <1>5, <2>2, <2>3
    <2>5. Within(f, Loops)
      BY <2>4 DEF Within, m
    <2> QED
      BY <1>3, <2>1, <2>5 DEF LoopFree
  <1>6. CASE f < q
    <2>1. ASSUME NEW d \in f + 1..q - 1, IsLine(code[d], "bind", x) PROVE Gone(d, q)
      <3>1. d \in f + 1..p - 1 /\ q - 1 \in d..q - 1 /\ d \in Nat /\ d \in 1..Len(code)
        BY <1>1, <1>3
      <3>2. Gone(d, p)
        BY <1>2, <2>1, <3>1
      <3>3. Bal(code, d) \in Int
        <4>1. d \in 0..Len(code)
          BY <1>1, <3>1
        <4> QED
          BY <4>1, FinishedIs
      <3>4. ASSUME NEW r \in d..p - 1, Bal(code, r) < Bal(code, d)
            PROVE  \E s \in d..q - 1 : Bal(code, s) < Bal(code, d)
        <4>1. CASE r <= q - 1
          BY <1>1, <3>1, <3>4, <4>1
        <4>2. CASE ~(r <= q - 1)
          <5>1. r \in q..p - 1
            BY <1>1, <3>1, <4>2
          <5>2. Bal(code, q - 1) < Bal(code, d)
            BY <1>1, <3>3, <3>4, <5>1
          <5> QED
            BY <3>1, <5>2
        <4> QED
          BY <4>1, <4>2
      <3>5. ASSUME Bal(code, p) < Bal(code, d)
            PROVE  \E s \in d..q - 1 : Bal(code, s) < Bal(code, d)
        BY <1>1, <3>1, <3>5
      <3> QED
        BY <3>2, <3>4, <3>5 DEF Gone
    <2>2. Since(x, q)
      <3>1. f \in 1..q - 1
        BY <1>1, <1>3, <1>6
      <3> QED
        BY <1>2, <2>1, <3>1 DEF Since
    <2>3. Since(x, q + 1)
      <3>1. q + 1 \in q..Len(code) + 1 /\ q \in 1..Len(code) + 1
            /\ \A d \in q..(q + 1) - 1 : d = q
        BY <1>1
      <3>2. ~IsLine(code[q], "bind", x)
        <4>1. "bind" \notin Loops
          BY Zenon DEF Loops
        <4> QED
          BY <4>1 DEF IsLine
      <3> QED
        BY <2>2, <3>1, <3>2, SinceOn
    <2> QED
      BY <2>2, <2>3
  <1> QED
    BY <1>3, <1>4, <1>5, <1>6

(* Control goes on behind the elses of a taken branch.                     *)
LEMMA SincePassed ==
  ASSUME Finished, NEW x, NEW p \in 1..Len(code), code[p].op = "close", NEW e,
         Passed(p + 1, e), Since(x, p)
  PROVE  Since(x, e)
  <1>1. p + 1 \in Nat /\ (p + 1) - 1 = p /\ Len(code) \in Nat /\ p \in Nat
    BY FinishedIs
  <1>2. /\ e \in p + 1..Len(code) + 1 /\ Bal(code, e - 1) = Bal(code, p)
        /\ \A d \in p + 1..e - 1 : code[d].op = "close" \/ Bal(code, d) > Bal(code, p)
    BY <1>1 DEF Passed
  <1>3. /\ p \in 1..Len(code) + 1 /\ e \in p..Len(code) + 1 /\ e \in Nat
        /\ \A d \in p..e - 1 : d = p \/ d \in p + 1..e - 1
        /\ \A d \in p..e - 1 : e - 1 \in d..e - 1 /\ d \in 0..Len(code)
    BY <1>1, <1>2
  <1>4. Bal(code, p) \in Int
    <2>1. p \in 0..Len(code)
      BY <1>1
    <2> QED
      BY <2>1, FinishedIs
  <1>5. ASSUME NEW d \in p..e - 1, IsLine(code[d], "bind", x) PROVE Gone(d, e)
    <2>1. code[d].op # "close"
      BY <1>5, Zenon DEF IsLine
    <2>2. d \in p + 1..e - 1
      BY <1>3, <2>1
    <2>3. Bal(code, d) > Bal(code, p) /\ Bal(code, d) \in Int
      BY <1>2, <1>3, <2>1, <2>2, FinishedIs
    <2>4. Bal(code, e - 1) < Bal(code, d)
      BY <1>2, <1>4, <2>3
    <2> QED
      BY <1>3, <2>4 DEF Gone
  <1> QED
    BY <1>3, <1>5, SinceOn

HeapStates == {"none", "live", "freed"}

(* Whatever is freed when control is at line p.                            *)
Stale(p) ==
  \A x \in Name : heap[x] = "freed" => x \in Pointers /\ (LoopFree(x) \/ Since(x, p))

Memory ==
  /\ heap \in [Name -> HeapStates]
  /\ state = "off" => \A x \in Name : heap[x] = "none"
  /\ state = "running" => Stale(pc)
  /\ UseAfterDelNeedsLoop

(* Line e is as good a place as the present one.                           *)
Inherits(e) == \A x : Since(x, pc) => LoopFree(x) \/ Since(x, e)

(* A step of neither the reader nor the program changes no judgement.      *)
LEMMA NamesStay ==
  ASSUME vars' = vars
  PROVE  /\ \A x : LoopFree(x)' <=> LoopFree(x)
         /\ \A x : Since(x, pc)' <=> Since(x, pc')
         /\ code' = code
  <1>1. code' = code
    BY Zenon DEF vars
  <1> QED
    BY <1>1 DEF LoopFree, Within, Matching, Count, Since, Gone, IsLine

(* A step that leaves the heap alone.                                      *)
LEMMA MemoryMoves ==
  ASSUME Memory, state = "running", vars' = vars, heap' = heap, state' = state, Inherits(pc')
  PROVE  Memory'
  <1>1. state' # "off" /\ state' # "useAfterFree"
    BY Zenon
  <1>2. /\ \A x : LoopFree(x)' <=> LoopFree(x)
        /\ \A x : Since(x, pc)' <=> Since(x, pc')
    BY NamesStay
  <1>3. Stale(pc) /\ heap \in [Name -> HeapStates]
    BY DEF Memory
  <1>4. \A x \in Name : heap[x] = "freed" => x \in Pointers /\ (LoopFree(x) \/ Since(x, pc'))
    BY <1>3 DEF Stale, Inherits
  <1>5. Stale(pc)'
    BY <1>2, <1>4 DEF Stale
  <1>6. UseAfterDelNeedsLoop'
    BY <1>1 DEF UseAfterDelNeedsLoop
  <1> QED
    BY <1>1, <1>3, <1>5, <1>6, Zenon DEF Memory

(* A step that ends the run.                                               *)
LEMMA MemoryStops ==
  ASSUME Memory, vars' = vars, heap' = heap,
         state' \in {"returned", "fellOff", "doubleFree", "notCompiled"}
  PROVE  Memory'
  <1>1. state' # "off" /\ state' # "useAfterFree" /\ state' # "running"
    BY Zenon
  <1>2. UseAfterDelNeedsLoop'
    BY <1>1 DEF UseAfterDelNeedsLoop
  <1> QED
    BY <1>1, <1>2, Zenon DEF Memory

(* On to the next line.                                                    *)
LEMMA InheritsNext ==
  ASSUME Finished, pc \in 1..Len(code), code[pc].op # "bind"
  PROVE  Inherits(pc + 1)
  <1>1. /\ pc \in 1..Len(code) + 1 /\ pc + 1 \in pc..Len(code) + 1
        /\ \A d \in pc..(pc + 1) - 1 : d = pc
    BY FinishedIs
  <1>2. \A d \in pc..(pc + 1) - 1 : \A x : ~IsLine(code[d], "bind", x)
    BY <1>1 DEF IsLine
  <1> QED
    BY <1>1, <1>2, SinceOn DEF Inherits

(* What is known at a line that is run.                                    *)
LEMMA RunsIs ==
  ASSUME Course, state = "running", pc <= Len(code)
  PROVE  Finished /\ pc \in 1..Len(code) /\ Compiles /\ Nest(pc, active)
  <1>1. Finished /\ pc \in 1..Len(code) /\ Compiles /\ Led(pc, active)
    BY RunningIs
  <1> QED
    BY <1>1 DEF Led, Placed

(* Lines that control passes through, and blocks that are entered.         *)
LEMMA LineRemembers ==
  ASSUME Course, Memory, Compute \/ Assign \/ EnterScope
  PROVE  Memory'
  <1>1. /\ state = "running" /\ pc <= Len(code) /\ vars' = vars /\ heap' = heap
        /\ state' = state /\ pc' = pc + 1
        /\ code[pc].op \in {"temp", "hoist", "set", "inc", "scope"}
    <2>1. \/ At({"temp", "hoist"}) \/ At({"set", "inc"}) \/ At({"scope"})
      BY Zenon DEF Compute, Assign, EnterScope
    <2>2. /\ state = "running" /\ pc <= Len(code)
          /\ code[pc].op \in {"temp", "hoist", "set", "inc", "scope"}
      BY <2>1, Zenon DEF At, Op
    <2>3. Go(pc + 1) /\ heap' = heap
      BY Zenon DEF Compute, Assign, EnterScope
    <2> QED
      BY <2>2, <2>3, Zenon DEF Go
  <1>2. code[pc].op # "bind"
    BY <1>1, Zenon
  <1>3. Inherits(pc')
    BY <1>1, <1>2, RunsIs, InheritsNext
  <1> QED
    BY <1>1, <1>3, MemoryMoves

(* The head of a block: entered or passed over.                            *)
LEMMA HeadRemembers ==
  ASSUME Course, Memory, Branch \/ EnterLoop
  PROVE  Memory'
  <1>1. /\ state = "running" /\ pc <= Len(code) /\ vars' = vars /\ heap' = heap
        /\ state' = state /\ (pc' = pc + 1 \/ pc' = Matching(pc) + 1)
        /\ code[pc].op \in Openings
    <2>1. At({"if", "elseif", "else"}) \/ At(Loops)
      BY Zenon DEF Branch, EnterLoop
    <2>2. state = "running" /\ pc <= Len(code) /\ code[pc].op \in Openings
      BY <2>1, Zenon DEF At, Op, Openings
    <2>3. (Go(pc + 1) \/ Go(Matching(pc) + 1)) /\ heap' = heap
      BY Zenon DEF Branch, EnterLoop
    <2> QED
      BY <2>2, <2>3, Zenon DEF Go
  <1>2. code[pc].op # "bind"
    BY <1>1, Zenon DEF Openings, Loops
  <1>3. Finished /\ pc \in 1..Len(code)
    BY <1>1, RunsIs
  <1>4. Inherits(pc + 1)
    BY <1>2, <1>3, InheritsNext
  <1>5. Inherits(Matching(pc) + 1)
    <2>1. Pair(code, pc, Matching(pc))
      BY <1>1, <1>3, MatchingPairs DEF Finished
    <2> DEFINE m == Matching(pc)
    <2> HIDE DEF m
    <2>2. pc \in pc..m
      BY <2>1, PairSpan, <1>3 DEF m
    <2>3. \A x : Since(x, pc) => Since(x, m + 1)
      BY <1>2, <1>3, <2>1, <2>2, SinceOut DEF m
    <2> QED
      BY <2>3 DEF Inherits, m
  <1> QED
    BY <1>1, <1>4, <1>5, MemoryMoves

(* The end of a block.                                                     *)
LEMMA EndRemembers ==
  ASSUME Course, Memory, EndOfBlock
  PROVE  Memory'
  <1> DEFINE q == TopFrame.at
             o == code[q].op
  <1>1. /\ state = "running" /\ pc <= Len(code) /\ code[pc].op = "close"
        /\ vars' = vars /\ state' = state
        /\ o \in Branches => pc' = PastElse(pc + 1)
        /\ o = "while" => pc' = q
        /\ o \in Counted => pc' = q + 1 \/ pc' = pc + 1
        /\ o = "scope" => pc' = pc + 1
    BY EndDoes
  <1>2. heap' = heap
    BY DEF EndOfBlock
  <1>3. Finished /\ pc \in 1..Len(code) /\ Nest(pc, active)
    BY <1>1, RunsIs
  <1>4. Pair(code, q, pc)
    BY <1>1, <1>3, NestClose DEF TopFrame, Last
  <1> HIDE DEF q
  <1>5. o \in Openings
    BY <1>4 DEF Pair
  <1>6. o \in Branches \/ o = "while" \/ o \in Counted \/ o = "scope"
    BY <1>5, Zenon DEF Openings, Loops, Branches, Counted
  <1>7. code[pc].op # "bind"
    BY <1>1, Zenon
  <1>8. Inherits(pc + 1)
    BY <1>3, <1>7, InheritsNext
  <1>9. o \in Branches => Inherits(PastElse(pc + 1))
    <2> SUFFICES ASSUME o \in Branches PROVE Inherits(PastElse(pc + 1))
      OBVIOUS
    <2>1. PICK L, P : Paths(code, L, P) /\ Placed(pc, active, L)
      BY <1>1, RunningIs DEF Led
    <2>2. pc + 1 \in P
      <3>1. q \in 1..Len(code)
        BY <1>4 DEF Pair
      <3>2. Joins(o, q, pc, L, P) /\ pc \in L
        BY <1>3, <1>4, <2>1, <3>1 DEF Paths, Placed
      <3> QED
        BY <3>2 DEF Joins
    <2>3. Passed(pc + 1, PastElse(pc + 1))
      BY <1>3, <2>1, <2>2, PastElseFinds
    <2> QED
      BY <1>1, <1>3, <2>3, SincePassed DEF Inherits
  <1>10. o \in Loops => Inherits(q) /\ Inherits(q + 1)
    BY <1>3, <1>4, SinceBack DEF Inherits
  <1>11. (o = "while" => o \in Loops) /\ (o \in Counted => o \in Loops)
    BY Zenon DEF Loops, Counted
  <1>12. Inherits(pc')
    BY <1>1, <1>6, <1>8, <1>9, <1>10, <1>11, Zenon
  <1> QED
    BY <1>1, <1>2, <1>12, MemoryMoves

(* A `break` or `continue`.                                                *)
LEMMA JumpRemembers ==
  ASSUME Course, Memory, BreakLoop \/ ContinueLoop
  PROVE  Memory'
  <1> DEFINE q == active[Innermost].at
             m == Matching(q)
  <1>1. /\ state = "running" /\ pc <= Len(code) /\ code[pc].op \in {"break", "continue"}
        /\ vars' = vars /\ state' = state /\ heap' = heap
        /\ (pc' = m + 1 \/ pc' = m)
    <2>1. At({"break"}) \/ At({"continue"})
      BY Zenon DEF BreakLoop, ContinueLoop
    <2>2. state = "running" /\ pc <= Len(code) /\ code[pc].op \in {"break", "continue"}
      BY <2>1, Zenon DEF At, Op
    <2>3. (Go(m + 1) \/ Go(m)) /\ heap' = heap
      BY Zenon DEF BreakLoop, ContinueLoop
    <2> QED
      BY <2>2, <2>3, Zenon DEF Go
  <1>2. Finished /\ pc \in 1..Len(code) /\ Nest(pc, active) /\ Compiles
    BY <1>1, RunsIs
  <1>3. Innermost \in 1..Len(active)
    BY <1>1, <1>2, InnermostIs
  <1>4. q \in 1..Len(code) /\ q < pc /\ Pair(code, q, m) /\ m \in 1..Len(code) /\ pc <= m
    BY <1>2, <1>3, NestPair
  <1> HIDE DEF q, m
  <1>5. pc \in q..m
    BY <1>2, <1>4
  <1>6. code[pc].op # "bind"
    BY <1>1, Zenon
  <1>7. Inherits(m + 1) /\ Inherits(m)
    BY <1>2, <1>4, <1>5, <1>6, SinceOut DEF Inherits
  <1> QED
    BY <1>1, <1>7, MemoryMoves

(* The end of the run.                                                     *)
LEMMA StopRemembers ==
  ASSUME Memory, Return \/ EndOfBody
  PROVE  Memory'
  <1>1. vars' = vars /\ heap' = heap /\ state' \in {"returned", "fellOff"}
    BY Zenon DEF Return, EndOfBody, Stop
  <1>2. state' \in {"returned", "fellOff", "doubleFree", "notCompiled"}
    BY <1>1, Zenon
  <1> QED
    BY <1>1, <1>2, MemoryStops

(* A declaration.                                                          *)
LEMMA DeclareRemembers ==
  ASSUME Course, Memory, Declare
  PROVE  Memory'
  <1>1. /\ state = "running" /\ pc <= Len(code) /\ code[pc].op = "bind"
        /\ pc' = pc + 1 /\ vars' = vars /\ state' = state
    BY Zenon DEF Declare, At, Op, Go
  <1> DEFINE y == code[pc].x
  <1>2. \/ y \in Pointers /\ heap' = [heap EXCEPT ![y] = "live"]
        \/ y \notin Pointers /\ heap' = heap
    BY Zenon DEF Declare
  <1>3. Finished /\ pc \in 1..Len(code)
    BY <1>1, RunsIs
  <1>4. heap \in [Name -> HeapStates] /\ Stale(pc)
    BY <1>1 DEF Memory
  <1>5. heap' \in [Name -> HeapStates]
    <2>1. "live" \in HeapStates
      BY DEF HeapStates
    <2> QED
      BY <1>2, <1>4, <2>1
  <1>6. ASSUME NEW x \in Name, heap'[x] = "freed"
        PROVE  x # y /\ heap[x] = "freed"
    <2>1. CASE y \in Pointers /\ heap' = [heap EXCEPT ![y] = "live"]
      <3>1. "live" # "freed"
        BY Zenon
      <3>2. x # y
        BY <1>4, <1>6, <2>1, <3>1
      <3> QED
        BY <1>4, <1>6, <2>1, <3>2
    <2>2. CASE y \notin Pointers /\ heap' = heap
      BY <1>4, <1>6, <2>2 DEF Stale
    <2> QED
      BY <1>2, <2>1, <2>2
  <1>7. ASSUME NEW x, x # y, Since(x, pc) PROVE Since(x, pc')
    <2>1. /\ pc \in 1..Len(code) + 1 /\ pc + 1 \in pc..Len(code) + 1
          /\ \A d \in pc..(pc + 1) - 1 : d = pc
      BY <1>3, FinishedIs
    <2>2. \A d \in pc..(pc + 1) - 1 : ~IsLine(code[d], "bind", x)
      BY <1>7, <2>1 DEF IsLine
    <2> QED
      BY <1>1, <1>3, <1>7, <2>1, <2>2, SinceOn
  <1>8. \A x \in Name : heap'[x] = "freed" => x \in Pointers /\ (LoopFree(x) \/ Since(x, pc'))
    BY <1>4, <1>6, <1>7 DEF Stale
  <1>9. Stale(pc)'
    BY <1>1, <1>8, NamesStay DEF Stale
  <1>10. state' # "off" /\ state' # "useAfterFree"
    BY <1>1, Zenon
  <1>11. UseAfterDelNeedsLoop'
    BY <1>10 DEF UseAfterDelNeedsLoop
  <1> QED
    BY <1>5, <1>9, <1>10, <1>11, Zenon DEF Memory

(* A free.                                                                 *)
LEMMA FreeRemembers ==
  ASSUME Course, Memory, Usage(code), Free
  PROVE  Memory'
  <1> DEFINE y == code[pc].x
  <1>1. /\ state = "running" /\ pc <= Len(code) /\ code[pc].op = "free" /\ vars' = vars
        /\ \/ heap' = heap /\ state' = "doubleFree"
           \/ heap' = [heap EXCEPT ![y] = "freed"] /\ pc' = pc + 1 /\ state' = state
    BY Zenon DEF Free, At, Op, Go, Stop
  <1>2. CASE heap' = heap /\ state' = "doubleFree"
    <2>1. state' \in {"returned", "fellOff", "doubleFree", "notCompiled"}
      BY <1>2, Zenon
    <2> QED
      BY <1>1, <1>2, <2>1, MemoryStops
  <1>3. CASE heap' = [heap EXCEPT ![y] = "freed"] /\ pc' = pc + 1 /\ state' = state
    <2>1. Finished /\ pc \in 1..Len(code)
      BY <1>1, RunsIs
    <2>2. y \in Pointers
      BY <1>1, <2>1 DEF Usage, Handled
    <2>3. heap \in [Name -> HeapStates] /\ Stale(pc)
      BY <1>1 DEF Memory
    <2>4. heap' \in [Name -> HeapStates]
      <3>1. "freed" \in HeapStates
        BY DEF HeapStates
      <3> QED
        BY <1>3, <2>3, <3>1
    <2>5. code[pc].op # "bind"
      BY <1>1, Zenon
    <2>6. Inherits(pc + 1)
      BY <2>1, <2>5, InheritsNext
    <2>7. Since(y, pc + 1)
      <3>1. pc \in 1..(pc + 1) - 1 /\ pc + 1..(pc + 1) - 1 = {}
        BY <2>1, FinishedIs
      <3>2. IsLine(code[pc], "free", y)
        BY <1>1 DEF IsLine
      <3> QED
        BY <3>1, <3>2 DEF Since
    <2>8. \A x \in Name : heap'[x] = "freed" => x \in Pointers /\ (LoopFree(x) \/ Since(x, pc'))
      <3> SUFFICES ASSUME NEW x \in Name, heap'[x] = "freed"
                   PROVE  x \in Pointers /\ (LoopFree(x) \/ Since(x, pc'))
        OBVIOUS
      <3>1. CASE x = y
        BY <1>3, <2>2, <2>7, <3>1
      <3>2. CASE x # y
        <4>1. heap[x] = "freed"
          BY <1>3, <2>3, <3>2
        <4> QED
          BY <1>3, <2>3, <2>6, <4>1 DEF Stale, Inherits
      <3> QED
        BY <3>1, <3>2
    <2>9. Stale(pc)'
      BY <1>1, <2>8, NamesStay DEF Stale
    <2>10. state' # "off" /\ state' # "useAfterFree"
      BY <1>1, <1>3, Zenon
    <2>11. UseAfterDelNeedsLoop'
      BY <2>10 DEF UseAfterDelNeedsLoop
    <2> QED
      BY <2>4, <2>9, <2>10, <2>11, Zenon DEF Memory
  <1> QED
    BY <1>1, <1>2, <1>3

(* A use of what a run has freed: its text follows no free, so that the    *)
(* one that freed it was in a loop.                                        *)
LEMMA AccessRemembers ==
  ASSUME Course, Memory, Usage(code), Access
  PROVE  Memory'
  <1> DEFINE y == code[pc].x
  <1>1. /\ state = "running" /\ pc <= Len(code) /\ code[pc].op = "use" /\ vars' = vars
        /\ heap' = heap
        /\ \/ heap[y] = "freed" /\ state' = "useAfterFree" /\ pc' = pc
           \/ pc' = pc + 1 /\ state' = state
    BY Zenon DEF Access, At, Op, Go, Stop
  <1>2. Finished /\ pc \in 1..Len(code)
    BY <1>1, RunsIs
  <1>3. CASE heap[y] = "freed" /\ state' = "useAfterFree" /\ pc' = pc
    <2>1. y \in Name /\ (y \in Pointers => Declared(code, pc))
      BY <1>1, <1>2 DEF Usage, Handled
    <2>2. Stale(pc) /\ heap \in [Name -> HeapStates]
      BY <1>1 DEF Memory
    <2>3. y \in Pointers /\ (LoopFree(y) \/ Since(y, pc))
      BY <1>3, <2>1, <2>2 DEF Stale
    <2>4. ~Since(y, pc)
      <3> SUFFICES ASSUME Since(y, pc) PROVE FALSE
        OBVIOUS
      <3>1. PICK d \in 1..pc - 1 :
              /\ IsLine(code[d], "bind", y)
              /\ \A r \in d..pc - 1 : Bal(code, r) >= Bal(code, d) /\ ~IsLine(code[r], "free", y)
        BY <2>1, <2>3 DEF Declared
      <3>2. PICK f \in 1..pc - 1 : /\ IsLine(code[f], "free", y)
                                  /\ \A h \in f + 1..pc - 1 : IsLine(code[h], "bind", y) => Gone(h, pc)
        BY DEF Since
      <3>3. pc \in Nat /\ Len(code) \in Nat /\ d \in Nat /\ f \in Nat
        BY <1>2, FinishedIs
      <3>4. ~(f >= d)
        <4>1. f >= d => f \in d..pc - 1
          BY <3>2, <3>3
        <4> QED
          BY <3>1, <3>2, <4>1
      <3>5. d \in f + 1..pc - 1
        BY <3>1, <3>2, <3>3, <3>4
      <3>6. Gone(d, pc)
        BY <3>1, <3>2, <3>5
      <3>7. code[pc].op # "close"
        BY <1>1, Zenon
      <3>8. PICK r \in d..pc - 1 : Bal(code, r) < Bal(code, d)
        BY <3>6, <3>7 DEF Gone
      <3>9. Bal(code, r) >= Bal(code, d) /\ r \in 0..Len(code) /\ d \in 0..Len(code)
        BY <1>2, <3>1, <3>3, <3>8
      <3>10. Bal(code, r) \in Int /\ Bal(code, d) \in Int
        BY <1>2, <3>9, FinishedIs
      <3> QED
        BY <3>8, <3>9, <3>10
    <2>5. LoopFree(y)
      BY <2>3, <2>4
    <2>6. UseAfterDelNeedsLoop'
      <3>1. code' = code
        BY <1>1, NamesStay
      <3>2. LoopFree(code[pc].x)'
        BY <1>1, <1>3, <2>5, <3>1, NamesStay
      <3> QED
        BY <3>2 DEF UseAfterDelNeedsLoop, LoopFree
    <2>7. state' # "off" /\ state' # "running"
      BY <1>3, Zenon
    <2> QED
      BY <1>1, <2>2, <2>6, <2>7, Zenon DEF Memory
  <1>4. CASE pc' = pc + 1 /\ state' = state
    <2>1. code[pc].op # "bind"
      BY <1>1, Zenon
    <2>2. Inherits(pc')
      BY <1>2, <1>4, <2>1, InheritsNext
    <2> QED
      BY <1>1, <1>4, <2>2, MemoryMoves
  <1> QED
    BY <1>1, <1>3, <1>4

(* The first line, with nothing freed.                                     *)
LEMMA StartRemembers ==
  ASSUME Memory, Start
  PROVE  Memory'
  <1>1. /\ state = "off" /\ vars' = vars /\ heap' = heap /\ pc' = pc
        /\ state' \in {"running", "notCompiled"}
    BY Zenon DEF Start
  <1>2. heap \in [Name -> HeapStates] /\ \A x \in Name : heap[x] = "none"
    BY <1>1 DEF Memory
  <1>3. \A x \in Name : heap[x] # "freed"
    BY <1>2, Zenon
  <1>4. Stale(pc)'
    BY <1>1, <1>3 DEF Stale
  <1>5. state' # "off" /\ state' # "useAfterFree"
    BY <1>1, Zenon
  <1>6. UseAfterDelNeedsLoop'
    BY <1>5 DEF UseAfterDelNeedsLoop
  <1> QED
    BY <1>1, <1>2, <1>4, <1>5, <1>6, Zenon DEF Memory

(* Nothing is freed before the run.                                        *)
LEMMA MemoryFirst ==
  ASSUME RunInit
  PROVE  Memory
  <1>1. state = "off" /\ heap = [x \in Name |-> "none"]
    BY Zenon DEF RunInit
  <1>2. heap \in [Name -> HeapStates] /\ \A x \in Name : heap[x] = "none"
    BY <1>1 DEF HeapStates
  <1>3. state # "running" /\ state # "useAfterFree"
    BY <1>1, Zenon
  <1> QED
    BY <1>1, <1>2, <1>3 DEF Memory, UseAfterDelNeedsLoop

(* Every step of the reader or of the run.                                 *)
LEMMA MemoryKept ==
  ASSUME Course, Memory, Pointed, [RunNext]_allVars
  PROVE  Memory'
  <1>1. CASE UNCHANGED allVars
    <2>1. vars' = vars /\ pc' = pc /\ heap' = heap /\ state' = state
      BY <1>1, Zenon DEF allVars, runVars
    <2>2. code' = code /\ \A x : (LoopFree(x)' <=> LoopFree(x)) /\ (Since(x, pc)' <=> Since(x, pc))
      BY <2>1, NamesStay
    <2>3. Stale(pc)' <=> Stale(pc)
      BY <2>1, <2>2 DEF Stale
    <2>4. UseAfterDelNeedsLoop'
      <3>1. state = "useAfterFree" => LoopFree(code[pc].x)
        BY DEF Memory, UseAfterDelNeedsLoop, LoopFree
      <3>2. state' = "useAfterFree" => LoopFree(code[pc].x)'
        BY <2>1, <2>2, <3>1
      <3> QED
        BY <3>2 DEF UseAfterDelNeedsLoop, LoopFree
    <2> QED
      BY <2>1, <2>3, <2>4, Zenon DEF Memory
  <1>2. CASE Parse /\ UNCHANGED runVars
    <2>1. heap' = heap /\ state' = state
      BY <1>2, Zenon DEF runVars
    <2>2. verdict = "parse"
      BY <1>2, StepReads DEF Course, Written
    <2>3. state = "off"
      BY <2>2, Zenon DEF Course
    <2>4. state' # "running" /\ state' # "useAfterFree"
      BY <2>1, <2>3, Zenon
    <2> QED
      BY <2>1, <2>4, Zenon DEF Memory, UseAfterDelNeedsLoop
  <1>3. CASE Start
    BY <1>3, StartRemembers
  <1>4. CASE Run /\ ~Start
    <2>1. state = "running"
      BY <1>4, RunArrives
    <2>2. Usage(code)
      <3>1. verdict = "accepted"
        BY <2>1, RunningIs
      <3> QED
        BY <3>1, Zenon DEF Pointed
    <2>3. \/ Declare \/ Access \/ Compute \/ Free \/ Assign \/ Branch
          \/ EnterScope \/ EnterLoop \/ EndOfBlock \/ BreakLoop \/ ContinueLoop \/ Return
          \/ EndOfBody
      BY <1>4, Zenon DEF Run
    <2> QED
      BY <2>2, <2>3, LineRemembers, HeadRemembers, EndRemembers, JumpRemembers, StopRemembers,
         DeclareRemembers, FreeRemembers, AccessRemembers, Zenon
  <1> QED
    BY <1>1, <1>2, <1>3, <1>4, Zenon DEF RunNext

(* A step of the run leaves the reader alone.                              *)
LEMMA RunSteps ==
  ASSUME [RunNext]_allVars
  PROVE  [Parse]_vars
  <1>1. Run => UNCHANGED vars
    BY Zenon DEF Run, Start, Declare, Access, Compute, Free, Assign, Branch, EnterScope,
       EnterLoop, EndOfBlock, BreakLoop, ContinueLoop, Return, EndOfBody, Go, Stop
  <1>2. UNCHANGED allVars => UNCHANGED vars
    BY Zenon DEF allVars
  <1> QED
    BY <1>1, <1>2, Zenon DEF RunNext

(* "`Del p` makes further use of p a compile-time error in the same scope" *)
(* (SPEC.md 4.4): while no more blocks are open than close_block() keeps   *)
(* the heights of, a run of an accepted body uses what it has freed only   *)
(* where a loop brings it back behind the text of the free.                *)
THEOREM FreedIsUsedInLoopsOnly == RunSpec /\ []Shallow => []UseAfterDelNeedsLoop
  <1>1. RunInit => Memory /\ Pointed
    BY MemoryFirst, PointedFirst DEF RunInit
  <1>2. Course /\ Memory /\ Pointed /\ Shallow /\ [RunNext]_allVars => (Memory /\ Pointed)'
    <2> SUFFICES ASSUME Course, Memory, Pointed, Shallow, [RunNext]_allVars
                 PROVE  (Memory /\ Pointed)'
      OBVIOUS
    <2>1. Memory'
      BY MemoryKept
    <2>2. [Parse]_vars
      BY RunSteps
    <2>3. Reading
      BY DEF Course, Written
    <2> QED
      BY <2>1, <2>2, <2>3, PointedKept
  <1>3. Memory => UseAfterDelNeedsLoop
    BY Zenon DEF Memory
  <1> QED
    BY <1>1, <1>2, <1>3, CourseAlways, PTL DEF RunSpec

(* The same for bodies that are too short to nest so deep.                 *)
THEOREM ShortBodiesUseInLoopsOnly ==
  ASSUME MaxTokens + 3 <= SavedBlocks
  PROVE  RunSpec => []UseAfterDelNeedsLoop
  <1>1. Reading => Shallow
    BY ShortIsShallow
  <1> QED
    BY <1>1, RunIsReading, ReadingAlways, FreedIsUsedInLoopsOnly, PTL

----------------------------------------------------------------------------
(***************************************************************************)
(* Where the emitted text advances the variables of its ranges.            *)
(***************************************************************************)
(* What a loop without a variable of its own has for one.                  *)
NoName == ""

(* What loop_inc holds for a loop: the variable that `continue` advances.  *)
Counter(i) == IF i.op = "range" THEN i.x ELSE NoName

(* Line h opens the innermost loop that is open in front of line p.        *)
Inner(c, h, p) ==
  /\ h \in 1..p - 1 /\ c[h].op \in Loops /\ \A r \in h..p - 1 : Bal(c, r) >= Bal(c, h)
  /\ \A g \in h + 1..p - 1 : c[g].op \in Loops => \E r \in g..p - 1 : Bal(c, r) < Bal(c, g)

(* In front of line p the variable of the range of line h is advanced, and *)
(* no variable if line h opens another block.                              *)
Advances(c, h, p) ==
  IF c[h].op = "range" THEN IsLine(c[p - 1], "inc", c[h].x) ELSE c[p - 1].op # "inc"

(* No line before line p declares its name where line p sees it.           *)
Unseen(c, p) ==
  \A q \in 1..p - 1 : c[q].op \in Declaring /\ c[q].x = c[p].x =>
    \E r \in q..p - 1 : Bal(c, r) < Bal(c, q)

Timed(c, p) ==
  /\ p > 1 /\ c[p - 1].op = "inc" => c[p].op \in {"continue", "close"}
  /\ c[p].op = "continue" => \A h \in 1..p - 1 : Inner(c, h, p) => Advances(c, h, p)
  /\ c[p].op = "close" => \A h \in 1..p - 1 : Pair(c, h, p) => Advances(c, h, p)
  /\ c[p].op \in Declaring => Unseen(c, p)
  /\ c[p].op \in {"scope", "range"} => c[p].x \in Name /\ c[p].x # NoName
  /\ c[p].op = "range" => p > 1 /\ IsLine(c[p - 1], "scope", c[p].x)

Tidy(c) == \A p \in 1..Len(c) : Timed(c, p)
Calm(c) == Len(c) > 0 => c[Len(c)].op # "inc"

(* The loops that are open at the end of a text, and their entries.        *)
OpenLoops(c) == {h \in 1..Len(c) : c[h].op \in Loops /\ Held(c, h)}

Looped(lo, c) ==
  /\ Len(lo) = Tally(OpenLoops(c), Len(c))
  /\ \A h \in OpenLoops(c) : lo[Tally(OpenLoops(c), h)] = Counter(c[h])

(* Lines that follow change nothing.                                       *)
LEMMA TimedSame ==
  ASSUME NEW c \in Seq(Line), NEW d \in Seq(Line), Same(c, d, Len(c)),
         NEW p \in 1..Len(c), Timed(c, p)
  PROVE  Timed(d, p)
  <1>1. /\ Len(c) \in Nat /\ Len(d) \in Nat /\ Len(c) <= Len(d) /\ d[p] = c[p]
        /\ \A q \in 1..p : d[q] = c[q] /\ q \in 1..Len(c) /\ q \in 1..Len(d)
    BY DEF Same
  <1>2. \A q \in 0..p : Bal(d, q) = Bal(c, q)
    BY <1>1, BalSame
  <1>3. p > 1 => p - 1 \in 1..p
    BY <1>1
  <1>4. \A h \in 1..p - 1 : h \in 1..p /\ h \in 0..p /\ p > 1
    BY <1>1
  <1>5. \A h \in 1..p - 1 : \A r \in h..p : r \in 0..p /\ r \in 1..p
    BY <1>1
  <1>6. ASSUME NEW h \in 1..p - 1 PROVE Advances(d, h, p) <=> Advances(c, h, p)
    <2>1. d[h] = c[h] /\ d[p - 1] = c[p - 1]
      BY <1>1, <1>3, <1>4
    <2> QED
      BY <2>1 DEF Advances
  <1>7. ASSUME NEW h \in 1..p - 1, Inner(d, h, p) PROVE Inner(c, h, p)
    <2>1. c[h].op \in Loops
      BY <1>1, <1>4, <1>7 DEF Inner
    <2>2. \A r \in h..p - 1 : Bal(c, r) >= Bal(c, h)
      <3> TAKE r \in h..p - 1
      <3>1. Bal(d, r) >= Bal(d, h) /\ r \in 0..p /\ h \in 0..p
        BY <1>1, <1>7 DEF Inner
      <3> QED
        BY <1>2, <3>1
    <2>3. ASSUME NEW g \in h + 1..p - 1, c[g].op \in Loops
          PROVE  \E r \in g..p - 1 : Bal(c, r) < Bal(c, g)
      <3>1. g \in 1..p /\ g \in 0..p /\ \A r \in g..p - 1 : r \in 0..p
        BY <1>1
      <3>2. d[g].op \in Loops
        BY <1>1, <2>3, <3>1
      <3>3. PICK r \in g..p - 1 : Bal(d, r) < Bal(d, g)
        BY <1>7, <3>2 DEF Inner
      <3> QED
        BY <1>2, <3>1, <3>3
    <2> QED
      BY <2>1, <2>2, <2>3 DEF Inner
  <1>8. ASSUME NEW h \in 1..p - 1, Pair(d, h, p) PROVE Pair(c, h, p)
    <2>1. /\ d[h].op \in Openings /\ d[p].op = "close" /\ Bal(d, p) = Bal(d, h) - 1
          /\ \A r \in h..p - 1 : Bal(d, r) >= Bal(d, h)
      BY <1>8 DEF Pair
    <2>2. h \in 0..p /\ p \in 0..p /\ \A r \in h..p - 1 : r \in 0..p
      BY <1>1
    <2>3. \A r \in h..p - 1 : Bal(c, r) >= Bal(c, h)
      BY <1>2, <2>1, <2>2
    <2>4. h \in 1..Len(c) /\ p \in 1..Len(c) /\ h < p /\ c[h] = d[h]
      BY <1>1, <1>4
    <2> QED
      BY <1>1, <1>2, <2>1, <2>2, <2>3, <2>4 DEF Pair
  <1>9. ASSUME Unseen(c, p) PROVE Unseen(d, p)
    <2> SUFFICES ASSUME NEW q \in 1..p - 1, d[q].op \in Declaring, d[q].x = d[p].x
                 PROVE  \E r \in q..p - 1 : Bal(d, r) < Bal(d, q)
      BY DEF Unseen
    <2>1. q \in 0..p /\ d[q] = c[q] /\ \A r \in q..p - 1 : r \in 0..p
      BY <1>1, <1>4
    <2>2. PICK r \in q..p - 1 : Bal(c, r) < Bal(c, q)
      BY <1>1, <1>9, <2>1 DEF Unseen
    <2> QED
      BY <1>2, <2>1, <2>2
  <1>10. p > 1 => d[p - 1] = c[p - 1]
    BY <1>1, <1>3
  <1> QED
    BY <1>1, <1>6, <1>7, <1>8, <1>9, <1>10 DEF Timed

(* One more line: what it must find at the end of the text.                *)
LEMMA TidyAppend ==
  ASSUME NEW c \in Seq(Line), NEW i \in Line, Tidy(c),
         Calm(c) \/ i.op \in {"continue", "close"},
         i.op = "continue" =>
           \A h \in 1..Len(c) : Inner(c, h, Len(c) + 1) => Advances(c, h, Len(c) + 1),
         i.op = "close" =>
           \A h \in 1..Len(c) : Open(c, h, Bal(c, Len(c))) => Advances(c, h, Len(c) + 1),
         i.op \in Declaring => \A q \in Visible(c) : c[q].x # i.x,
         i.op \in {"scope", "range"} => i.x \in Name /\ i.x # NoName,
         i.op = "range" => Len(c) > 0 /\ IsLine(c[Len(c)], "scope", i.x)
  PROVE  Tidy(Append(c, i))
  <1> DEFINE d == Append(c, i)
             n == Len(c)
  <1>1. /\ d \in Seq(Line) /\ Len(d) = n + 1 /\ n \in Nat /\ d[n + 1] = i
        /\ Same(c, d, n) /\ \A q \in 1..n : d[q] = c[q]
    BY SameAppend DEF Same
  <1>2. \A q \in 0..n : Bal(d, q) = Bal(c, q) /\ Bal(c, q) \in Int
    <2>1. \A q \in 0..n : q \in Nat
      BY <1>1
    <2> QED
      BY <2>1, BalAppend, BalSteps
  <1> HIDE DEF d
  <1>3. \A h \in 1..n : Open(c, h, Bal(c, n)) => Advances(c, h, n + 1)
        \/ i.op # "close"
    OBVIOUS
  <1> SUFFICES ASSUME NEW p \in 1..Len(d) PROVE Timed(d, p)
    BY DEF Tidy, d
  <1>4. CASE p \in 1..n
    BY <1>1, <1>4, TimedSame DEF Tidy
  <1>5. CASE p = n + 1
    <2>1. /\ p - 1 = n /\ d[p] = i /\ (p > 1 <=> n > 0) /\ \A h \in 1..p - 1 : h \in 1..n
          /\ n > 0 => d[n] = c[n]
      BY <1>1, <1>5
    <2> HIDE DEF n
    <2>2. ASSUME NEW h \in 1..n PROVE Advances(d, h, p) <=> Advances(c, h, p)
      <3>1. d[h] = c[h] /\ d[p - 1] = c[p - 1]
        BY <1>1, <2>1, <2>2
      <3> QED
        BY <3>1 DEF Advances
    <2>3. p > 1 /\ d[p - 1].op = "inc" => d[p].op \in {"continue", "close"}
      BY <2>1 DEF Calm, n
    <2>4. ASSUME d[p].op = "continue", NEW h \in 1..p - 1, Inner(d, h, p)
          PROVE  Advances(d, h, p)
      <3>1. h \in 1..n /\ c[h] = d[h]
        BY <1>1, <2>1
      <3>2. \A r \in h..p - 1 : r \in 0..n
        BY <1>1, <2>1, <3>1
      <3>3. \A r \in h..p - 1 : Bal(c, r) >= Bal(c, h)
        <4> TAKE r \in h..p - 1
        <4>1. Bal(d, r) >= Bal(d, h) /\ r \in 0..n /\ h \in 0..n
          BY <1>1, <2>4, <3>1, <3>2 DEF Inner
        <4> QED
          BY <1>2, <4>1
      <3>4. ASSUME NEW g \in h + 1..p - 1, c[g].op \in Loops
            PROVE  \E r \in g..p - 1 : Bal(c, r) < Bal(c, g)
        <4>1. g \in 1..n /\ g \in 0..n /\ \A r \in g..p - 1 : r \in 0..n
          BY <1>1, <2>1, <3>1
        <4>2. d[g].op \in Loops
          BY <1>1, <3>4, <4>1
        <4>3. PICK r \in g..p - 1 : Bal(d, r) < Bal(d, g)
          BY <2>4, <4>2 DEF Inner
        <4> QED
          BY <1>2, <4>1, <4>3
      <3>5. Inner(c, h, p)
        BY <2>4, <3>1, <3>3, <3>4 DEF Inner
      <3> QED
        BY <1>5, <2>1, <2>2, <2>4, <3>1, <3>5 DEF n
    <2>5. ASSUME d[p].op = "close", NEW h \in 1..p - 1, Pair(d, h, p)
          PROVE  Advances(d, h, p)
      <3>1. h \in 1..n
        BY <2>1
      <3>2. Open(c, h, Bal(c, n))
        <4>1. h \in 1..Len(c) + 1 /\ Pair(Append(c, i), h, Len(c) + 1)
          BY <1>1, <1>5, <2>5, <3>1 DEF d, n
        <4> QED
          BY <4>1, PairNew DEF n
      <3> QED
        BY <1>5, <2>1, <2>2, <2>5, <3>1, <3>2 DEF n
    <2>6. ASSUME d[p].op \in Declaring PROVE Unseen(d, p)
      <3> SUFFICES ASSUME NEW q \in 1..p - 1, d[q].op \in Declaring, d[q].x = d[p].x
                   PROVE  \E r \in q..p - 1 : Bal(d, r) < Bal(d, q)
        BY DEF Unseen
      <3>1. q \in 1..n /\ c[q] = d[q] /\ c[q].x = i.x
        BY <1>1, <2>1
      <3>2. q \notin Visible(c)
        BY <2>1, <2>6, <3>1
      <3>3. ~Held(c, q)
        BY <3>1, <3>2 DEF Visible, n
      <3>4. PICK r \in q..n : ~(Bal(c, r) >= Bal(c, q))
        BY <3>3 DEF Held, n
      <3>5. r \in 0..n /\ q \in 0..n /\ r \in q..p - 1
        BY <1>1, <2>1, <3>1, <3>4
      <3>6. Bal(c, r) < Bal(c, q)
        BY <1>2, <3>4, <3>5
      <3> QED
        BY <1>2, <3>5, <3>6
    <2>7. d[p].op = "range" => p > 1 /\ IsLine(d[p - 1], "scope", d[p].x)
      BY <2>1 DEF n
    <2>8. d[p].op \in {"scope", "range"} => d[p].x \in Name /\ d[p].x # NoName
      BY <2>1
    <2> QED
      BY <2>3, <2>4, <2>5, <2>6, <2>7, <2>8 DEF Timed
  <1> QED
    BY <1>1, <1>4, <1>5

(* A count that does not change where no member stands.                    *)
LEMMA TallyRest ==
  ASSUME NEW S, NEW a \in Nat, NEW b \in Nat, a <= b, \A k \in a + 1..b : k \notin S
  PROVE  Tally(S, b) = Tally(S, a)
  <1>1. Cardinality({q \in a + 1..b : q \in S}) = Tally(S, b) - Tally(S, (a + 1) - 1)
    BY TallyInterval
  <1>2. {q \in a + 1..b : q \in S} = {} /\ Cardinality({}) = 0 /\ (a + 1) - 1 = a
    BY FS_EmptySet
  <1>3. Tally(S, a) \in Nat /\ Tally(S, b) \in Nat
    BY TallyStep
  <1>4. Tally(S, b) - Tally(S, a) = 0
    BY <1>1, <1>2, Zenon
  <1> QED
    BY <1>3, <1>4

(* The innermost loop is the last that is open.                            *)
LEMMA InnerOpen ==
  ASSUME NEW c \in Seq(Line), NEW h \in 1..Len(c), Inner(c, h, Len(c) + 1)
  PROVE  h \in OpenLoops(c) /\ \A g \in h + 1..Len(c) : g \notin OpenLoops(c)
  <1>1. Len(c) \in Nat /\ (Len(c) + 1) - 1 = Len(c)
    OBVIOUS
  <1>2. /\ c[h].op \in Loops /\ \A r \in h..Len(c) : Bal(c, r) >= Bal(c, h)
        /\ \A g \in h + 1..Len(c) : c[g].op \in Loops =>
             \E r \in g..Len(c) : Bal(c, r) < Bal(c, g)
    BY <1>1 DEF Inner
  <1>3. h \in OpenLoops(c)
    BY <1>2 DEF OpenLoops, Held
  <1>4. ASSUME NEW g \in h + 1..Len(c), g \in OpenLoops(c) PROVE FALSE
    <2>1. c[g].op \in Loops /\ \A r \in g..Len(c) : Bal(c, r) >= Bal(c, g)
      BY <1>4 DEF OpenLoops, Held
    <2>2. PICK r \in g..Len(c) : Bal(c, r) < Bal(c, g)
      BY <1>2, <2>1
    <2>3. r \in Nat /\ g \in Nat
      BY <1>1
    <2>4. Bal(c, r) \in Int /\ Bal(c, g) \in Int /\ Bal(c, r) >= Bal(c, g)
      BY <2>1, <2>3, BalSteps
    <2> QED
      BY <2>2, <2>4
  <1> QED
    BY <1>3, <1>4

(* The last entry is that of the last open loop.                           *)
LEMMA LastLooped ==
  ASSUME NEW lo \in Seq(NameOrNone), NEW c \in Seq(Line), Looped(lo, c),
         NEW h \in OpenLoops(c), \A g \in h + 1..Len(c) : g \notin OpenLoops(c)
  PROVE  Len(lo) > 0 /\ Last(lo) = Counter(c[h])
  <1> DEFINE S == OpenLoops(c)
  <1>1. h \in 1..Len(c) /\ Len(c) \in Nat
    BY DEF OpenLoops
  <1>2. /\ Len(lo) = Tally(S, Len(c)) /\ lo[Tally(S, h)] = Counter(c[h]) /\ h \in S
        /\ \A g \in h + 1..Len(c) : g \notin S
    BY DEF Looped
  <1> HIDE DEF S
  <1>3. h \in Nat /\ h - 1 \in Nat /\ (h - 1) + 1 = h /\ h <= Len(c)
    BY <1>1
  <1>4. Tally(S, Len(c)) = Tally(S, h)
    BY <1>1, <1>2, <1>3, TallyRest
  <1>5. Tally(S, h) = Tally(S, h - 1) + 1 /\ Tally(S, h - 1) \in Nat
    <2>1. /\ Tally(S, h - 1) \in Nat
          /\ (h - 1) + 1 \in S => Tally(S, (h - 1) + 1) = Tally(S, h - 1) + 1
      BY <1>3, TallyStep
    <2> QED
      BY <1>2, <1>3, <2>1
  <1> QED
    BY <1>2, <1>4, <1>5 DEF Last

(* A count over more lines is no smaller.                                  *)
LEMMA TallyGrows ==
  ASSUME NEW S, NEW a \in Nat, NEW b \in Nat, a <= b
  PROVE  Tally(S, a) <= Tally(S, b)
  <1> DEFINE T == {q \in a + 1..b : q \in S}
  <1>1. Cardinality(T) = Tally(S, b) - Tally(S, (a + 1) - 1)
    BY TallyInterval
  <1>2. IsFiniteSet(a + 1..b)
    BY FS_Interval
  <1>3. IsFiniteSet(T)
    BY <1>2, FS_Subset
  <1>4. Cardinality(T) \in Nat
    BY <1>3, FS_CardinalityType
  <1>5. Tally(S, a) \in Nat /\ Tally(S, b) \in Nat /\ (a + 1) - 1 = a
    BY TallyStep
  <1> HIDE DEF T
  <1> QED
    BY <1>1, <1>4, <1>5

(* Lines that open and close no loop.                                      *)
LEMMA LoopedFlat ==
  ASSUME NEW lo, NEW c \in Seq(Line), Looped(lo, c), NEW i \in Line,
         i.op \notin Loops,
         i.op = "close" =>
           \A h \in 1..Len(c) : Open(c, h, Bal(c, Len(c))) => c[h].op \notin Loops
  PROVE  Looped(lo, Append(c, i))
  <1> DEFINE d == Append(c, i)
             n == Len(c)
             S == OpenLoops(c)
             U == OpenLoops(d)
  <1>1. /\ d \in Seq(Line) /\ Len(d) = n + 1 /\ n \in Nat /\ d[n + 1] = i
        /\ \A q \in 1..n : d[q] = c[q]
    BY SameAppend DEF Same
  <1>2. /\ \A q \in 1..n : /\ Held(d, q) <=> Held(c, q) /\ Bal(d, n + 1) >= Bal(c, q)
                           /\ Held(c, q) => Bal(c, q) <= Bal(c, n)
                           /\ Bal(c, q) \in Int
    BY HeldAppend
  <1>3. /\ i.op \in Openings => Bal(d, n + 1) = Bal(c, n) + 1
        /\ i.op = "close" => Bal(d, n + 1) = Bal(c, n) - 1
        /\ i.op \notin Openings /\ i.op # "close" => Bal(d, n + 1) = Bal(c, n)
        /\ Bal(c, n) \in Int
    BY BalAppend
  <1>4. \A h \in 1..n : Open(c, h, Bal(c, n)) => c[h].op \notin Loops \/ i.op # "close"
    OBVIOUS
  <1> HIDE DEF d
  <1>5. ASSUME NEW h, h \in U PROVE h \in S
    <2>1. h \in 1..n + 1 /\ d[h].op \in Loops /\ Held(d, h)
      BY <1>1, <1>5 DEF OpenLoops
    <2>2. h # n + 1
      BY <1>1, <2>1
    <2>3. h \in 1..n
      BY <1>1, <2>1, <2>2
    <2> QED
      BY <1>1, <1>2, <2>1, <2>3 DEF OpenLoops
  <1>6. ASSUME NEW h, h \in S PROVE h \in U
    <2>1. h \in 1..n /\ c[h].op \in Loops /\ Held(c, h)
      BY <1>6 DEF OpenLoops
    <2>2. Bal(c, h) <= Bal(c, n) /\ Bal(c, h) \in Int
      BY <1>2, <2>1
    <2>3. i.op = "close" => Bal(c, h) # Bal(c, n)
      <3> SUFFICES ASSUME i.op = "close", Bal(c, h) = Bal(c, n) PROVE FALSE
        OBVIOUS
      <3>1. c[h].op \in Openings
        BY <2>1, Zenon DEF Openings
      <3>2. Open(c, h, Bal(c, n))
        BY <2>1, <3>1 DEF Open, n
      <3> QED
        BY <1>4, <2>1, <3>2
    <2>4. Bal(d, n + 1) >= Bal(c, h)
      BY <1>3, <2>2, <2>3
    <2>5. Held(d, h) /\ h \in 1..n + 1 /\ d[h].op \in Loops
      BY <1>1, <1>2, <2>1, <2>4
    <2> QED
      BY <1>1, <2>5 DEF OpenLoops
  <1>7. U = S
    BY <1>5, <1>6
  <1>8. Tally(S, n + 1) = Tally(S, n)
    <2>1. n + 1 \notin S
      BY <1>1 DEF OpenLoops
    <2> HIDE DEF S, n
    <2> QED
      BY <1>1, <2>1, TallyStep
  <1>9. Len(lo) = Tally(S, n) /\ \A h \in S : lo[Tally(S, h)] = Counter(c[h]) /\ h \in 1..n
    BY DEF Looped, OpenLoops
  <1>10. \A h \in S : d[h] = c[h]
    BY <1>1, <1>9
  <1> HIDE DEF S, U
  <1>11. Looped(lo, d)
    BY <1>1, <1>7, <1>8, <1>9, <1>10 DEF Looped, U
  <1> QED
    BY <1>11 DEF d

(* The head of a loop.                                                     *)
LEMMA LoopedOpen ==
  ASSUME NEW lo \in Seq(NameOrNone), NEW c \in Seq(Line), Looped(lo, c), NEW i \in Line,
         i.op \in Loops, NEW x \in NameOrNone, x = Counter(i)
  PROVE  Looped(Append(lo, x), Append(c, i))
  <1> DEFINE d == Append(c, i)
             n == Len(c)
             S == OpenLoops(c)
             U == OpenLoops(d)
             k == Append(lo, x)
  <1>1. /\ d \in Seq(Line) /\ Len(d) = n + 1 /\ n \in Nat /\ d[n + 1] = i
        /\ \A q \in 1..n : d[q] = c[q]
    BY SameAppend DEF Same
  <1>2. /\ \A q \in 1..n : /\ Held(d, q) <=> Held(c, q) /\ Bal(d, n + 1) >= Bal(c, q)
                           /\ Held(c, q) => Bal(c, q) <= Bal(c, n)
                           /\ Bal(c, q) \in Int
        /\ Held(d, n + 1)
    BY HeldAppend
  <1>3. Bal(d, n + 1) = Bal(c, n) + 1 /\ Bal(c, n) \in Int
    <2>1. i.op \in Openings
      BY Zenon DEF Openings
    <2> QED
      BY <2>1, BalAppend
  <1>4. /\ Len(k) = Len(lo) + 1 /\ k[Len(lo) + 1] = x /\ Len(lo) \in Nat
        /\ \A j \in 1..Len(lo) : k[j] = lo[j]
    <2> HIDE DEF NameOrNone
    <2> QED
      OBVIOUS
  <1> HIDE DEF d, k
  <1>5. \A h \in 1..n : h \in U <=> h \in S
    <2> TAKE h \in 1..n
    <2>1. h \in 1..n + 1 /\ d[h] = c[h]
      BY <1>1
    <2>2. Held(c, h) => Bal(d, n + 1) >= Bal(c, h)
      BY <1>2, <1>3
    <2>3. Held(d, h) <=> Held(c, h)
      BY <1>2, <2>2
    <2> QED
      BY <1>1, <2>1, <2>3 DEF OpenLoops
  <1>6. n + 1 \in U /\ \A h \in U : h \in 1..n \/ h = n + 1
    BY <1>1, <1>2 DEF OpenLoops
  <1>7. /\ Len(lo) = Tally(S, n)
        /\ \A h \in S : lo[Tally(S, h)] = Counter(c[h]) /\ h \in 1..n
    BY DEF Looped, OpenLoops
  <1> HIDE DEF S, U
  <1>8. \A h \in 0..n : Tally(U, h) = Tally(S, h)
    <2> TAKE h \in 0..n
    <2>1. \A j \in 1..h : j \in U <=> j \in S
      BY <1>1, <1>5
    <2> QED
      BY <2>1, TallyAgree
  <1>9. Tally(U, n + 1) = Tally(S, n) + 1
    <2>1. Tally(U, n + 1) = Tally(U, n) + 1
      BY <1>1, <1>6, TallyStep
    <2> QED
      BY <1>1, <1>8, <2>1
  <1>10. ASSUME NEW h \in U PROVE k[Tally(U, h)] = Counter(d[h])
    <2>1. CASE h \in 1..n
      <3>1. h \in S /\ Tally(U, h) = Tally(S, h) /\ d[h] = c[h]
        BY <1>1, <1>5, <1>8, <2>1
      <3>2. Tally(S, h) \in 1..Len(lo)
        <4>1. h \in Nat /\ h - 1 \in Nat /\ (h - 1) + 1 = h
          BY <2>1
        <4>2. Tally(S, h) = Tally(S, h - 1) + 1 /\ Tally(S, h - 1) \in Nat
          <5>1. /\ Tally(S, h - 1) \in Nat
                /\ (h - 1) + 1 \in S => Tally(S, (h - 1) + 1) = Tally(S, h - 1) + 1
            BY <4>1, TallyStep
          <5> QED
            BY <3>1, <4>1, <5>1
        <4>3. Tally(S, h) <= Tally(S, n)
          BY <1>1, <2>1, TallyGrows
        <4> QED
          BY <1>4, <1>7, <4>2, <4>3
      <3> QED
        BY <1>4, <1>7, <3>1, <3>2
    <2>2. CASE h = n + 1
      BY <1>1, <1>4, <1>7, <1>9, <2>2
    <2> QED
      BY <1>6, <2>1, <2>2
  <1>11. Looped(k, d)
    BY <1>1, <1>4, <1>7, <1>9, <1>10 DEF Looped, U
  <1> QED
    BY <1>11 DEF d, k

(* While a block is open there is a line that opened it.                   *)
LEMMA LastOpens ==
  ASSUME NEW c \in Seq(Line), Bal(c, Len(c)) > 0
  PROVE  \E q \in 1..Len(c) : Open(c, q, Bal(c, Len(c)))
  <1> DEFINE n == Len(c)
             k == Bal(c, n)
             S == {m \in 0..n : Bal(c, m) < k}
  <1>1. /\ n \in Nat /\ Bal(c, 0) = 0
        /\ \A m \in Nat : Bal(c, m) \in Int
        /\ \A m \in 1..n : /\ c[m].op \in Openings => Bal(c, m) = Bal(c, m - 1) + 1
                           /\ c[m].op = "close" => Bal(c, m) = Bal(c, m - 1) - 1
                           /\ c[m].op \notin Openings /\ c[m].op # "close" =>
                                Bal(c, m) = Bal(c, m - 1)
    BY BalSteps
  <1>2. k \in Int /\ k > 0
    BY <1>1
  <1> HIDE DEF n, k
  <1>3. 0 \in S /\ S \in SUBSET (0..n)
    BY <1>1, <1>2
  <1>4. PICK m \in S : \A y \in S : y <= m
    BY <1>1, <1>3, Greatest
  <1>5. m \in 0..n /\ Bal(c, m) < k
    BY <1>4
  <1>6. \A r \in m + 1..n : Bal(c, r) >= k
    <2> SUFFICES ASSUME NEW r \in m + 1..n, ~(Bal(c, r) >= k) PROVE FALSE
      OBVIOUS
    <2>1. r \in 0..n /\ r \in Nat /\ r > m
      BY <1>1, <1>5
    <2>2. r \in S
      BY <1>1, <1>2, <2>1
    <2> HIDE DEF S
    <2>3. r <= m
      BY <1>4, <2>2
    <2> QED
      BY <1>5, <2>1, <2>3
  <1> HIDE DEF S
  <1>7. m # n
    BY <1>5, <1>2 DEF k
  <1>8. m + 1 \in 1..n /\ (m + 1) - 1 = m /\ m + 1 \in m + 1..n /\ m + 1 \in Nat /\ m \in Nat
    BY <1>1, <1>5, <1>7
  <1>9. Bal(c, m + 1) \in Int /\ Bal(c, m) \in Int /\ Bal(c, m + 1) >= k
    BY <1>1, <1>6, <1>8
  <1>10. /\ c[m + 1].op \in Openings => Bal(c, m + 1) = Bal(c, m) + 1
         /\ c[m + 1].op = "close" => Bal(c, m + 1) = Bal(c, m) - 1
         /\ c[m + 1].op \notin Openings /\ c[m + 1].op # "close" =>
              Bal(c, m + 1) = Bal(c, m)
    <2>1. /\ c[m + 1].op \in Openings => Bal(c, m + 1) = Bal(c, (m + 1) - 1) + 1
          /\ c[m + 1].op = "close" => Bal(c, m + 1) = Bal(c, (m + 1) - 1) - 1
          /\ c[m + 1].op \notin Openings /\ c[m + 1].op # "close" =>
               Bal(c, m + 1) = Bal(c, (m + 1) - 1)
      BY <1>1, <1>8
    <2> QED
      BY <1>8, <2>1
  <1>11. c[m + 1].op \in Openings /\ Bal(c, m + 1) = k
    BY <1>2, <1>5, <1>9, <1>10
  <1>12. Held(c, m + 1)
    BY <1>6, <1>11 DEF Held, n
  <1> QED
    BY <1>8, <1>11, <1>12 DEF Open, n, k

(* The first k entries.                                                    *)
LEMMA CutEntries ==
  ASSUME NEW lo \in Seq(NameOrNone), NEW k \in 0..Len(lo)
  PROVE  /\ Len(SubSeq(lo, 1, k)) = k
         /\ \A j \in 1..k : SubSeq(lo, 1, k)[j] = lo[j] /\ j \in 1..Len(lo)
  <1> HIDE DEF NameOrNone
  <1> QED
    OBVIOUS

(* The end of a loop.                                                      *)
LEMMA LoopedShut ==
  ASSUME NEW lo \in Seq(NameOrNone), NEW c \in Seq(Line), Looped(lo, c), NEW i \in Line,
         i.op = "close", NEW h \in 1..Len(c), Open(c, h, Bal(c, Len(c))), c[h].op \in Loops
  PROVE  Looped(Front(lo), Append(c, i))
  <1> DEFINE d == Append(c, i)
             n == Len(c)
             S == OpenLoops(c)
             U == OpenLoops(d)
             k == Front(lo)
  <1>1. /\ d \in Seq(Line) /\ Len(d) = n + 1 /\ n \in Nat /\ d[n + 1] = i
        /\ \A q \in 1..n : d[q] = c[q]
    BY SameAppend DEF Same
  <1>2. /\ \A q \in 1..n : /\ Held(d, q) <=> Held(c, q) /\ Bal(d, n + 1) >= Bal(c, q)
                           /\ Held(c, q) => Bal(c, q) <= Bal(c, n)
                           /\ Bal(c, q) \in Int
    BY HeldAppend
  <1>3. Bal(d, n + 1) = Bal(c, n) - 1 /\ Bal(c, n) \in Int
    BY BalAppend
  <1>4. i.op \notin Loops
    BY Zenon DEF Loops
  <1>5. Held(c, h) /\ Bal(c, h) = Bal(c, n) /\ c[h].op \in Openings
    BY DEF Open
  <1> HIDE DEF d, n
  <1>6. \A q \in 1..n : c[q].op \in Openings => Bal(c, q) = Bal(c, q - 1) + 1 /\ q - 1 \in 0..n
    <2>1. \A q \in 1..n : c[q].op \in Openings => Bal(c, q) = Bal(c, q - 1) + 1
      BY BalSteps DEF n
    <2>2. \A q \in 1..n : q - 1 \in 0..n
      BY <1>1
    <2> QED
      BY <2>1, <2>2
  <1>7. h \in 1..n /\ \A q \in 0..n : Bal(c, q) \in Int
    <2>1. \A q \in 0..n : q \in Nat
      BY <1>1
    <2> QED
      BY <2>1, BalSteps DEF n
  <1>8. \A q \in S : q \in 1..n /\ c[q].op \in Openings /\ Held(c, q)
    BY Zenon DEF OpenLoops, Openings, n
  <1>9. ASSUME NEW q \in S, q # h PROVE q < h /\ Bal(c, q) < Bal(c, n)
    <2>1. q \in 1..n /\ c[q].op \in Openings /\ Held(c, q) /\ Bal(c, q) <= Bal(c, n)
          /\ Bal(c, q) = Bal(c, q - 1) + 1 /\ Bal(c, q) \in Int /\ Bal(c, q - 1) \in Int
      BY <1>2, <1>6, <1>7, <1>8
    <2>2. ~(q > h)
      <3> SUFFICES ASSUME q > h PROVE FALSE
        OBVIOUS
      <3>1. q - 1 \in h..n
        BY <1>1, <1>7, <2>1
      <3>2. Bal(c, q - 1) >= Bal(c, h)
        BY <1>5, <3>1 DEF Held, n
      <3> QED
        BY <1>3, <1>5, <2>1, <3>2
    <2>3. q < h
      BY <1>7, <1>9, <2>1, <2>2
    <2>4. h - 1 \in q..n
      BY <1>1, <1>7, <2>1, <2>3
    <2>5. Bal(c, h - 1) >= Bal(c, q) /\ Bal(c, h) = Bal(c, h - 1) + 1 /\ Bal(c, h - 1) \in Int
      BY <1>5, <1>6, <1>7, <2>1, <2>4 DEF Held, n
    <2> QED
      BY <1>3, <1>5, <2>1, <2>3, <2>5
  <1>10. \A q : q \in U <=> q \in S /\ q # h
    <2> TAKE q
    <2>1. ASSUME q \in U PROVE q \in S /\ q # h
      <3>1. q \in 1..n + 1 /\ d[q].op \in Loops /\ Held(d, q)
        BY <1>1, <2>1 DEF OpenLoops
      <3>2. q # n + 1
        BY <1>1, <1>4, <3>1
      <3>3. q \in 1..n
        BY <1>1, <3>1, <3>2
      <3>4. Held(c, q) /\ Bal(c, n) - 1 >= Bal(c, q) /\ d[q] = c[q] /\ Bal(c, q) \in Int
        BY <1>1, <1>2, <1>3, <3>1, <3>3
      <3>5. q # h
        BY <1>3, <1>5, <3>4
      <3> QED
        BY <3>1, <3>3, <3>4, <3>5 DEF OpenLoops, n
    <2>2. ASSUME q \in S, q # h PROVE q \in U
      <3>1. q \in 1..n /\ Held(c, q) /\ Bal(c, q) < Bal(c, n) /\ Bal(c, q) \in Int
        BY <1>2, <1>8, <1>9, <2>2
      <3>2. Bal(d, n + 1) >= Bal(c, q)
        BY <1>3, <3>1
      <3>3. Held(d, q) /\ d[q] = c[q] /\ q \in 1..Len(d)
        BY <1>1, <1>2, <3>1, <3>2
      <3>4. c[q].op \in Loops
        BY <2>2 DEF OpenLoops
      <3> QED
        BY <3>3, <3>4 DEF OpenLoops
    <2> QED
      BY <2>1, <2>2
  <1>11. h \in S
    BY <1>5, <1>7 DEF OpenLoops, n
  <1>12. /\ Len(lo) = Tally(S, n) /\ \A q \in S : lo[Tally(S, q)] = Counter(c[q])
    BY DEF Looped, n
  <1> HIDE DEF S, U
  <1>13. h - 1 \in Nat /\ (h - 1) + 1 = h /\ h \in Nat /\ h <= n /\ n + 1 \in Nat
    BY <1>1, <1>7
  <1>14. Tally(S, n) = Tally(S, h)
    <2>1. \A q \in h + 1..n : q \notin S
      <3> TAKE q \in h + 1..n
      <3>1. q # h /\ ~(q < h)
        BY <1>1, <1>7
      <3> QED
        BY <1>9, <3>1
    <2> QED
      BY <1>1, <1>13, <2>1, TallyRest
  <1>15. Tally(S, h) = Tally(S, h - 1) + 1 /\ Tally(S, h - 1) \in Nat
    <2>1. /\ Tally(S, h - 1) \in Nat
          /\ (h - 1) + 1 \in S => Tally(S, (h - 1) + 1) = Tally(S, h - 1) + 1
      BY <1>13, TallyStep
    <2> QED
      BY <1>11, <1>13, <2>1
  <1>16. \A q \in 0..h - 1 : Tally(U, q) = Tally(S, q)
    <2> TAKE q \in 0..h - 1
    <2>1. \A j \in 1..q : j # h
      BY <1>13
    <2>2. \A j \in 1..q : j \in U <=> j \in S
      BY <1>10, <2>1
    <2> QED
      BY <2>2, TallyAgree
  <1>17. Tally(U, n + 1) = Tally(U, h - 1)
    <2>1. \A q \in (h - 1) + 1..n + 1 : q \notin U
      <3> TAKE q \in (h - 1) + 1..n + 1
      <3>1. ~(q < h)
        BY <1>1, <1>13
      <3> QED
        BY <1>9, <1>10, <3>1
    <2>2. h - 1 <= n + 1
      BY <1>1, <1>13
    <2> QED
      BY <1>13, <2>1, <2>2, TallyRest
  <1>18. h - 1 \in 0..h - 1
    BY <1>13
  <1>19. Tally(U, n + 1) = Len(lo) - 1 /\ Len(lo) \in Nat /\ Len(lo) > 0
    BY <1>12, <1>14, <1>15, <1>16, <1>17, <1>18
  <1>20. Len(k) = Len(lo) - 1 /\ \A j \in 1..Len(lo) - 1 : k[j] = lo[j]
    <2>1. Len(lo) - 1 \in 0..Len(lo)
      BY <1>19
    <2> QED
      BY <2>1, CutEntries DEF Front
  <1> HIDE DEF k
  <1>21. ASSUME NEW q \in U PROVE k[Tally(U, q)] = Counter(d[q])
    <2>1. q \in S /\ q # h /\ q < h /\ q \in 1..n /\ d[q] = c[q]
      BY <1>1, <1>8, <1>9, <1>10
    <2>2. q \in 0..h - 1 /\ q \in Nat /\ q - 1 \in Nat /\ (q - 1) + 1 = q /\ q <= h - 1
      BY <1>13, <2>1
    <2>3. Tally(S, q) = Tally(S, q - 1) + 1 /\ Tally(S, q - 1) \in Nat
      <3>1. /\ Tally(S, q - 1) \in Nat
            /\ (q - 1) + 1 \in S => Tally(S, (q - 1) + 1) = Tally(S, q - 1) + 1
        BY <2>2, TallyStep
      <3> QED
        BY <2>1, <2>2, <3>1
    <2>4. Tally(S, q) <= Tally(S, h - 1)
      BY <1>13, <2>2, TallyGrows
    <2>5. Tally(S, q) \in 1..Len(lo) - 1
      BY <1>12, <1>14, <1>15, <1>19, <2>3, <2>4
    <2> QED
      BY <1>12, <1>16, <1>20, <2>1, <2>2, <2>5
  <1>22. Looped(k, d)
    BY <1>1, <1>19, <1>20, <1>21 DEF Looped, U
  <1> QED
    BY <1>22 DEF d, k

----------------------------------------------------------------------------
(***************************************************************************)
(* Every step of the reader keeps the counting of ranges in order.         *)
(***************************************************************************)
Timing(lo, c) == Tidy(c) /\ Calm(c) /\ Looped(lo, c)
TimelyStep == verdict' = "rejected" \/ Timing(loops', code')

(* Operations that neither count, continue or close, nor open a loop.      *)
PlainOps == OpNames \ ({"inc", "continue", "close", "scope", "range"} \cup Loops)

(* They are told apart by their operations.                                *)
LEMMA PlainIs ==
  /\ Simple \cup {"bind", "return", "temp", "hoist", "if", "elseif", "else"} \subseteq PlainOps
  /\ {"if", "elseif", "else", "scope"} \cap Loops = {}
  /\ \A op \in PlainOps : op \notin {"inc", "continue", "close", "scope", "range"} \cup Loops
  /\ \A op \in PlainOps : op \in Declaring => op = "bind"
  <1>1. Simple \cup {"bind", "return", "temp", "hoist", "if", "elseif", "else"} \subseteq PlainOps
    BY Zenon DEF PlainOps, OpNames, Simple, Openings, Loops
  <1>2. {"if", "elseif", "else", "scope"} \cap Loops = {}
    BY Zenon DEF Loops
  <1>3. \A op \in PlainOps : op \notin {"inc", "continue", "close", "scope", "range"} \cup Loops
    BY Zenon DEF PlainOps
  <1>4. \A op \in PlainOps : op \in Declaring => op = "bind"
    BY Zenon DEF PlainOps, Declaring, Loops
  <1> QED
    BY <1>1, <1>2, <1>3, <1>4

(* One of them is appended.                                                *)
LEMMA TimingLine ==
  ASSUME NEW lo, NEW c \in Seq(Line), Timing(lo, c), NEW i \in Line, i.op \in PlainOps,
         i.op = "bind" => \A q \in Visible(c) : c[q].x # i.x
  PROVE  Timing(lo, Append(c, i)) /\ Append(c, i) \in Seq(Line)
  <1>1. /\ i.op \notin {"inc", "continue", "close", "scope", "range"} \cup Loops
        /\ i.op \in Declaring => i.op = "bind"
    BY PlainIs
  <1>2. /\ i.op # "inc" /\ i.op # "continue" /\ i.op # "close" /\ i.op \notin Loops
        /\ i.op \notin {"scope", "range"} /\ i.op # "range"
    BY <1>1, Zenon
  <1>3. Tidy(Append(c, i))
    BY <1>1, <1>2, TidyAppend DEF Timing
  <1>4. Looped(lo, Append(c, i))
    BY <1>2, LoopedFlat DEF Timing
  <1>5. Append(c, i) \in Seq(Line) /\ Append(c, i)[Len(Append(c, i))] = i
    BY SameAppend
  <1>6. Calm(Append(c, i))
    BY <1>2, <1>5 DEF Calm
  <1> QED
    BY <1>3, <1>4, <1>5, <1>6 DEF Timing

(* What computes a condition.                                              *)
LEMMA TimingPrepared ==
  ASSUME NEW lo, NEW c \in Seq(Line), Timing(lo, c), NEW t \in Tokens
  PROVE  Timing(lo, Prepared(c, t)) /\ Prepared(c, t) \in Seq(Line)
  <1>1. \/ Prepared(c, t) = c
        \/ Prepared(c, t) = Append(c, Instr("hoist", t.x))
    BY HoistedIs
  <1>2. CASE Prepared(c, t) = c
    BY <1>2
  <1>3. CASE Prepared(c, t) = Append(c, Instr("hoist", t.x))
    <2>1. "hoist" \in PlainOps /\ "hoist" # "bind" /\ "hoist" \in OpNames /\ t.x \in NameOrNone
      <3>1. "hoist" # "bind"
        BY Zenon
      <3> QED
        BY <3>1, PlainIs, TokenNames DEF PlainOps
    <2> DEFINE i == Instr("hoist", t.x)
    <2>2. i \in Line /\ i.op = "hoist"
      BY <2>1, LinesAre
    <2> HIDE DEF i
    <2>3. Timing(lo, Append(c, i)) /\ Append(c, i) \in Seq(Line)
      BY <2>1, <2>2, TimingLine
    <2> QED
      BY <1>3, <2>3 DEF i
  <1> QED
    BY <1>1, <1>2, <1>3

(* A block that is no range is closed.                                     *)
LEMMA TimingClose ==
  ASSUME NEW c \in Seq(Line), Tidy(c), Calm(c), NEW i \in Line, i.op = "close",
         \A h \in 1..Len(c) : Open(c, h, Bal(c, Len(c))) => c[h].op # "range"
  PROVE  Tidy(Append(c, i)) /\ Calm(Append(c, i)) /\ Append(c, i) \in Seq(Line)
  <1>1. /\ i.op \in {"continue", "close"} /\ i.op # "continue" /\ i.op \notin Declaring
        /\ i.op \notin {"scope", "range"} /\ i.op # "range" /\ i.op # "inc"
    BY Zenon DEF Declaring
  <1>2. ASSUME NEW h \in 1..Len(c), Open(c, h, Bal(c, Len(c)))
        PROVE  Advances(c, h, Len(c) + 1)
    <2>1. Len(c) > 0 /\ (Len(c) + 1) - 1 = Len(c)
      OBVIOUS
    <2>2. c[(Len(c) + 1) - 1].op # "inc"
      BY <2>1 DEF Calm
    <2> QED
      BY <1>2, <2>2 DEF Advances
  <1>3. Tidy(Append(c, i))
    BY <1>1, <1>2, TidyAppend
  <1>4. Append(c, i) \in Seq(Line) /\ Append(c, i)[Len(Append(c, i))] = i
    BY SameAppend
  <1>5. Calm(Append(c, i))
    BY <1>1, <1>4 DEF Calm
  <1> QED
    BY <1>3, <1>4, <1>5

(* A loop is opened.                                                       *)
LEMMA TimingLoop ==
  ASSUME NEW lo \in Seq(NameOrNone), NEW c \in Seq(Line), Tidy(c), Calm(c), Looped(lo, c),
         NEW i \in Line, i.op \in Loops,
         i.op = "each" => \A q \in Visible(c) : c[q].x # i.x,
         i.op = "range" => /\ i.x \in Name /\ i.x # NoName /\ Len(c) > 0
                           /\ IsLine(c[Len(c)], "scope", i.x),
         NEW x, x = IF i.op = "range" THEN i.x ELSE NoName
  PROVE  Timing(Append(lo, x), Append(c, i))
  <1>1. /\ i.op # "continue" /\ i.op # "close" /\ i.op # "inc" /\ i.op # "scope"
        /\ i.op \in Declaring => i.op = "each"
        /\ i.op \in {"scope", "range"} => i.op = "range"
    BY Zenon DEF Loops, Declaring
  <1>2. Tidy(Append(c, i))
    BY <1>1, TidyAppend
  <1>3. x \in NameOrNone /\ x = Counter(i)
    <2>1. NoName \in NameOrNone
      BY NoneIs DEF NoName
    <2> QED
      BY <2>1 DEF Counter, Line
  <1>4. Looped(Append(lo, x), Append(c, i))
    BY <1>3, LoopedOpen
  <1>5. Append(c, i) \in Seq(Line) /\ Append(c, i)[Len(Append(c, i))] = i
    BY SameAppend
  <1>6. Calm(Append(c, i))
    BY <1>1, <1>5 DEF Calm
  <1> QED
    BY <1>2, <1>4, <1>6 DEF Timing

(* A name that the table does not hold is declared nowhere in sight.       *)
LEMMA AgreeUnseen ==
  ASSUME NEW l, NEW c, Agree(l, c), NEW x, \A k \in 1..Len(l) : l[k].name # x
  PROVE  \A q \in Visible(c) : c[q].x # x
  <1> SUFFICES ASSUME NEW q \in Visible(c), c[q].x = x PROVE FALSE
    OBVIOUS
  <1>1. PICK k \in 1..Len(l) : c[q].x = l[k].name
    BY DEF Agree
  <1> QED
    BY <1>1

(* The line that opened the innermost block.                               *)
LEMMA TopHead ==
  ASSUME Hold, Last(blocks).kind \notin {"fn", "match"}
  PROVE  /\ \A h \in 1..Len(code) : Open(code, h, Bal(code, Len(code))) =>
              IsHead(code[h].op, Last(blocks))
         /\ \A h \in 1..Len(code) :
              Open(code, h, Bal(code, Len(code)) - 1) /\ Last(blocks).kind = "range" =>
                code[h].op = "scope"
         /\ \E h \in 1..Len(code) : Open(code, h, Bal(code, Len(code)))
         /\ Bal(code, Len(code)) > 0
  <1>1. /\ Sound(blocks, code, Owed(blocks)) /\ Lev(blocks, Len(blocks)) = Bal(code, Len(code))
        /\ Last(blocks) = blocks[Len(blocks)] /\ Len(blocks) \in 1..Len(blocks)
        /\ blocks \in Seq(BlockType) /\ code \in Seq(Line)
    BY HoldIs
  <1>2. PICK L, P : Flow(blocks, code, L, P, Owed(blocks))
    BY <1>1 DEF Sound
  <1>3. HeadOf(blocks, Len(blocks), code, L, P)
    BY <1>1, <1>2 DEF Flow
  <1>4. Last(blocks).kind # "fn"
    BY Zenon
  <1>5. Len(blocks) > 1
    BY <1>4, HoldIs, StandIs
  <1>6. Bal(code, Len(code)) > 0
    BY <1>1, <1>5, TopLevel
  <1>7. \E h \in 1..Len(code) : Open(code, h, Bal(code, Len(code)))
    BY <1>1, <1>6, LastOpens
  <1> QED
    BY <1>1, <1>3, <1>6, <1>7, Zenon DEF HeadOf

(* What a rejection leaves.                                                *)
LEMMA RefusedTimely ==
  ASSUME Refused
  PROVE  TimelyStep
  BY Zenon DEF Refused, TimelyStep

(* Statements of one line that opens no loop.                              *)
LEMMA LinesTimely ==
  ASSUME Hold, Agree(loc, code), Timing(loops, code), NEW t \in Tokens,
         \/ Use(t) \/ Set(t) \/ Del(t) \/ Break(t) \/ Ret(t) \/ Bind(t)
         \/ OpenMatch(t) \/ OpenCase(t) \/ OpenCaseElse(t)
  PROVE  TimelyStep
  <1>1. code \in Seq(Line) /\ Typed /\ verdict = "parse"
    BY HoldIs
  <1>2. ASSUME NEW i \in Line, i.op \in PlainOps, code' = Append(code, i), loops' = loops,
               i.op = "bind" => \A q \in Visible(code) : code[q].x # i.x
        PROVE  TimelyStep
    <2>1. Timing(loops, Append(code, i))
      BY <1>1, <1>2, TimingLine
    <2> QED
      BY <1>2, <2>1 DEF TimelyStep
  <1>3. ASSUME NEW i \in Line, i.op \in PlainOps, i.op # "bind", code' = Append(code, i),
               loops' = loops
        PROVE  TimelyStep
    BY <1>2, <1>3
  <1>4. CASE Use(t) \/ Set(t) \/ Del(t) \/ Break(t)
    <2>1. Refused \/ (loops' = loops /\ \E i \in Line : i.op \in Simple /\ code' = Append(code, i))
      BY <1>1, <1>4, FlatDoes
    <2>2. \A op \in Simple : op \in PlainOps /\ op # "bind"
      BY PlainIs, Zenon DEF Simple
    <2> QED
      BY <1>3, <2>1, <2>2, RefusedTimely
  <1>5. CASE Ret(t)
    <2>1. Refused \/ (loops' = loops /\ \E i \in Line : i.op = "return" /\ code' = Append(code, i))
      BY <1>1, <1>5, RetDoes
    <2>2. "return" \in PlainOps /\ "return" # "bind"
      BY PlainIs, Zenon
    <2> QED
      BY <1>3, <2>1, <2>2, RefusedTimely
  <1>6. CASE Bind(t)
    <2>1. \/ Refused
          \/ /\ loops' = loops /\ \A k \in 1..Len(loc) : loc[k].name # t.x
             /\ \E i \in Line : i.op = "bind" /\ i.x = t.x /\ code' = Append(code, i)
      BY <1>1, <1>6, BindDoes
    <2>2. "bind" \in PlainOps
      BY PlainIs, Zenon
    <2>3. ~Refused => \A q \in Visible(code) : code[q].x # t.x
      BY <2>1, AgreeUnseen
    <2> QED
      BY <1>2, <2>1, <2>2, <2>3, RefusedTimely
  <1>7. CASE OpenMatch(t)
    <2>1. loops' = loops /\ \E i \in Line : i.op = "temp" /\ code' = Append(code, i)
      BY <1>1, <1>7, MatchDoes
    <2>2. "temp" \in PlainOps /\ "temp" # "bind"
      BY PlainIs, Zenon
    <2> QED
      BY <1>3, <2>1, <2>2
  <1>8. CASE OpenCase(t)
    <2>1. loops' = loops
          /\ \E i \in Line : /\ i.op = (IF Last(blocks).hasCase THEN "elseif" ELSE "if")
                             /\ code' = Append(code, i)
      BY <1>1, <1>8, CaseDoes
    <2>2. /\ (IF Last(blocks).hasCase THEN "elseif" ELSE "if") \in PlainOps
          /\ (IF Last(blocks).hasCase THEN "elseif" ELSE "if") # "bind"
      BY PlainIs, Zenon
    <2> QED
      BY <1>3, <2>1, <2>2
  <1>9. CASE OpenCaseElse(t)
    <2>1. loops' = loops /\ \E i \in Line : i.op = "else" /\ code' = Append(code, i)
      BY <1>1, <1>9, CaseElseDoes
    <2>2. "else" \in PlainOps /\ "else" # "bind"
      BY PlainIs, Zenon
    <2> QED
      BY <1>3, <2>1, <2>2
  <1> QED
    BY <1>4, <1>5, <1>6, <1>7, <1>8, <1>9

(* The advance of a range's variable.                                      *)
LEMMA TimingInc ==
  ASSUME NEW lo, NEW c \in Seq(Line), Timing(lo, c), NEW i \in Line, i.op = "inc"
  PROVE  LET d == Append(c, i)
         IN  /\ d \in Seq(Line) /\ Tidy(d) /\ Looped(lo, d)
             /\ Len(d) > 0 /\ d[Len(d)] = i /\ Len(d) = Len(c) + 1
             /\ Bal(d, Len(d)) = Bal(c, Len(c))
             /\ \A q \in 1..Len(c) : d[q] = c[q]
             /\ \A q \in 1..Len(d) : \A k : Open(d, q, k) => q \in 1..Len(c) /\ Open(c, q, k)
  <1>1. /\ i.op # "continue" /\ i.op # "close" /\ i.op \notin Declaring
        /\ i.op \notin {"scope", "range"} /\ i.op # "range" /\ i.op \notin Loops
        /\ i.op \notin Openings
    BY Zenon DEF Declaring, Loops, Openings
  <1>2. Tidy(Append(c, i))
    BY <1>1, TidyAppend DEF Timing
  <1>3. Looped(lo, Append(c, i))
    BY <1>1, LoopedFlat DEF Timing
  <1>4. /\ Append(c, i) \in Seq(Line) /\ Len(Append(c, i)) = Len(c) + 1
        /\ Append(c, i)[Len(c) + 1] = i /\ Len(c) \in Nat
        /\ \A q \in 1..Len(c) : Append(c, i)[q] = c[q]
    BY SameAppend DEF Same
  <1>5. Bal(Append(c, i), Len(c) + 1) = Bal(c, Len(c))
    BY <1>1, BalAppend
  <1>6. ASSUME NEW q \in 1..Len(c) + 1, NEW k, Open(Append(c, i), q, k)
        PROVE  q \in 1..Len(c) /\ Open(c, q, k)
    <2>1. q # Len(c) + 1
      BY <1>1, <1>6, OpenSame
    <2>2. q \in 1..Len(c)
      BY <1>4, <2>1
    <2> QED
      BY <1>6, <2>2, OpenSame
  <1> QED
    BY <1>2, <1>3, <1>4, <1>5, <1>6

(* A `continue`, with the advance of its range in front of it.             *)
LEMMA TimingContinue ==
  ASSUME NEW lo \in Seq(NameOrNone), NEW c \in Seq(Line), Tidy(c), Looped(lo, c),
         IF Len(lo) > 0 /\ Last(lo) # NoName
           THEN Len(c) > 0 /\ IsLine(c[Len(c)], "inc", Last(lo)) ELSE Calm(c),
         NEW i \in Line, i.op = "continue"
  PROVE  Timing(lo, Append(c, i))
  <1>1. /\ i.op \in {"continue", "close"} /\ i.op # "close" /\ i.op \notin Declaring
        /\ i.op \notin {"scope", "range"} /\ i.op # "range" /\ i.op \notin Loops /\ i.op # "inc"
    BY Zenon DEF Declaring, Loops
  <1>2. ASSUME NEW h \in 1..Len(c), Inner(c, h, Len(c) + 1)
        PROVE  Advances(c, h, Len(c) + 1)
    <2>1. h \in OpenLoops(c) /\ \A g \in h + 1..Len(c) : g \notin OpenLoops(c)
      BY <1>2, InnerOpen
    <2>2. Len(lo) > 0 /\ Last(lo) = Counter(c[h])
      BY <2>1, LastLooped
    <2>3. (Len(c) + 1) - 1 = Len(c) /\ Len(c) > 0
      OBVIOUS
    <2>4. CASE Last(lo) # NoName
      <3>1. c[h].op = "range" /\ c[h].x = Last(lo)
        BY <2>2, <2>4 DEF Counter
      <3>2. IsLine(c[(Len(c) + 1) - 1], "inc", c[h].x)
        BY <2>2, <2>3, <2>4, <3>1
      <3> QED
        BY <3>1, <3>2 DEF Advances
    <2>5. CASE Last(lo) = NoName
      <3>1. c[h].op # "range"
        <4>1. c[h].op \in {"scope", "range"} => c[h].x # NoName
          BY DEF Tidy, Timed
        <4> QED
          BY <2>2, <2>5, <4>1 DEF Counter
      <3>2. c[(Len(c) + 1) - 1].op # "inc"
        BY <2>3, <2>5 DEF Calm
      <3> QED
        BY <3>1, <3>2 DEF Advances
    <2> QED
      BY <2>4, <2>5
  <1>3. Tidy(Append(c, i))
    BY <1>1, <1>2, TidyAppend
  <1>4. Looped(lo, Append(c, i))
    BY <1>1, LoopedFlat
  <1>5. Append(c, i)[Len(Append(c, i))] = i
    BY SameAppend
  <1>6. Calm(Append(c, i))
    BY <1>1, <1>5 DEF Calm
  <1> QED
    BY <1>3, <1>4, <1>6 DEF Timing

(* A `continue` of the body.                                              *)
LEMMA ContinueTimely ==
  ASSUME Hold, Timing(loops, code), NEW t \in Tokens, Continue(t)
  PROVE  TimelyStep
  <1>1. code \in Seq(Line) /\ loops \in Seq(NameOrNone)
    BY HoldIs
  <1> DEFINE i == Bare("continue")
             h == Instr("inc", Last(loops))
  <1>2. /\ loops' = loops
        /\ IF loops # <<>> /\ Last(loops) # NoName
             THEN code' = code \o <<h, i>> ELSE code' = code \o <<i>>
    BY Zenon DEF Continue, Emit, NoName, Bare
  <1>3. "continue" \in OpNames /\ "inc" \in OpNames
    BY Zenon DEF OpNames
  <1>4. i \in Line /\ i.op = "continue"
    BY <1>1, <1>3, BareLines
  <1> HIDE DEF i
  <1>5. loops # <<>> <=> Len(loops) > 0
    <2> HIDE DEF NameOrNone
    <2> QED
      BY <1>1
  <1>6. CASE Len(loops) > 0 /\ Last(loops) # NoName
    <2>1. Last(loops) \in NameOrNone
      <3>1. Len(loops) \in 1..Len(loops)
        BY <1>1, <1>6
      <3> QED
        BY <1>1, <3>1 DEF Last
    <2>2. h \in Line /\ h.op = "inc" /\ h.x = Last(loops)
      BY <1>3, <2>1, InstrIs
    <2> HIDE DEF h
    <2>3. code' = Append(Append(code, h), i)
      <3>1. code' = code \o <<h, i>>
        BY <1>2, <1>5, <1>6
      <3> QED
        BY <1>1, <1>4, <2>2, <3>1, EmitOne
    <2> DEFINE d == Append(code, h)
    <2>4. /\ d \in Seq(Line) /\ Tidy(d) /\ Looped(loops, d) /\ Len(d) > 0 /\ d[Len(d)] = h
      BY <1>1, <2>2, TimingInc
    <2> HIDE DEF d
    <2>5. IsLine(d[Len(d)], "inc", Last(loops))
      BY <2>2, <2>4 DEF IsLine
    <2>6. Timing(loops, Append(d, i))
      BY <1>1, <1>4, <1>6, <2>4, <2>5, TimingContinue
    <2> QED
      BY <1>2, <2>3, <2>6 DEF TimelyStep, d
  <1>7. CASE ~(Len(loops) > 0 /\ Last(loops) # NoName)
    <2>1. code' = Append(code, i)
      <3>1. code' = code \o <<i>>
        BY <1>2, <1>5, <1>7
      <3> QED
        BY <1>1, <1>4, <3>1, EmitOne
    <2>2. Tidy(code) /\ Looped(loops, code) /\ Calm(code)
      BY DEF Timing
    <2>3. Timing(loops, Append(code, i))
      BY <1>1, <1>4, <1>7, <2>2, TimingContinue
    <2> QED
      BY <1>2, <2>1, <2>3 DEF TimelyStep
  <1> QED
    BY <1>6, <1>7

(* If, while and loop.                                                     *)
LEMMA OpenTimely ==
  ASSUME Hold, Timing(loops, code), NEW t \in Tokens,
         OpenIf(t) \/ OpenWhile(t) \/ OpenLoop(t)
  PROVE  TimelyStep
  <1>1. code \in Seq(Line) /\ loops \in Seq(NameOrNone)
    BY HoldIs
  <1>2. Timing(loops, Prepared(code, t)) /\ Prepared(code, t) \in Seq(Line)
    BY <1>1, TimingPrepared
  <1>3. ASSUME NEW c \in Seq(Line), Timing(loops, c),
               NEW i \in Line, i.op \in {"while", "loop"}, code' = Append(c, i),
               loops' = Append(loops, NoName)
        PROVE  TimelyStep
    <2>1. i.op \in Loops /\ i.op # "each" /\ i.op # "range"
      BY <1>3, Zenon DEF Loops
    <2>2. Tidy(c) /\ Calm(c) /\ Looped(loops, c)
      BY <1>3 DEF Timing
    <2>3. NoName = IF i.op = "range" THEN i.x ELSE NoName
      BY <2>1
    <2>4. Timing(Append(loops, NoName), Append(c, i))
      BY <1>1, <2>1, <2>2, <2>3, TimingLoop
    <2> QED
      BY <1>3, <2>4 DEF TimelyStep
  <1>4. ASSUME NEW i \in Line PROVE code \o Append(Hoisted(t), i) = Append(Prepared(code, t), i)
    BY <1>1, EmitPrepared
  <1>5. "if" \in OpNames /\ "while" \in OpNames /\ "loop" \in OpNames
    BY KindsAre, Zenon
  <1>6. CASE OpenIf(t)
    <2> DEFINE i == Bare("if")
    <2>1. \/ Reject
          \/ Emit(Append(Hoisted(t), i)) /\ loops' = loops
      BY <1>6, Zenon DEF OpenIf, Bare
    <2>2. i \in Line /\ i.op = "if"
      BY <1>1, <1>5, BareLines
    <2> HIDE DEF i
    <2>3. Reject => TimelyStep
      BY Zenon DEF Reject, TimelyStep
    <2>4. "if" \in PlainOps /\ "if" # "bind"
      BY PlainIs, Zenon
    <2>5. Timing(loops, Append(Prepared(code, t), i))
      BY <1>2, <2>2, <2>4, TimingLine
    <2>6. ~Reject => code' = Append(Prepared(code, t), i) /\ loops' = loops
      BY <1>4, <2>1, <2>2 DEF Emit
    <2> QED
      BY <2>3, <2>5, <2>6 DEF TimelyStep
  <1>7. CASE OpenWhile(t)
    <2> DEFINE i == Bare("while")
    <2>1. \/ Reject
          \/ Emit(Append(Hoisted(t), i)) /\ loops' = Append(loops, NoName)
      BY <1>7, Zenon DEF OpenWhile, Bare, NoName
    <2>2. i \in Line /\ i.op = "while"
      BY <1>1, <1>5, BareLines
    <2> HIDE DEF i
    <2>3. Reject => TimelyStep
      BY Zenon DEF Reject, TimelyStep
    <2>4. ~Reject => code' = Append(Prepared(code, t), i) /\ loops' = Append(loops, NoName)
      BY <1>4, <2>1, <2>2 DEF Emit
    <2> QED
      BY <1>2, <1>3, <2>2, <2>3, <2>4
  <1>8. CASE OpenLoop(t)
    <2> DEFINE i == Instr("loop", t.x)
    <2>1. \/ Reject
          \/ Emit(<<i>>) /\ loops' = Append(loops, NoName)
      BY <1>8, Zenon DEF OpenLoop, NoName
    <2>2. i \in Line /\ i.op = "loop"
      BY <1>1, <1>5, TokenNames, InstrIs
    <2> HIDE DEF i
    <2>3. Reject => TimelyStep
      BY Zenon DEF Reject, TimelyStep
    <2>4. code \o <<i>> = Append(code, i)
      BY <1>1, <2>2, EmitOne
    <2>5. ~Reject => code' = Append(code, i) /\ loops' = Append(loops, NoName)
      BY <2>1, <2>4 DEF Emit
    <2> QED
      BY <1>1, <1>3, <2>2, <2>3, <2>5
  <1> QED
    BY <1>6, <1>7, <1>8

(* For each.                                                               *)
LEMMA EachTimely ==
  ASSUME Hold, Agree(loc, code), Timing(loops, code), NEW t \in Tokens, OpenEach(t)
  PROVE  TimelyStep
  <1>1. code \in Seq(Line) /\ loops \in Seq(NameOrNone) /\ Typed /\ verdict = "parse"
    BY HoldIs
  <1>2. \/ Refused
        \/ /\ \A k \in 1..Len(loc) : loc[k].name # t.x
           /\ loops' = Append(loops, NoName)
           /\ \E i \in Line : i.op = "each" /\ i.x = t.x /\ code' = Append(code, i)
    BY <1>1, EachDoes, Zenon DEF NoName
  <1>3. CASE ~Refused
    <2> DEFINE x == t.x
    <2>9. \A k \in 1..Len(loc) : loc[k].name # x
      BY <1>2, <1>3, Zenon
    <2> HIDE DEF x
    <2>10. \A q \in Visible(code) : code[q].x # x
      BY <2>9, AgreeUnseen, Zenon
    <2>1. \A q \in Visible(code) : code[q].x # t.x
      BY <2>10 DEF x
    <2>2. PICK i \in Line : i.op = "each" /\ i.x = t.x /\ code' = Append(code, i)
      BY <1>2, <1>3
    <2>3. i.op \in Loops /\ i.op # "range"
      BY <2>2, Zenon DEF Loops
    <2>4. \A q \in Visible(code) : code[q].x # i.x
      BY <2>1, <2>2
    <2>5. Tidy(code) /\ Calm(code) /\ Looped(loops, code)
      BY DEF Timing
    <2>6. NoName = IF i.op = "range" THEN i.x ELSE NoName
      BY <2>3
    <2>7. Timing(Append(loops, NoName), Append(code, i))
      BY <1>1, <2>3, <2>4, <2>5, <2>6, TimingLoop
    <2> QED
      BY <1>2, <1>3, <2>2, <2>7 DEF TimelyStep
  <1> QED
    BY <1>3, RefusedTimely

(* A range: the block that declares its variable, and the loop.            *)
LEMMA RangeTimely ==
  ASSUME Hold, Agree(loc, code), Timing(loops, code), NEW t \in Tokens, OpenRange(t)
  PROVE  TimelyStep
  <1>1. /\ code \in Seq(Line) /\ loops \in Seq(NameOrNone) /\ Typed /\ verdict = "parse"
        /\ loc \in Seq(Local)
    BY HoldIs DEF Typed
  <1>2. t.k = "range"
    BY Zenon DEF OpenRange, Statement
  <1>3. /\ t.x \in NameOrNone /\ t.x \in Name /\ "scope" \in OpNames /\ "range" \in OpNames
        /\ t.x # NoName
    <2>1. t.k \in {"bind", "range", "each"}
      BY <1>2, Zenon
    <2>2. t.x # NoName
      BY <2>1, StatementAssumption, Zenon DEF NoName
    <2> QED
      BY <2>1, <2>2, TokenNames, KindsAre, Zenon
  <1> DEFINE i == Instr("scope", t.x)
             j == Instr("range", t.x)
  <1>4. i \in Line /\ i.op = "scope" /\ i.x = t.x /\ j \in Line /\ j.op = "range" /\ j.x = t.x
    BY <1>3, InstrIs
  <1>5. \/ Reject
        \/ Find(t.x) = {} /\ Emit(<<i, j>>) /\ loops' = Append(loops, t.x)
    BY Zenon DEF OpenRange
  <1> HIDE DEF i, j
  <1>6. CASE Reject
    BY <1>6, Zenon DEF Reject, TimelyStep
  <1>7. CASE ~Reject
    <2>1. code' = Append(Append(code, i), j) /\ loops' = Append(loops, t.x) /\ Find(t.x) = {}
      <3>1. code \o <<i, j>> = Append(Append(code, i), j)
        BY <1>1, <1>4, EmitOne
      <3> QED
        BY <1>5, <1>7, <3>1 DEF Emit
    <2>2. \A q \in Visible(code) : code[q].x # t.x
      <3>1. \A k \in 1..Len(loc) : loc[k].name # t.x
        BY <1>1, <1>3, <2>1, EnteredIs
      <3> QED
        BY <3>1, AgreeUnseen
    <2>3. /\ i.op \in Declaring /\ i.op # "continue" /\ i.op # "close" /\ i.op # "range"
          /\ i.op \notin Loops /\ i.op # "inc"
      BY <1>4, Zenon DEF Declaring, Loops
    <2>4. Tidy(code) /\ Calm(code) /\ Looped(loops, code)
      BY DEF Timing
    <2> DEFINE d == Append(code, i)
    <2>5. d \in Seq(Line) /\ Len(d) > 0 /\ d[Len(d)] = i
      BY <1>1, <1>4, SameAppend
    <2>6. Tidy(d)
      <3>1. \A q \in Visible(code) : code[q].x # i.x
        BY <1>4, <2>2
      <3>2. i.x \in Name /\ i.x # NoName
        BY <1>3, <1>4
      <3> QED
        BY <1>1, <1>4, <2>3, <2>4, <3>1, <3>2, TidyAppend
    <2>7. Looped(loops, d)
      BY <1>1, <1>4, <2>3, <2>4, LoopedFlat
    <2> HIDE DEF d
    <2>8. Calm(d)
      BY <2>3, <2>5 DEF Calm
    <2>9. j.op \in Loops /\ j.op # "each"
      BY <1>4, Zenon DEF Loops
    <2>10. j.x \in Name /\ j.x # NoName /\ IsLine(d[Len(d)], "scope", j.x)
      BY <1>3, <1>4, <2>5 DEF IsLine
    <2>11. t.x = IF j.op = "range" THEN j.x ELSE NoName
      BY <1>4
    <2>12. Timing(Append(loops, t.x), Append(d, j))
      BY <1>1, <1>4, <2>5, <2>6, <2>7, <2>8, <2>9, <2>10, <2>11, TimingLoop
    <2> QED
      BY <2>1, <2>12 DEF TimelyStep, d
  <1> QED
    BY <1>6, <1>7

(* The loop of the innermost block is the last that is open.               *)
LEMMA OpenTop ==
  ASSUME NEW c \in Seq(Line), NEW h \in 1..Len(c), Open(c, h, Bal(c, Len(c))),
         c[h].op \in Loops
  PROVE  h \in OpenLoops(c) /\ \A g \in h + 1..Len(c) : g \notin OpenLoops(c)
  <1>1. Len(c) \in Nat
    OBVIOUS
  <1>2. Held(c, h) /\ Bal(c, h) = Bal(c, Len(c))
    BY DEF Open
  <1>3. h \in OpenLoops(c)
    BY <1>2 DEF OpenLoops
  <1>4. ASSUME NEW g \in h + 1..Len(c), g \in OpenLoops(c) PROVE FALSE
    <2>1. c[g].op \in Openings /\ Held(c, g) /\ g \in 1..Len(c)
      BY <1>4, Zenon DEF OpenLoops, Openings
    <2>2. Bal(c, g) = Bal(c, g - 1) + 1
      BY <2>1, BalSteps
    <2>3. g - 1 \in h..Len(c) /\ Len(c) \in g..Len(c) /\ g \in Nat /\ g - 1 \in Nat
      BY <1>1
    <2>4. Bal(c, g - 1) \in Int /\ Bal(c, g) \in Int /\ Bal(c, Len(c)) \in Int
      BY <1>1, <2>3, BalSteps
    <2>5. Bal(c, g - 1) >= Bal(c, h) /\ Bal(c, Len(c)) >= Bal(c, g)
      BY <1>2, <2>1, <2>3 DEF Held
    <2> QED
      BY <1>2, <2>2, <2>4, <2>5
  <1> QED
    BY <1>3, <1>4

(* A branch is closed.                                                     *)
LEMMA TimingBranch ==
  ASSUME Hold, Timing(loops, code), Last(blocks).kind \in {"if", "case", "else"}
  PROVE  Timing(loops, Append(code, CloseLine)) /\ Append(code, CloseLine) \in Seq(Line)
  <1>1. code \in Seq(Line) /\ Tidy(code) /\ Calm(code) /\ Looped(loops, code)
    BY HoldIs DEF Timing
  <1>2. CloseLine \in Line /\ CloseLine.op = "close" /\ CloseLine.op \notin Loops
    BY <1>1, CloseLineIs, Zenon DEF Loops
  <1>3. Last(blocks).kind \notin {"fn", "match"}
    BY Zenon
  <1>4. ASSUME NEW h \in 1..Len(code), Open(code, h, Bal(code, Len(code)))
        PROVE  code[h].op # "range" /\ code[h].op \notin Loops
    <2>1. IsHead(code[h].op, Last(blocks))
      BY <1>3, <1>4, TopHead
    <2>2. code[h].op \in {"if", "elseif", "else"}
      BY <2>1, Zenon DEF IsHead
    <2> QED
      BY <2>2, Zenon DEF Loops
  <1>5. Tidy(Append(code, CloseLine)) /\ Calm(Append(code, CloseLine))
        /\ Append(code, CloseLine) \in Seq(Line)
    BY <1>1, <1>2, <1>4, TimingClose
  <1>6. Looped(loops, Append(code, CloseLine))
    BY <1>1, <1>2, <1>4, LoopedFlat
  <1> QED
    BY <1>5, <1>6 DEF Timing

(* The end of a branch of an if or of a match.                             *)
LEMMA ShutBranchTimely ==
  ASSUME Hold, Timing(loops, code), NEW t \in Tokens,
         CloseIf(t) \/ CloseCase(t) \/ CloseCaseElse(t)
  PROVE  TimelyStep
  <1>1. Typed /\ verdict = "parse"
    BY HoldIs
  <1>2. /\ loops' = loops /\ code' = Append(code, CloseLine)
        /\ Last(blocks).kind \in {"if", "case", "else"}
    BY <1>1, ShutIfDoes, ShutCaseDoes, ShutElseDoes, Zenon
  <1> QED
    BY <1>2, TimingBranch DEF TimelyStep

(* The next branch of an if.                                               *)
LEMMA BranchTimely ==
  ASSUME Hold, Timing(loops, code), NEW t \in Tokens, NextBranch(t)
  PROVE  TimelyStep
  <1>1. Typed /\ verdict = "parse"
    BY HoldIs
  <1>2. /\ loops' = loops /\ Last(blocks).kind = "if" /\ t.k \in {"else", "elseif"}
        /\ \/ verdict' = "rejected"
           \/ \E i \in Line : /\ i.op = t.k
                              /\ code' = Append(Prepared(Append(code, CloseLine), t), i)
    BY <1>1, BranchDoes, Zenon
  <1>3. Last(blocks).kind \in {"if", "case", "else"}
    BY <1>2, Zenon
  <1> DEFINE c == Append(code, CloseLine)
  <1>4. Timing(loops, c) /\ c \in Seq(Line)
    BY <1>3, TimingBranch
  <1> HIDE DEF c
  <1>5. Timing(loops, Prepared(c, t)) /\ Prepared(c, t) \in Seq(Line)
    BY <1>4, TimingPrepared
  <1>6. ASSUME NEW i \in Line, i.op = t.k, code' = Append(Prepared(c, t), i)
        PROVE  TimelyStep
    <2>1. i.op \in PlainOps /\ i.op # "bind"
      BY <1>2, <1>6, PlainIs, Zenon
    <2>2. Timing(loops, Append(Prepared(c, t), i))
      BY <1>5, <2>1, TimingLine
    <2> QED
      BY <1>2, <1>6, <2>2 DEF TimelyStep
  <1> QED
    BY <1>2, <1>6, Zenon DEF c, TimelyStep

(* The end of a loop that is no range.                                     *)
LEMMA ShutLoopTimely ==
  ASSUME Hold, Timing(loops, code), NEW t \in Tokens, CloseLoop(t)
  PROVE  TimelyStep
  <1>1. /\ Typed /\ verdict = "parse" /\ code \in Seq(Line) /\ loops \in Seq(NameOrNone)
        /\ Tidy(code) /\ Calm(code) /\ Looped(loops, code)
    BY HoldIs DEF Timing
  <1>2. /\ Last(blocks).kind \in {"while", "loop", "each"}
        /\ code' = Append(code, CloseLine) /\ loops' = Front(loops)
    BY <1>1, ShutLoopDoes, Zenon
  <1>3. CloseLine \in Line /\ CloseLine.op = "close"
    BY <1>1, CloseLineIs
  <1>4. Last(blocks).kind \notin {"fn", "match"} /\ Last(blocks).kind \in Loops
        /\ Last(blocks).kind # "range"
    BY <1>2, Zenon DEF Loops
  <1>5. ASSUME NEW h \in 1..Len(code), Open(code, h, Bal(code, Len(code)))
        PROVE  code[h].op # "range" /\ code[h].op \in Loops
    <2>1. IsHead(code[h].op, Last(blocks))
      BY <1>4, <1>5, TopHead
    <2>2. code[h].op = Last(blocks).kind
      BY <1>4, <2>1 DEF IsHead
    <2> QED
      BY <1>4, <2>2
  <1>6. Tidy(Append(code, CloseLine)) /\ Calm(Append(code, CloseLine))
    BY <1>1, <1>3, <1>5, TimingClose
  <1>7. PICK h \in 1..Len(code) : Open(code, h, Bal(code, Len(code)))
    BY <1>4, TopHead
  <1>8. Looped(Front(loops), Append(code, CloseLine))
    BY <1>1, <1>3, <1>5, <1>7, LoopedShut
  <1> QED
    BY <1>2, <1>6, <1>8 DEF TimelyStep, Timing

(* The end of a range: its variable is advanced, and both of its blocks    *)
(* are closed.                                                             *)
LEMMA ShutRangeTimely ==
  ASSUME Hold, Timing(loops, code), NEW t \in Tokens, CloseRange(t)
  PROVE  TimelyStep
  <1>1. /\ Typed /\ verdict = "parse" /\ code \in Seq(Line) /\ loops \in Seq(NameOrNone)
        /\ Stand(blocks, loc, loops, code) /\ Last(blocks).kind = "range"
    BY HoldIs, Zenon DEF CloseRange, Closing
  <1>2. Last(blocks).kind \in Loops /\ Last(blocks).kind \notin {"fn", "match"}
    BY <1>1, Zenon DEF Loops
  <1>3. Len(loops) > 0
    BY <1>1, <1>2, LoopsFront
  <1>4. /\ \A h \in 1..Len(code) : Open(code, h, Bal(code, Len(code))) => code[h].op = "range"
        /\ \A h \in 1..Len(code) : Open(code, h, Bal(code, Len(code)) - 1) =>
             code[h].op = "scope"
        /\ Bal(code, Len(code)) > 0
    <2>1. \A h \in 1..Len(code) : Open(code, h, Bal(code, Len(code))) =>
            IsHead(code[h].op, Last(blocks))
      BY <1>2, TopHead
    <2>2. \A h \in 1..Len(code) : IsHead(code[h].op, Last(blocks)) => code[h].op = "range"
      BY <1>1, <1>2 DEF IsHead
    <2>3. /\ \A h \in 1..Len(code) : Open(code, h, Bal(code, Len(code)) - 1) =>
               code[h].op = "scope"
          /\ Bal(code, Len(code)) > 0
      BY <1>1, <1>2, TopHead
    <2> QED
      BY <2>1, <2>2, <2>3
  <1>5. /\ loops' = Front(loops)
        /\ \E i \in Line : /\ i.op = "inc" /\ i.x = Last(loops)
                           /\ code' = Append(Append(Append(code, i), CloseLine), CloseLine)
    BY <1>1, <1>3, ShutRangeDoes
  <1>6. PICK i \in Line :
           /\ i.op = "inc" /\ i.x = Last(loops)
           /\ code' = Append(Append(Append(code, i), CloseLine), CloseLine)
    BY <1>5
  <1>7. /\ CloseLine \in Line /\ CloseLine.op = "close"
        /\ CloseLine.op \notin Loops /\ CloseLine.op \notin Openings
    BY <1>1, CloseLineIs, Zenon DEF Loops, Openings
  <1>8. "range" \in Loops /\ "scope" \notin Loops /\ "scope" # "range"
    BY Zenon DEF Loops
  <1> DEFINE c == Append(code, i)
             d == Append(c, CloseLine)
  <1>9. /\ c \in Seq(Line) /\ Tidy(c) /\ Looped(loops, c)
        /\ Len(c) > 0 /\ c[Len(c)] = i /\ Len(c) = Len(code) + 1
        /\ Bal(c, Len(c)) = Bal(code, Len(code))
        /\ \A q \in 1..Len(code) : c[q] = code[q]
        /\ \A q \in 1..Len(c) : \A k : Open(c, q, k) => q \in 1..Len(code) /\ Open(code, q, k)
    BY <1>1, <1>6, TimingInc
  <1> HIDE DEF c
  <1>10. ASSUME NEW h \in 1..Len(c), Open(c, h, Bal(c, Len(c)))
         PROVE  c[h].op = "range" /\ c[h].op \in Loops
    <2>1. h \in 1..Len(code) /\ Open(code, h, Bal(code, Len(code)))
      BY <1>9, <1>10
    <2>2. c[h].op = "range"
      BY <1>4, <1>9, <2>1
    <2> QED
      BY <1>8, <2>2
  <1>11. ASSUME NEW h \in 1..Len(c), Open(c, h, Bal(c, Len(c)))
         PROVE  Advances(c, h, Len(c) + 1)
    <2>1. c[h].op = "range" /\ c[h].op \in Loops
      BY <1>10, <1>11
    <2>2. h \in OpenLoops(c) /\ \A g \in h + 1..Len(c) : g \notin OpenLoops(c)
      BY <1>9, <1>11, <2>1, OpenTop
    <2>3. Last(loops) = Counter(c[h])
      BY <1>1, <1>9, <2>2, LastLooped
    <2>4. (Len(c) + 1) - 1 = Len(c)
      BY <1>9
    <2>5. IsLine(c[(Len(c) + 1) - 1], "inc", c[h].x)
      BY <1>6, <1>9, <2>1, <2>3, <2>4 DEF IsLine, Counter
    <2> QED
      BY <2>1, <2>5 DEF Advances
  <1>12. Tidy(d)
    <2>1. /\ CloseLine.op \in {"continue", "close"} /\ CloseLine.op # "continue"
          /\ CloseLine.op \notin Declaring /\ CloseLine.op \notin {"scope", "range"}
          /\ CloseLine.op # "range"
      BY <1>7, Zenon DEF Declaring
    <2> QED
      BY <1>7, <1>9, <1>11, <2>1, TidyAppend
  <1>13. PICK h \in 1..Len(c) : Open(c, h, Bal(c, Len(c)))
    <2>1. Bal(c, Len(c)) > 0
      BY <1>4, <1>9
    <2> QED
      BY <1>9, <2>1, LastOpens
  <1>14. Looped(Front(loops), d)
    BY <1>1, <1>7, <1>9, <1>10, <1>13, LoopedShut
  <1>15. /\ d \in Seq(Line) /\ Len(d) = Len(c) + 1 /\ d[Len(c) + 1] = CloseLine
         /\ \A q \in 1..Len(c) : d[q] = c[q]
    BY <1>7, <1>9, SameAppend DEF Same
  <1>16. Bal(d, Len(d)) = Bal(c, Len(c)) - 1
    BY <1>7, <1>9, <1>15, BalAppend
  <1>17. ASSUME NEW g \in 1..Len(d), Open(d, g, Bal(d, Len(d)))
         PROVE  d[g].op = "scope"
    <2>1. g \in 1..Len(c) \/ g = Len(c) + 1
      BY <1>7, <1>9, <1>17, OpenSame
    <2>2. g # Len(c) + 1
      BY <1>7, <1>9, <1>17, OpenSame
    <2>3. g \in 1..Len(c)
      BY <2>1, <2>2
    <2>4. Open(c, g, Bal(d, Len(d)))
      BY <1>7, <1>9, <1>17, <2>3, OpenSame
    <2>5. g \in 1..Len(code) /\ Open(code, g, Bal(code, Len(code)) - 1)
      BY <1>9, <1>16, <2>3, <2>4
    <2> QED
      BY <1>4, <1>9, <1>15, <2>3, <2>5
  <1>18. Calm(d)
    <2>1. CloseLine.op # "inc"
      BY <1>7, Zenon
    <2> QED
      BY <1>15, <2>1 DEF Calm
  <1> HIDE DEF d
  <1>19. \A g \in 1..Len(d) : Open(d, g, Bal(d, Len(d))) =>
           d[g].op # "range" /\ d[g].op \notin Loops
    BY <1>8, <1>17
  <1>20. Tidy(Append(d, CloseLine)) /\ Calm(Append(d, CloseLine))
    BY <1>7, <1>12, <1>15, <1>18, <1>19, TimingClose
  <1>21. Looped(Front(loops), Append(d, CloseLine))
    BY <1>7, <1>14, <1>15, <1>19, LoopedFlat
  <1> QED
    BY <1>5, <1>6, <1>20, <1>21 DEF TimelyStep, Timing, c, d

(* Every statement of a body.                                              *)
LEMMA StepTimely ==
  ASSUME Hold, Agree(loc, code), Timing(loops, code), Parse
  PROVE  TimelyStep
  <1>1. PICK t \in Tokens :
           \/ Bind(t) \/ Use(t) \/ Set(t) \/ Del(t)
           \/ Break(t) \/ Continue(t) \/ Ret(t)
           \/ OpenIf(t) \/ NextBranch(t) \/ OpenWhile(t) \/ OpenLoop(t)
           \/ OpenRange(t) \/ OpenEach(t)
           \/ OpenMatch(t) \/ OpenCase(t) \/ OpenCaseElse(t)
           \/ CloseIf(t) \/ CloseLoop(t) \/ CloseRange(t)
           \/ CloseCase(t) \/ CloseCaseElse(t) \/ CloseMatch(t) \/ CloseFunction(t)
    BY DEF Parse
  <1>2. CASE CloseMatch(t) \/ CloseFunction(t)
    <2>1. verdict = "parse"
      BY HoldIs
    <2>2. Refused \/ (loops' = loops /\ code' = code)
      BY <1>2, <2>1, ShutMatchDoes, ShutFunctionDoes
    <2> QED
      BY <2>2, RefusedTimely DEF TimelyStep
  <1>3. CASE ~(CloseMatch(t) \/ CloseFunction(t))
    BY <1>1, <1>3, LinesTimely, ContinueTimely, OpenTimely, EachTimely, RangeTimely,
       BranchTimely, ShutBranchTimely, ShutLoopTimely, ShutRangeTimely
  <1> QED
    BY <1>2, <1>3

(* What the reader knows of the ranges in the text.                        *)
Timer ==
  /\ verdict = "parse" => Scoped(blocks, loc, code) /\ Timing(loops, code)
  /\ verdict = "accepted" => Tidy(code)

(* It holds before the first token is read.                                *)
LEMMA TimerFirst ==
  ASSUME Init
  PROVE  Timer
  <1>1. code = <<>> /\ loops = <<>> /\ verdict = "parse"
    BY Zenon DEF Init
  <1>2. Scoped(blocks, loc, code)
    BY <1>1, FirstBlock
  <1>3. Len(code) = 0 /\ Len(loops) = 0 /\ 1..Len(code) = {}
    BY <1>1
  <1>4. OpenLoops(code) = {}
    BY <1>3 DEF OpenLoops
  <1>5. Tally(OpenLoops(code), 0) = 0
    BY TallyStep
  <1>6. Timing(loops, code)
    BY <1>3, <1>4, <1>5 DEF Timing, Tidy, Calm, Looped
  <1>7. verdict # "accepted"
    BY <1>1, Zenon
  <1> QED
    BY <1>2, <1>6, <1>7, Zenon DEF Timer

(* Every step of the reader keeps it.                                      *)
LEMMA TimerKept ==
  ASSUME Written, Timer, Shallow, [Parse]_vars
  PROVE  Timer'
  <1>1. Reading' /\ (verdict = "parse" => Scoped(blocks, loc, code))
        /\ (verdict' = "parse" => Scoped(blocks', loc', code'))
    BY ReadingKept DEF Timer, Written
  <1>2. CASE UNCHANGED vars
    <2>1. /\ blocks' = blocks /\ loc' = loc /\ code' = code /\ verdict' = verdict
          /\ loops' = loops
      BY <1>2, Zenon DEF vars
    <2> QED
      BY <1>1, <2>1 DEF Timer
  <1>3. CASE Parse
    <2>1. verdict = "parse"
      BY <1>3, StepReads
    <2>2. Hold /\ Agree(loc, code) /\ Timing(loops, code)
      BY <1>1, <2>1 DEF Written, Reading, Now, Hold, Timer, Scoped
    <2>3. TimelyStep
      BY <1>3, <2>2, StepTimely
    <2>4. CASE verdict' = "rejected"
      <3>1. verdict' # "parse" /\ verdict' # "accepted"
        BY <2>4, Zenon
      <3> QED
        BY <3>1, Zenon DEF Timer
    <2>5. CASE Timing(loops', code')
      BY <1>1, <2>5 DEF Timer, Timing
    <2> QED
      BY <2>3, <2>4, <2>5 DEF TimelyStep
  <1> QED
    BY <1>2, <1>3

----------------------------------------------------------------------------
(***************************************************************************)
(* What the variables of the entered ranges hold.                          *)
(***************************************************************************)

(* The body of the loop of line h does not set the variable of that line.  *)
Unset(h) == ~\E q \in h..Matching(h) : IsLine(code[q], "set", code[h].x)
Ranged(f) == code[f.at].op = "range" /\ Unset(f.at)

(* Control has just passed the advance of x.                               *)
Pending(p, x) == IF p > 1 /\ IsLine(code[p - 1], "inc", x) THEN 1 ELSE 0

(* An entered range has counted its finished iterations, and one more      *)
(* between the advance of its variable and its end.                        *)
Tracked(p, a, nm) ==
  \A k \in 2..Len(a) : Ranged(a[k]) =>
    nm[code[a[k].at].x] = a[k - 1].base + a[k].done + Pending(p, code[a[k].at].x)

(* At the head of a range its variable has the first value.                *)
Based(p, a, nm) ==
  p <= Len(code) /\ code[p].op = "range" /\ Len(a) > 0 /\ a[Len(a)].at = p - 1 =>
    nm[code[p].x] = a[Len(a)].base

Counting(p, a, nm) == Tracked(p, a, nm) /\ Based(p, a, nm)

(* Nothing has been advanced in front of most lines.                       *)
LEMMA PendingNone ==
  ASSUME Tidy(code), NEW p \in 1..Len(code), code[p].op \notin {"continue", "close"}
  PROVE  \A x : Pending(p, x) = 0
  <1>1. ~(p > 1 /\ code[p - 1].op = "inc")
    BY DEF Tidy, Timed
  <1> QED
    BY <1>1 DEF Pending, IsLine

(* Nor behind a line that does not advance.                                *)
LEMMA PendingAfter ==
  ASSUME Finished, NEW q \in 1..Len(code), code[q].op # "inc"
  PROVE  \A x : Pending(q + 1, x) = 0
  <1>1. (q + 1) - 1 = q
    BY FinishedIs
  <1> QED
    BY <1>1 DEF Pending, IsLine

(* Only one line opened the k-th of the blocks that are open at line p.    *)
LEMMA UnderOne ==
  ASSUME Finished, NEW p \in 1..Len(code) + 1, NEW k, NEW q, NEW r,
         Under(q, p, k), Under(r, p, k)
  PROVE  q = r
  <1>1. ASSUME NEW u, NEW v, Under(u, p, k), Under(v, p, k), u < v PROVE FALSE
    <2>1. /\ u \in 1..Len(code) /\ v \in 1..Len(code) /\ v < p /\ code[v].op \in Openings
          /\ Bal(code, v) = k /\ \A j \in u..p - 1 : Bal(code, j) >= k
      BY <1>1 DEF Under
    <2>2. Len(code) \in Nat
      BY FinishedIs
    <2>3. v - 1 \in u..p - 1 /\ v - 1 \in 0..Len(code)
      BY <1>1, <2>1, <2>2
    <2>4. Bal(code, v) = Bal(code, v - 1) + 1 /\ Bal(code, v - 1) \in Int
      BY <2>1, <2>3, FinishedIs
    <2>5. Bal(code, v - 1) >= k
      BY <2>1, <2>3
    <2> QED
      BY <2>1, <2>4, <2>5
  <1>2. q \in Int /\ r \in Int
    BY FinishedIs DEF Under
  <1>3. ~(q < r) /\ ~(r < q)
    BY <1>1
  <1> QED
    BY <1>2, <1>3

(* The head of a range stands in the block that declares its variable.     *)
LEMMA TopScope ==
  ASSUME Finished, Tidy(code), NEW p \in 1..Len(code), NEW a, Nest(p, a),
         code[p].op = "range"
  PROVE  Len(a) > 0 /\ a[Len(a)].at = p - 1
  <1>1. p > 1 /\ IsLine(code[p - 1], "scope", code[p].x)
    BY DEF Tidy, Timed
  <1>2. code[p - 1].op \in Openings
    BY <1>1, Zenon DEF IsLine, Openings
  <1>3. p - 1 \in 1..Len(code) /\ (p - 1) - 1 \in 0..Len(code) /\ Len(code) \in Nat
    BY <1>1, FinishedIs
  <1>4. /\ Bal(code, p - 1) = Bal(code, (p - 1) - 1) + 1
        /\ Bal(code, (p - 1) - 1) \in Int /\ Bal(code, (p - 1) - 1) >= 0
    BY <1>2, <1>3, FinishedIs
  <1>5. /\ Len(a) = Bal(code, p - 1) /\ \A k \in 1..Len(a) : Under(a[k].at, p, k)
        /\ p \in 1..Len(code) + 1
    BY DEF Nest
  <1>6. Len(a) > 0 /\ Len(a) \in 1..Len(a)
    BY <1>4, <1>5
  <1>7. Under(p - 1, p, Len(a))
    <2>1. \A r \in p - 1..p - 1 : r = p - 1
      BY <1>3
    <2>2. p - 1 < p
      BY <1>3
    <2>3. \A r \in p - 1..p - 1 : Bal(code, r) >= Len(a)
      BY <1>4, <1>5, <2>1
    <2> QED
      BY <1>2, <1>3, <1>5, <2>2, <2>3 DEF Under
  <1> QED
    BY <1>5, <1>6, <1>7, UnderOne

(* The scope of an entered range's variable is not left.                   *)
LEMMA RangeScope ==
  ASSUME Finished, Tidy(code), NEW p, NEW a, Nest(p, a), NEW k \in 1..Len(a),
         code[a[k].at].op = "range"
  PROVE  /\ a[k].at \in 1..Len(code) /\ a[k].at - 1 \in 1..Len(code) /\ a[k].at < p
         /\ IsLine(code[a[k].at - 1], "scope", code[a[k].at].x)
         /\ code[a[k].at].x \in Name
         /\ Bal(code, a[k].at - 1) \in Int
         /\ \A r \in a[k].at - 1..p - 1 : Bal(code, r) >= Bal(code, a[k].at - 1)
  <1> DEFINE q == a[k].at
  <1>1. /\ q \in 1..Len(code) /\ code[q].op \in Openings /\ Bal(code, q) = k /\ q < p
        /\ \A r \in q..p - 1 : Bal(code, r) >= k
    BY DEF Nest, Under
  <1>2. p \in 1..Len(code) + 1 /\ Len(code) \in Nat
    BY FinishedIs DEF Nest
  <1>3. q > 1 /\ IsLine(code[q - 1], "scope", code[q].x) /\ code[q].x \in Name
    <2>1. Timed(code, q)
      BY <1>1 DEF Tidy
    <2>2. code[q].op \in {"scope", "range"}
      OBVIOUS
    <2> QED
      BY <2>1, <2>2 DEF Timed
  <1>4. q - 1 \in 1..Len(code) /\ q - 1 \in 0..Len(code)
    BY <1>1, <1>2, <1>3
  <1>5. Bal(code, q) = Bal(code, q - 1) + 1 /\ Bal(code, q - 1) \in Int
    BY <1>1, <1>4, FinishedIs
  <1>6. ASSUME NEW r \in q - 1..p - 1 PROVE Bal(code, r) >= Bal(code, q - 1)
    <2>1. CASE r = q - 1
      BY <1>5, <2>1
    <2>2. CASE r # q - 1
      <3>1. r \in q..p - 1 /\ r \in 0..Len(code)
        BY <1>1, <1>2, <2>2
      <3>2. Bal(code, r) \in Int
        BY <3>1, FinishedIs
      <3>3. Bal(code, r) >= k
        BY <1>1, <3>1
      <3> QED
        BY <1>1, <1>5, <3>2, <3>3
    <2> QED
      BY <2>1, <2>2
  <1> QED
    BY <1>1, <1>3, <1>4, <1>5, <1>6

(* In it no other line declares that name.                                 *)
LEMMA RangeAlone ==
  ASSUME Finished, Tidy(code), NEW p, NEW a, Nest(p, a), NEW k \in 1..Len(a),
         code[a[k].at].op = "range", NEW q \in a[k].at + 1..p, q \in 1..Len(code),
         code[q].op \in Declaring
  PROVE  code[q].x # code[a[k].at].x
  <1> SUFFICES ASSUME code[q].x = code[a[k].at].x PROVE FALSE
    OBVIOUS
  <1> DEFINE s == a[k].at - 1
  <1>1. /\ a[k].at \in 1..Len(code) /\ s \in 1..Len(code) /\ a[k].at < p
        /\ IsLine(code[s], "scope", code[a[k].at].x)
        /\ Bal(code, s) \in Int
        /\ \A r \in s..p - 1 : Bal(code, r) >= Bal(code, s)
    BY RangeScope
  <1>2. p \in 1..Len(code) + 1 /\ Len(code) \in Nat
    BY FinishedIs DEF Nest
  <1> HIDE DEF s
  <1>3. s \in 1..q - 1
    BY <1>1, <1>2 DEF s
  <1>4. code[s].op \in Declaring /\ code[s].x = code[q].x
    BY <1>1, Zenon DEF IsLine, Declaring
  <1>5. Unseen(code, q)
    BY DEF Tidy, Timed
  <1>6. PICK r \in s..q - 1 : Bal(code, r) < Bal(code, s)
    BY <1>3, <1>4, <1>5 DEF Unseen
  <1>7. r \in s..p - 1 /\ r \in 0..Len(code)
    BY <1>1, <1>2
  <1>8. Bal(code, r) \in Int /\ Bal(code, r) >= Bal(code, s)
    BY <1>1, <1>7, FinishedIs
  <1> QED
    BY <1>1, <1>6, <1>8

(* At its closing line an entered range has been advanced, and no range    *)
(* around it.                                                              *)
LEMMA CloseCounted ==
  ASSUME Finished, Tidy(code), NEW p \in 1..Len(code), NEW a, Nest(p, a),
         code[p].op = "close"
  PROVE  /\ Len(a) \in 1..Len(a) /\ Len(a) \in Nat
         /\ code[a[Len(a)].at].op = "range" => Pending(p, code[a[Len(a)].at].x) = 1
         /\ \A k \in 1..Len(a) - 1 : code[a[k].at].op = "range" =>
              Pending(p, code[a[k].at].x) = 0
  <1> DEFINE h == a[Len(a)].at
  <1>1. Len(a) \in 1..Len(a) /\ Len(a) \in Nat /\ Pair(code, h, p)
    BY NestClose
  <1>2. h \in 1..Len(code) /\ h < p /\ p > 1 /\ Len(code) \in Nat
    <2>1. h \in 1..Len(code) /\ h < p /\ Len(code) \in Nat
      BY <1>1, PairSpan
    <2> QED
      BY <2>1
  <1>3. h \in 1..p - 1
    BY <1>2
  <1>4. Advances(code, h, p)
    <2>1. Timed(code, p)
      BY DEF Tidy
    <2> QED
      BY <1>1, <1>3, <2>1 DEF Timed
  <1>5. CASE code[h].op # "range"
    <2>1. code[p - 1].op # "inc"
      BY <1>4, <1>5 DEF Advances
    <2>2. \A x : Pending(p, x) = 0
      BY <2>1 DEF Pending, IsLine
    <2> QED
      BY <1>1, <1>5, <2>2
  <1>6. CASE code[h].op = "range"
    <2>1. IsLine(code[p - 1], "inc", code[h].x)
      BY <1>4, <1>6 DEF Advances
    <2>2. Pending(p, code[h].x) = 1
      BY <1>2, <2>1 DEF Pending
    <2>3. h - 1 \in 1..Len(code) /\ IsLine(code[h - 1], "scope", code[h].x)
      BY <1>1, <1>6, RangeScope
    <2>4. code[h - 1].op \in Declaring /\ code[h - 1].x = code[h].x /\ code[h - 1].op # "range"
      BY <2>3, Zenon DEF IsLine, Declaring
    <2>5. ASSUME NEW k \in 1..Len(a) - 1, code[a[k].at].op = "range"
          PROVE  Pending(p, code[a[k].at].x) = 0
      <3>1. k \in 1..Len(a) /\ k < Len(a)
        BY <1>1
      <3>2. a[k].at < h
        BY <1>1, <3>1, NestOrder
      <3>3. a[k].at # h - 1 /\ a[k].at \in 1..Len(code)
        BY <2>4, <2>5, <3>1, RangeScope
      <3>4. h - 1 \in a[k].at + 1..p
        BY <1>2, <3>2, <3>3
      <3>5. code[h - 1].x # code[a[k].at].x
        BY <2>3, <2>4, <2>5, <3>1, <3>4, RangeAlone
      <3>6. ~IsLine(code[p - 1], "inc", code[a[k].at].x)
        BY <2>1, <2>4, <3>5 DEF IsLine
      <3> QED
        BY <3>6 DEF Pending
    <2> QED
      BY <1>1, <2>2, <2>5
  <1> QED
    BY <1>5, <1>6

(* The innermost entered loop.                                             *)
LEMMA InnermostLast ==
  ASSUME Finished, Compiles, Nest(pc, active), pc \in 1..Len(code),
         code[pc].op \in {"break", "continue"}
  PROVE  /\ Innermost \in 1..Len(active) /\ code[active[Innermost].at].op \in Loops
         /\ \A j \in Innermost + 1..Len(active) : code[active[j].at].op \notin Loops
  <1> DEFINE S == {k \in 1..Len(active) : code[active[k].at].op \in Loops}
  <1>1. Innermost \in S
    BY InnermostIs
  <1>2. Len(active) \in Nat /\ S \in SUBSET (0..Len(active)) /\ S # {}
    <2>1. Len(active) \in Nat
      BY DEF Nest
    <2> QED
      BY <1>1, <2>1
  <1>3. PICK k \in S : \A j \in S : j <= k
    BY <1>2, Greatest
  <1>4. /\ k \in 1..Len(active) /\ code[active[k].at].op \in Loops
        /\ \A j \in (k + 1)..Len(active) : code[active[j].at].op \notin Loops
    <2>1. k \in 1..Len(active) /\ code[active[k].at].op \in Loops
      BY <1>3
    <2>2. ASSUME NEW j \in (k + 1)..Len(active), code[active[j].at].op \in Loops PROVE FALSE
      <3>1. j \in 1..Len(active) /\ ~(j <= k)
        BY <1>2, <2>1
      <3>2. j \in S
        BY <2>2, <3>1
      <3> QED
        BY <1>3, <3>1, <3>2
    <2> QED
      BY <2>1, <2>2
  <1> HIDE DEF S
  <1> QED
    BY <1>4, Zenon DEF Innermost

(* It is the innermost loop of the text as well.                           *)
LEMMA InnermostInner ==
  ASSUME Finished, Compiles, Nest(pc, active), pc \in 1..Len(code),
         code[pc].op \in {"break", "continue"}
  PROVE  Inner(code, active[Innermost].at, pc)
  <1> DEFINE K == Innermost
             h == active[K].at
  <1>1. /\ K \in 1..Len(active) /\ code[h].op \in Loops
        /\ \A j \in K + 1..Len(active) : code[active[j].at].op \notin Loops
    BY InnermostLast
  <1> HIDE DEF K
  <1>2. /\ h \in 1..Len(code) /\ h < pc /\ Bal(code, h) = K
        /\ \A r \in h..pc - 1 : Bal(code, r) >= K
    BY <1>1 DEF Nest, Under
  <1>3. Len(code) \in Nat /\ Len(active) \in Nat /\ Len(active) = Bal(code, pc - 1)
    BY FinishedIs DEF Nest
  <1>4. h \in 1..pc - 1 /\ \A r \in h..pc - 1 : Bal(code, r) >= Bal(code, h)
    BY <1>2, <1>3
  <1>5. ASSUME NEW g \in h + 1..pc - 1, code[g].op \in Loops
        PROVE  \E r \in g..pc - 1 : Bal(code, r) < Bal(code, g)
    <2> SUFFICES ASSUME \A r \in g..pc - 1 : ~(Bal(code, r) < Bal(code, g)) PROVE FALSE
      OBVIOUS
    <2>1. /\ g \in 1..Len(code) /\ g < pc /\ pc - 1 \in g..pc - 1 /\ g - 1 \in 0..Len(code)
          /\ \A r \in g..pc - 1 : r \in 0..Len(code)
      BY <1>2, <1>3
    <2>2. code[g].op \in Openings
      BY <1>5, Zenon DEF Openings
    <2>3. /\ Bal(code, g) = Bal(code, g - 1) + 1 /\ Bal(code, g - 1) \in Int
          /\ Bal(code, g - 1) >= 0 /\ \A r \in g..pc - 1 : Bal(code, r) \in Int
      BY <2>1, <2>2, FinishedIs
    <2>4. \A r \in g..pc - 1 : Bal(code, r) >= Bal(code, g)
      BY <2>3
    <2> DEFINE j == Bal(code, g)
    <2>5. j \in 1..Len(active)
      BY <1>3, <2>1, <2>3, <2>4
    <2>6. Under(g, pc, j)
      BY <2>1, <2>2, <2>4 DEF Under
    <2> HIDE DEF j
    <2>7. Under(active[j].at, pc, j)
      BY <2>5 DEF Nest
    <2>8. pc \in 1..Len(code) + 1
      BY <1>3
    <2>9. g = active[j].at
      BY <2>6, <2>7, <2>8, UnderOne
    <2>10. g > h
      BY <1>2
    <2>11. j # K
      BY <1>2, <2>9, <2>10
    <2>12. ~(j < K)
      <3>1. j < K => active[j].at < h
        BY <1>1, <2>5, NestOrder
      <3> QED
        BY <1>2, <2>1, <2>9, <2>10, <3>1
    <2>13. j \in K + 1..Len(active)
      BY <1>1, <2>5, <2>11, <2>12
    <2> QED
      BY <1>1, <1>5, <2>9, <2>13
  <1> QED
    BY <1>1, <1>4, <1>5 DEF Inner, K

(* A `continue` and the end of its range are behind the same advance.      *)
LEMMA ContinueCounted ==
  ASSUME Finished, Compiles, Tidy(code), Nest(pc, active), pc \in 1..Len(code),
         code[pc].op = "continue"
  PROVE  \A x : Pending(pc, x) = Pending(Matching(active[Innermost].at), x)
  <1> DEFINE h == active[Innermost].at
             m == Matching(h)
  <1>1. Innermost \in 1..Len(active) /\ Inner(code, h, pc)
    <2>1. code[pc].op \in {"break", "continue"}
      OBVIOUS
    <2> QED
      BY <2>1, InnermostLast, InnermostInner
  <1>2. Pair(code, h, m) /\ m \in 1..Len(code)
    BY <1>1, NestPair
  <1>3. h \in 1..Len(code) /\ h < m /\ code[m].op = "close" /\ Len(code) \in Nat
    BY <1>2, PairSpan DEF Pair
  <1>4. h \in 1..pc - 1 /\ h \in 1..m - 1
    BY <1>1, <1>2, <1>3 DEF Inner
  <1> HIDE DEF h, m
  <1>5. Advances(code, h, pc)
    <2>1. Timed(code, pc)
      BY DEF Tidy
    <2> QED
      BY <1>1, <1>4, <2>1 DEF Timed
  <1>6. Advances(code, h, m)
    <2>1. Timed(code, m)
      BY <1>2 DEF Tidy
    <2> QED
      BY <1>2, <1>3, <1>4, <2>1 DEF Timed
  <1>7. pc > 1 /\ m > 1
    BY <1>2, <1>4
  <1>8. CASE code[h].op = "range"
    <2>1. IsLine(code[pc - 1], "inc", code[h].x) /\ IsLine(code[m - 1], "inc", code[h].x)
      BY <1>5, <1>6, <1>8 DEF Advances
    <2>2. \A x : IsLine(code[pc - 1], "inc", x) <=> IsLine(code[m - 1], "inc", x)
      BY <2>1 DEF IsLine
    <2>3. \A x : Pending(pc, x) = Pending(m, x)
      BY <1>7, <2>2 DEF Pending
    <2> QED
      BY <2>3 DEF h, m
  <1>9. CASE code[h].op # "range"
    <2>1. code[pc - 1].op # "inc" /\ code[m - 1].op # "inc"
      BY <1>5, <1>6, <1>9 DEF Advances
    <2>2. \A x : Pending(pc, x) = Pending(m, x)
      BY <2>1 DEF Pending, IsLine
    <2> QED
      BY <2>2 DEF h, m
  <1> QED
    BY <1>8, <1>9

(* Frames that stay, at a line where as much has been advanced.            *)
LEMMA CountMove ==
  ASSUME NEW p, NEW e, NEW a, NEW b, NEW nm, Counting(p, a, nm),
         Len(a) \in Nat, Len(b) \in Nat, Len(b) <= Len(a), \A k \in 1..Len(b) : b[k] = a[k],
         \A k \in 2..Len(b) : code[a[k].at].op = "range" =>
           Pending(e, code[a[k].at].x) = Pending(p, code[a[k].at].x),
         Based(e, b, nm)
  PROVE  Counting(e, b, nm)
  <1>1. ASSUME NEW k \in 2..Len(b), Ranged(b[k])
        PROVE  nm[code[b[k].at].x] = b[k - 1].base + b[k].done + Pending(e, code[b[k].at].x)
    <2>1. k \in 2..Len(a) /\ k \in 1..Len(b) /\ k - 1 \in 1..Len(b)
      OBVIOUS
    <2>2. b[k] = a[k] /\ b[k - 1] = a[k - 1]
      BY <2>1
    <2>3. Ranged(a[k]) /\ code[a[k].at].op = "range"
      BY <1>1, <2>2 DEF Ranged
    <2>4. Pending(e, code[a[k].at].x) = Pending(p, code[a[k].at].x)
      BY <2>3
    <2>5. nm[code[a[k].at].x] = a[k - 1].base + a[k].done + Pending(p, code[a[k].at].x)
      BY <2>1, <2>3 DEF Counting, Tracked
    <2> QED
      BY <2>2, <2>4, <2>5
  <1> QED
    BY <1>1 DEF Counting, Tracked

(* The next line, in front of which the variables have been advanced.      *)
LEMMA CountNext ==
  ASSUME Finished, Tidy(code), NEW p \in 1..Len(code), NEW a, Nest(p, a),
         NEW nm, NEW mm, Counting(p, a, nm), code[p].op \notin {"continue", "close"},
         \A k \in 1..Len(a) : Ranged(a[k]) =>
           mm[code[a[k].at].x] = nm[code[a[k].at].x] + Pending(p + 1, code[a[k].at].x)
  PROVE  Counting(p + 1, a, mm)
  <1>1. \A x : Pending(p, x) = 0
    BY PendingNone
  <1>2. a \in Seq(FrameType) /\ \A k \in 1..Len(a) : a[k].at < p
    BY DEF Nest, Under
  <1>3. Len(a) \in Nat /\ \A k \in 1..Len(a) : a[k].base \in Nat /\ a[k].done \in Nat
    <2>1. Len(a) \in Nat /\ \A k \in 1..Len(a) : a[k] \in FrameType
      <3> HIDE DEF FrameType
      <3> QED
        BY <1>2
    <2> QED
      BY <2>1 DEF FrameType
  <1>4. Tracked(p + 1, a, mm)
    <2> SUFFICES ASSUME NEW k \in 2..Len(a), Ranged(a[k])
                 PROVE  mm[code[a[k].at].x] = a[k - 1].base + a[k].done
                                              + Pending(p + 1, code[a[k].at].x)
      BY DEF Tracked
    <2> DEFINE x == code[a[k].at].x
    <2>1. nm[x] = a[k - 1].base + a[k].done + Pending(p, x)
      BY DEF Counting, Tracked
    <2>2. k \in 1..Len(a) /\ k - 1 \in 1..Len(a)
      BY <1>3
    <2>3. mm[x] = nm[x] + Pending(p + 1, x)
      BY <2>2
    <2>4. a[k - 1].base \in Nat /\ a[k].done \in Nat /\ Pending(p, x) = 0
      BY <1>1, <1>3, <2>2
    <2> HIDE DEF x
    <2>5. mm[x] = a[k - 1].base + a[k].done + Pending(p + 1, x)
      BY <2>1, <2>3, <2>4
    <2> QED
      BY <2>5 DEF x
  <1>5. Based(p + 1, a, mm)
    <2>1. Len(a) > 0 => a[Len(a)].at < p
      BY <1>2, <1>3
    <2>2. (p + 1) - 1 = p /\ ~(p < p)
      BY FinishedIs
    <2>3. ~(Len(a) > 0 /\ a[Len(a)].at = (p + 1) - 1)
      BY <2>1, <2>2
    <2> QED
      BY <2>3 DEF Based
  <1> QED
    BY <1>4, <1>5 DEF Counting

(* The next line, where no variable of an entered range has changed.       *)
LEMMA CountStill ==
  ASSUME Finished, Tidy(code), NEW p \in 1..Len(code), NEW a, Nest(p, a),
         NEW nm \in [Name -> Nat], NEW mm, Counting(p, a, nm),
         code[p].op \notin {"continue", "close"}, code[p].op # "inc",
         \A k \in 1..Len(a) : Ranged(a[k]) => mm[code[a[k].at].x] = nm[code[a[k].at].x]
  PROVE  Counting(p + 1, a, mm)
  <1>1. \A x : Pending(p + 1, x) = 0
    BY PendingAfter
  <1>2. ASSUME NEW k \in 1..Len(a), Ranged(a[k])
        PROVE  mm[code[a[k].at].x] = nm[code[a[k].at].x] + Pending(p + 1, code[a[k].at].x)
    <2> DEFINE x == code[a[k].at].x
    <2>1. code[a[k].at].op = "range"
      BY <1>2 DEF Ranged
    <2>2. x \in Name
      BY <2>1, RangeScope
    <2>3. nm[x] \in Nat /\ Pending(p + 1, x) = 0 /\ mm[x] = nm[x]
      BY <1>1, <1>2, <2>2
    <2> HIDE DEF x
    <2>4. mm[x] = nm[x] + Pending(p + 1, x)
      BY <2>3
    <2> QED
      BY <2>4 DEF x
  <1> QED
    BY <1>2, CountNext

(* A block is entered.                                                     *)
LEMMA CountEnter ==
  ASSUME Finished, Tidy(code), NEW p \in 1..Len(code), NEW a, Nest(p, a),
         NEW nm, NEW mm, Counting(p, a, nm), code[p].op \in Openings,
         NEW f \in FrameType, f.at = p, f.done = 0,
         \A k \in 1..Len(a) : Ranged(a[k]) => mm[code[a[k].at].x] = nm[code[a[k].at].x],
         code[p].op = "range" => mm[code[p].x] = nm[code[p].x],
         code[p].op = "scope" => mm[code[p].x] = f.base
  PROVE  Counting(p + 1, Append(a, f), mm)
  <1> DEFINE b == Append(a, f)
  <1>1. code[p].op \notin {"continue", "close"} /\ code[p].op # "inc"
    BY Zenon DEF Openings, Loops
  <1>2. (\A x : Pending(p, x) = 0) /\ (\A x : Pending(p + 1, x) = 0)
    BY <1>1, PendingNone, PendingAfter
  <1>3. /\ Len(a) \in Nat /\ Len(b) = Len(a) + 1 /\ b[Len(a) + 1] = f
        /\ \A k \in 1..Len(a) : b[k] = a[k]
    <2>1. a \in Seq(FrameType)
      BY DEF Nest
    <2> HIDE DEF FrameType
    <2> QED
      BY <2>1
  <1> HIDE DEF b
  <1>4. Tracked(p + 1, b, mm)
    <2> SUFFICES ASSUME NEW k \in 2..Len(b), Ranged(b[k])
                 PROVE  mm[code[b[k].at].x] = b[k - 1].base + b[k].done
                                              + Pending(p + 1, code[b[k].at].x)
      BY DEF Tracked
    <2>1. CASE k <= Len(a)
      <3>1. k \in 2..Len(a) /\ k \in 1..Len(a) /\ k - 1 \in 1..Len(a)
        BY <1>3, <2>1
      <3>2. b[k] = a[k] /\ b[k - 1] = a[k - 1]
        BY <1>3, <3>1
      <3>3. Ranged(a[k])
        BY <3>2
      <3>4. /\ nm[code[a[k].at].x] = a[k - 1].base + a[k].done + Pending(p, code[a[k].at].x)
            /\ mm[code[a[k].at].x] = nm[code[a[k].at].x]
        BY <3>1, <3>3 DEF Counting, Tracked
      <3>5. Pending(p, code[a[k].at].x) = Pending(p + 1, code[a[k].at].x)
        BY <1>2
      <3> QED
        BY <3>2, <3>4, <3>5
    <2>2. CASE ~(k <= Len(a))
      <3>1. k = Len(a) + 1 /\ k - 1 = Len(a) /\ Len(a) \in 1..Len(a)
        BY <1>3, <2>2
      <3>2. b[k] = f /\ b[k - 1] = a[Len(a)]
        BY <1>3, <3>1
      <3>3. code[p].op = "range"
        BY <3>2 DEF Ranged
      <3>4. Len(a) > 0 /\ a[Len(a)].at = p - 1
        BY <3>3, TopScope
      <3>5. p <= Len(code)
        BY FinishedIs
      <3>6. nm[code[p].x] = a[Len(a)].base
        BY <3>3, <3>4, <3>5 DEF Counting, Based
      <3>7. a[Len(a)].base \in Nat
        <4>1. a[Len(a)] \in FrameType
          <5>1. a \in Seq(FrameType)
            BY DEF Nest
          <5> HIDE DEF FrameType
          <5> QED
            BY <3>1, <5>1
        <4> QED
          BY <4>1 DEF FrameType
      <3>8. Pending(p + 1, code[p].x) = 0
        BY <1>2
      <3>9. mm[code[p].x] = a[Len(a)].base + 0 + Pending(p + 1, code[p].x)
        BY <3>3, <3>6, <3>7, <3>8
      <3> QED
        BY <3>2, <3>9
    <2> QED
      BY <2>1, <2>2
  <1>5. Based(p + 1, b, mm)
    <2> SUFFICES ASSUME p + 1 <= Len(code), code[p + 1].op = "range"
                 PROVE  mm[code[p + 1].x] = b[Len(b)].base
      BY DEF Based
    <2>1. p + 1 \in 1..Len(code) /\ (p + 1) - 1 = p
      BY FinishedIs
    <2>2. IsLine(code[p], "scope", code[p + 1].x)
      BY <2>1 DEF Tidy, Timed
    <2>3. b[Len(b)] = f
      BY <1>3
    <2> QED
      BY <2>2, <2>3 DEF IsLine
  <1> QED
    BY <1>4, <1>5 DEF Counting, b

(* A block is passed over.                                                 *)
LEMMA CountPass ==
  ASSUME Finished, Tidy(code), NEW p \in 1..Len(code), NEW a, Nest(p, a), NEW nm,
         Counting(p, a, nm), code[p].op \in Openings
  PROVE  Counting(Matching(p) + 1, a, nm)
  <1> DEFINE m == Matching(p)
  <1>1. m \in 1..Len(code) /\ Pair(code, p, m)
    BY MatchingPairs DEF Finished
  <1>2. p < m /\ code[m].op = "close"
    BY <1>1, PairSpan DEF Pair
  <1> HIDE DEF m
  <1>3. code[p].op \notin {"continue", "close"} /\ code[m].op # "inc"
    BY <1>2, Zenon DEF Openings, Loops
  <1>4. (\A x : Pending(p, x) = 0) /\ (\A x : Pending(m + 1, x) = 0)
    BY <1>1, <1>3, PendingNone, PendingAfter
  <1>5. Len(a) \in Nat /\ \A k \in 1..Len(a) : a[k].at < p /\ a[k].at \in Int
    <2>1. Len(a) \in Nat
      <3>1. a \in Seq(FrameType)
        BY DEF Nest
      <3> HIDE DEF FrameType
      <3> QED
        BY <3>1
    <2> QED
      BY <2>1, FinishedIs DEF Nest, Under
  <1>6. Based(m + 1, a, nm)
    <2>1. Len(a) > 0 => a[Len(a)].at < p /\ a[Len(a)].at \in Int
      BY <1>5
    <2>2. (m + 1) - 1 = m /\ m \in Int /\ p \in Int
      BY <1>1, FinishedIs
    <2>3. ~(Len(a) > 0 /\ a[Len(a)].at = (m + 1) - 1)
      BY <1>2, <2>1, <2>2
    <2> QED
      BY <2>3 DEF Based
  <1>7. \A k \in 2..Len(a) : code[a[k].at].op = "range" =>
          Pending(m + 1, code[a[k].at].x) = Pending(p, code[a[k].at].x)
    BY <1>4
  <1>8. Len(a) <= Len(a) /\ \A k \in 1..Len(a) : a[k] = a[k]
    BY <1>5
  <1>9. Counting(m + 1, a, nm)
    BY <1>5, <1>6, <1>7, <1>8, CountMove
  <1> QED
    BY <1>9 DEF m

(* The k outermost blocks stay entered, behind a closing line.             *)
LEMMA CountOut ==
  ASSUME Finished, Tidy(code), NEW p, NEW a, Nest(p, a), NEW nm, Counting(p, a, nm),
         NEW k \in 0..Len(a), NEW m \in 1..Len(code), code[m].op = "close",
         \A j \in 1..k : code[a[j].at].op = "range" => Pending(p, code[a[j].at].x) = 0
  PROVE  Counting(m + 1, SubSeq(a, 1, k), nm)
  <1> DEFINE b == SubSeq(a, 1, k)
  <1>1. a \in Seq(FrameType) /\ \A j \in 1..Len(a) : code[a[j].at].op \in Openings
    BY DEF Nest, Under
  <1>2. Len(b) = k /\ \A j \in 1..k : b[j] = a[j] /\ j \in 1..Len(a)
    BY <1>1, CutFrames
  <1>3. Len(a) \in Nat
    <2> HIDE DEF FrameType
    <2> QED
      BY <1>1
  <1>4. Len(b) \in Nat /\ Len(b) <= Len(a) /\ \A j \in 1..Len(b) : b[j] = a[j]
    BY <1>2, <1>3
  <1> HIDE DEF b
  <1>5. \A x : Pending(m + 1, x) = 0
    <2>1. code[m].op # "inc"
      BY Zenon
    <2> QED
      BY <2>1, PendingAfter
  <1>6. "close" \notin Openings
    BY Zenon DEF Openings, Loops
  <1>7. Based(m + 1, b, nm)
    <2>1. Len(b) > 0 => code[b[Len(b)].at].op \in Openings
      BY <1>1, <1>2, <1>4
    <2>2. (m + 1) - 1 = m
      BY FinishedIs
    <2>3. ~(Len(b) > 0 /\ b[Len(b)].at = (m + 1) - 1)
      BY <1>6, <2>1, <2>2
    <2> QED
      BY <2>3 DEF Based
  <1>8. \A j \in 2..Len(b) : code[a[j].at].op = "range" =>
          Pending(m + 1, code[a[j].at].x) = Pending(p, code[a[j].at].x)
    BY <1>2, <1>4, <1>5
  <1>9. Counting(m + 1, b, nm)
    BY <1>3, <1>4, <1>7, <1>8, CountMove
  <1> QED
    BY <1>9 DEF b

(* What a step of the run leaves, while it goes on.                        *)
Tallied == vars' = vars /\ (state' = "running" => Counting(pc', active', num'))

(* What is known of the entered ranges at a line that is run.              *)
LEMMA TalliesIs ==
  ASSUME Course, Tidy(code), state = "running", pc <= Len(code)
  PROVE  /\ Finished /\ pc \in 1..Len(code) /\ Compiles /\ Nest(pc, active)
         /\ num \in [Name -> Nat]
         /\ \A k \in 1..Len(active) : Ranged(active[k]) => code[active[k].at].x \in Name
  <1>1. Finished /\ pc \in 1..Len(code) /\ Compiles /\ Nest(pc, active)
    BY RunsIs
  <1>2. num \in [Name -> Nat]
    BY RunningIs
  <1>3. ASSUME NEW k \in 1..Len(active), Ranged(active[k])
        PROVE  code[active[k].at].x \in Name
    <2>1. code[active[k].at].op = "range"
      BY <1>3 DEF Ranged
    <2> QED
      BY <1>1, <2>1, RangeScope
  <1> QED
    BY <1>1, <1>2, <1>3

(* Uses, frees, conditions and temporaries change no number.               *)
LEMMA LineTallies ==
  ASSUME Course, Tidy(code), Counting(pc, active, num), Access \/ Compute \/ Free
  PROVE  Tallied
  <1>1. /\ state = "running" /\ pc <= Len(code) /\ code[pc].op \in {"use", "temp", "hoist", "free"}
        /\ vars' = vars
        /\ \/ state' \in {"useAfterFree", "doubleFree"}
           \/ pc' = pc + 1 /\ active' = active /\ num' = num
    <2>1. CASE Access
      BY <2>1, Zenon DEF Access, At, Op, Go, Stop
    <2>2. CASE Compute
      BY <2>2, Zenon DEF Compute, At, Op, Go
    <2>3. CASE Free
      BY <2>3, Zenon DEF Free, At, Op, Go, Stop
    <2> QED
      BY <2>1, <2>2, <2>3
  <1>2. /\ Finished /\ pc \in 1..Len(code) /\ Nest(pc, active) /\ num \in [Name -> Nat]
    BY <1>1, TalliesIs
  <1>3. code[pc].op \notin {"continue", "close"} /\ code[pc].op # "inc"
    BY <1>1, Zenon
  <1>4. Counting(pc + 1, active, num)
    BY <1>2, <1>3, CountStill
  <1>5. state' \in {"useAfterFree", "doubleFree"} => state' # "running"
    BY Zenon
  <1> QED
    BY <1>1, <1>4, <1>5 DEF Tallied

(* An assignment: no line of its body sets the variable of an entered      *)
(* range that counts, and an advance is owed to the end of its iteration.  *)
LEMMA AssignTallies ==
  ASSUME Course, Tidy(code), Counting(pc, active, num), Assign
  PROVE  Tallied
  <1> DEFINE x == code[pc].x
             v == IF code[pc].op = "inc" THEN num[x] + 1
                  ELSE IF num[x] = 0 THEN 0 ELSE num[x] - 1
  <1>1. /\ state = "running" /\ pc <= Len(code) /\ code[pc].op \in {"set", "inc"}
        /\ vars' = vars /\ pc' = pc + 1 /\ active' = active
        /\ num' = [num EXCEPT ![x] = v]
    BY Zenon DEF Assign, At, Op, Go
  <1>2. /\ Finished /\ pc \in 1..Len(code) /\ Nest(pc, active) /\ num \in [Name -> Nat]
        /\ \A k \in 1..Len(active) : Ranged(active[k]) => code[active[k].at].x \in Name
    BY <1>1, TalliesIs
  <1>3. code[pc].op \notin {"continue", "close"}
    BY <1>1, Zenon
  <1>4. pc > 0 /\ (pc + 1) - 1 = pc /\ pc + 1 > 1
    BY <1>2, FinishedIs
  <1>5. ASSUME NEW k \in 1..Len(active), Ranged(active[k])
        PROVE  num'[code[active[k].at].x]
                 = num[code[active[k].at].x] + Pending(pc + 1, code[active[k].at].x)
    <2> DEFINE y == code[active[k].at].x
    <2>1. y \in Name /\ num[y] \in Nat
      BY <1>2, <1>5
    <2>2. CASE code[pc].op = "set"
      <3>1. active[k].at < pc /\ pc <= Matching(active[k].at) /\ active[k].at \in 1..Len(code)
            /\ Matching(active[k].at) \in 1..Len(code)
        BY <1>2, NestPair
      <3>2. pc \in active[k].at..Matching(active[k].at)
        BY <1>2, <3>1, FinishedIs
      <3>3. y # x
        BY <1>5, <2>2, <3>2 DEF Ranged, Unset, IsLine
      <3> HIDE DEF x, y, v
      <3>4. num'[y] = num[y]
        BY <1>1, <1>2, <2>1, <3>3
      <3>5. Pending(pc + 1, y) = 0
        <4>1. code[pc].op # "inc"
          BY <2>2
        <4> QED
          BY <1>2, <4>1, PendingAfter
      <3>6. num'[y] = num[y] + Pending(pc + 1, y)
        BY <2>1, <3>4, <3>5
      <3> QED
        BY <3>6 DEF y
    <2>3. CASE code[pc].op = "inc" /\ y = x
      <3>1. v = num[y] + 1
        BY <2>3
      <3>2. Pending(pc + 1, y) = 1
        BY <1>4, <2>3 DEF Pending, IsLine
      <3> HIDE DEF v, y, x
      <3>3. num'[y] = v
        BY <1>1, <1>2, <2>1, <2>3
      <3>4. num'[y] = num[y] + Pending(pc + 1, y)
        BY <3>1, <3>2, <3>3
      <3> QED
        BY <3>4 DEF y
    <2>4. CASE code[pc].op = "inc" /\ y # x
      <3>1. Pending(pc + 1, y) = 0
        BY <1>4, <2>4 DEF Pending, IsLine
      <3> HIDE DEF v, y, x
      <3>2. num'[y] = num[y]
        BY <1>1, <1>2, <2>1, <2>4
      <3>3. num'[y] = num[y] + Pending(pc + 1, y)
        BY <2>1, <3>1, <3>2
      <3> QED
        BY <3>3 DEF y
    <2> QED
      BY <1>1, <2>2, <2>3, <2>4
  <1>6. Counting(pc + 1, active, num')
    BY <1>2, <1>3, <1>5, CountNext
  <1> QED
    BY <1>1, <1>6 DEF Tallied

(* A declaration is of a name that no entered range has.                   *)
LEMMA DeclareTallies ==
  ASSUME Course, Tidy(code), Counting(pc, active, num), Declare
  PROVE  Tallied
  <1> DEFINE x == code[pc].x
  <1>1. /\ state = "running" /\ pc <= Len(code) /\ code[pc].op = "bind"
        /\ vars' = vars /\ pc' = pc + 1 /\ active' = active
        /\ num' = num \/ \E n \in Counts : num' = [num EXCEPT ![x] = n]
    BY Zenon DEF Declare, At, Op, Go
  <1>2. /\ Finished /\ pc \in 1..Len(code) /\ Nest(pc, active) /\ num \in [Name -> Nat]
        /\ \A k \in 1..Len(active) : Ranged(active[k]) => code[active[k].at].x \in Name
    BY <1>1, TalliesIs
  <1>3. /\ code[pc].op \notin {"continue", "close"} /\ code[pc].op # "inc"
        /\ code[pc].op \in Declaring
    BY <1>1, Zenon DEF Declaring
  <1>4. ASSUME NEW k \in 1..Len(active), Ranged(active[k])
        PROVE  num'[code[active[k].at].x] = num[code[active[k].at].x]
    <2> DEFINE y == code[active[k].at].x
    <2>1. y \in Name /\ code[active[k].at].op = "range"
      BY <1>2, <1>4 DEF Ranged
    <2>2. active[k].at < pc /\ active[k].at \in 1..Len(code)
      BY <1>2, NestPair
    <2>3. pc \in active[k].at + 1..pc
      BY <1>2, <2>2, FinishedIs
    <2>4. y # x
      BY <1>2, <1>3, <2>1, <2>3, RangeAlone
    <2> HIDE DEF x, y
    <2>5. num'[y] = num[y]
      BY <1>1, <1>2, <2>1, <2>4
    <2> QED
      BY <2>5 DEF y
  <1>5. Counting(pc + 1, active, num')
    BY <1>2, <1>3, <1>4, CountStill
  <1> QED
    BY <1>1, <1>5 DEF Tallied

(* The block around a range gives its variable the first value.            *)
LEMMA ScopeTallies ==
  ASSUME Course, Tidy(code), Counting(pc, active, num), EnterScope
  PROVE  Tallied
  <1> DEFINE x == code[pc].x
  <1>1. /\ state = "running" /\ pc <= Len(code) /\ code[pc].op = "scope"
        /\ vars' = vars /\ pc' = pc + 1
    BY Zenon DEF EnterScope, At, Op, Go
  <1>2. PICK start \in Starts, n \in Counts :
          /\ active' = Append(active, Frame(pc, start, n))
          /\ num' = [num EXCEPT ![x] = start]
    BY DEF EnterScope
  <1>3. /\ Finished /\ pc \in 1..Len(code) /\ Nest(pc, active) /\ num \in [Name -> Nat]
        /\ \A k \in 1..Len(active) : Ranged(active[k]) => code[active[k].at].x \in Name
    BY <1>1, TalliesIs
  <1>4. code[pc].op \in Openings /\ code[pc].op \in Declaring /\ code[pc].op # "range"
    BY <1>1, Zenon DEF Openings, Declaring
  <1>5. x \in Name
    <2>1. Timed(code, pc)
      BY <1>3 DEF Tidy
    <2>2. code[pc].op \in {"scope", "range"}
      BY <1>1
    <2> QED
      BY <2>1, <2>2 DEF Timed
  <1>6. start \in Nat /\ n \in Nat /\ pc \in Nat
    BY <1>3, FinishedIs, RunAssumption
  <1>7. /\ Frame(pc, start, n) \in FrameType /\ Frame(pc, start, n).at = pc
        /\ Frame(pc, start, n).done = 0
    BY <1>6, FrameIs
  <1>8. Frame(pc, start, n).base = start
    BY DEF Frame
  <1>9. ASSUME NEW k \in 1..Len(active), Ranged(active[k])
        PROVE  num'[code[active[k].at].x] = num[code[active[k].at].x]
    <2> DEFINE y == code[active[k].at].x
    <2>1. y \in Name /\ code[active[k].at].op = "range"
      BY <1>3, <1>9 DEF Ranged
    <2>2. active[k].at < pc /\ active[k].at \in 1..Len(code)
      BY <1>3, NestPair
    <2>3. pc \in active[k].at + 1..pc
      BY <1>3, <2>2, FinishedIs
    <2>4. y # x
      BY <1>3, <1>4, <2>1, <2>3, RangeAlone
    <2> HIDE DEF x, y
    <2>5. num'[y] = num[y]
      BY <1>2, <1>3, <2>1, <2>4
    <2> QED
      BY <2>5 DEF y
  <1>10. num'[x] = Frame(pc, start, n).base
    <2> HIDE DEF x
    <2> QED
      BY <1>2, <1>3, <1>5, <1>8
  <1> DEFINE f == Frame(pc, start, n)
  <1> HIDE DEF f
  <1>11. f \in FrameType /\ f.at = pc /\ f.done = 0 /\ num'[code[pc].x] = f.base
    BY <1>7, <1>10 DEF f
  <1>12. Counting(pc + 1, Append(active, f), num')
    BY <1>3, <1>4, <1>9, <1>11, CountEnter
  <1> QED
    BY <1>1, <1>2, <1>12 DEF Tallied, f

(* The head of a block: entered or passed over.                            *)
LEMMA HeadTallies ==
  ASSUME Course, Tidy(code), Counting(pc, active, num), Branch \/ EnterLoop
  PROVE  Tallied
  <1>1. /\ state = "running" /\ pc <= Len(code) /\ vars' = vars /\ num' = num
        /\ \/ /\ Branch /\ code[pc].op \in {"if", "elseif", "else"}
              /\ \/ active' = Append(active, Frame(pc, 0, 0)) /\ pc' = pc + 1
                 \/ active' = active /\ pc' = Matching(pc) + 1
           \/ /\ EnterLoop /\ code[pc].op \in Loops
              /\ \/ active' = Append(active, Frame(pc, 0, Entry)) /\ pc' = pc + 1
                 \/ active' = active /\ pc' = Matching(pc) + 1
    <2>1. CASE Branch
      BY <2>1, Zenon DEF Branch, At, Op, Go
    <2>2. CASE EnterLoop
      BY <2>2, Zenon DEF EnterLoop, At, Op, Go
    <2> QED
      BY <2>1, <2>2
  <1>2. /\ Finished /\ pc \in 1..Len(code) /\ Nest(pc, active) /\ num \in [Name -> Nat]
    BY <1>1, TalliesIs
  <1>3. code[pc].op \in Openings /\ code[pc].op # "scope"
    BY <1>1, Zenon DEF Openings, Loops
  <1>4. Counting(Matching(pc) + 1, active, num)
    BY <1>2, <1>3, CountPass
  <1>5. ASSUME NEW n \in Nat PROVE Counting(pc + 1, Append(active, Frame(pc, 0, n)), num)
    <2> DEFINE f == Frame(pc, 0, n)
    <2>1. f \in FrameType /\ f.at = pc /\ f.done = 0
      <3>1. pc \in Nat /\ 0 \in Nat
        BY <1>2, FinishedIs
      <3> QED
        BY <3>1, FrameIs
    <2> HIDE DEF f
    <2>2. Counting(pc + 1, Append(active, f), num)
      BY <1>2, <1>3, <2>1, CountEnter
    <2> QED
      BY <2>2 DEF f
  <1>6. EnterLoop /\ code[pc].op \in Loops => Entry \in Nat
    BY <1>1, EntryIs
  <1>7. Counting(pc', active', num)
    BY <1>1, <1>4, <1>5, <1>6
  <1> QED
    BY <1>1, <1>7 DEF Tallied

(* Control turns back to the head of a loop that tests its condition.      *)
LEMMA CountBack ==
  ASSUME Finished, Tidy(code), NEW p \in 1..Len(code), NEW a, Nest(p, a), NEW nm,
         Counting(p, a, nm), code[p].op = "close", code[Last(a).at].op = "while"
  PROVE  Counting(Last(a).at, Front(a), nm)
  <1> DEFINE n == Len(a)
             q == a[n].at
             b == SubSeq(a, 1, n - 1)
  <1>1. n \in Nat /\ n \in 1..n /\ n - 1 \in 0..n
    BY NestClose
  <1>2. q \in 1..Len(code) /\ code[q].op = "while"
    BY <1>1, NestPair DEF Last
  <1>3. a \in Seq(FrameType)
    BY DEF Nest
  <1>4. Len(b) = n - 1 /\ \A j \in 1..n - 1 : b[j] = a[j]
    BY <1>1, <1>3, CutFrames
  <1>5. \A x : Pending(q, x) = 0
    <2>1. code[q].op \notin {"continue", "close"}
      BY <1>2, Zenon
    <2> QED
      BY <1>2, <2>1, PendingNone
  <1>6. \A k \in 1..n - 1 : code[a[k].at].op = "range" => Pending(p, code[a[k].at].x) = 0
    BY CloseCounted
  <1> HIDE DEF q, b
  <1>7. Based(q, b, nm)
    <2>1. code[q].op # "range"
      BY <1>2, Zenon
    <2> QED
      BY <2>1 DEF Based
  <1>8. \A k \in 2..Len(b) : code[a[k].at].op = "range" =>
          Pending(q, code[a[k].at].x) = Pending(p, code[a[k].at].x)
    BY <1>1, <1>4, <1>5, <1>6
  <1>9. Len(b) \in Nat /\ Len(b) <= Len(a) /\ \A k \in 1..Len(b) : b[k] = a[k]
    BY <1>1, <1>4
  <1>10. Counting(q, b, nm)
    BY <1>1, <1>7, <1>8, <1>9, CountMove
  <1> QED
    BY <1>10 DEF Front, Last, b, q

(* A counted loop runs its body once more: the variable of a range has     *)
(* been advanced, and the iteration is counted.                            *)
LEMMA CountAgain ==
  ASSUME Finished, Tidy(code), NEW p \in 1..Len(code), NEW a, Nest(p, a), NEW nm,
         Counting(p, a, nm), code[p].op = "close", code[Last(a).at].op \in Counted
  PROVE  Counting(Last(a).at + 1, [a EXCEPT ![Len(a)].done = @ + 1], nm)
  <1> DEFINE n == Len(a)
             q == a[n].at
             b == [a EXCEPT ![n].done = @ + 1]
  <1>1. n \in Nat /\ n \in 1..n /\ a \in Seq(FrameType)
    BY NestClose DEF Nest
  <1>2. q \in 1..Len(code) /\ code[q].op \in Counted
    BY <1>1, NestPair DEF Last
  <1>3. /\ b \in Seq(FrameType) /\ Len(b) = n
        /\ \A j \in 1..n : /\ j # n => b[j] = a[j]
                           /\ b[j].at = a[j].at /\ b[j].base = a[j].base
        /\ b[n].done = a[n].done + 1
    <2> DEFINE g == [a[n] EXCEPT !.done = @ + 1]
    <2>1. a[n] \in FrameType
      BY <1>1
    <2>2. /\ g \in FrameType /\ g.at = a[n].at /\ g.base = a[n].base
          /\ g.done = a[n].done + 1
      BY <2>1 DEF FrameType
    <2>3. b = [a EXCEPT ![n] = g]
      OBVIOUS
    <2> HIDE DEF g, FrameType, b
    <2>4. b \in Seq(FrameType) /\ Len(b) = n /\ b[n] = g /\ \A j \in 1..n : j # n => b[j] = a[j]
      BY <1>1, <2>2, <2>3
    <2> QED
      BY <2>2, <2>4
  <1>4. \A k \in 1..n : a[k].base \in Nat /\ a[k].done \in Nat
    <2>1. \A k \in 1..n : a[k] \in FrameType
      <3> HIDE DEF FrameType
      <3> QED
        BY <1>1
    <2> QED
      BY <2>1 DEF FrameType
  <1>5. /\ code[q].op = "range" => Pending(p, code[q].x) = 1
        /\ \A k \in 1..n - 1 : code[a[k].at].op = "range" => Pending(p, code[a[k].at].x) = 0
    BY CloseCounted
  <1>6. \A x : Pending(q + 1, x) = 0
    <2>1. code[q].op # "inc"
      BY <1>2, Zenon DEF Counted
    <2> QED
      BY <1>2, <2>1, PendingAfter
  <1> HIDE DEF b
  <1>7. Tracked(q + 1, b, nm)
    <2> SUFFICES ASSUME NEW k \in 2..Len(b), Ranged(b[k])
                 PROVE  nm[code[b[k].at].x] = b[k - 1].base + b[k].done
                                              + Pending(q + 1, code[b[k].at].x)
      BY DEF Tracked
    <2> DEFINE x == code[a[k].at].x
    <2>1. k \in 1..n /\ k \in 2..Len(a) /\ k - 1 \in 1..n
      BY <1>3
    <2>2. b[k].at = a[k].at /\ b[k - 1].base = a[k - 1].base
      BY <1>3, <2>1
    <2>3. Ranged(a[k]) /\ code[a[k].at].op = "range"
      BY <2>2 DEF Ranged
    <2>4. nm[x] = a[k - 1].base + a[k].done + Pending(p, x)
      BY <2>1, <2>3 DEF Counting, Tracked
    <2>5. Pending(q + 1, x) = 0 /\ a[k - 1].base \in Nat /\ a[k].done \in Nat
      BY <1>4, <1>6, <2>1
    <2>6. CASE k = n
      <3>1. Pending(p, x) = 1 /\ b[k].done = a[k].done + 1
        BY <1>3, <1>5, <2>3, <2>6
      <3> HIDE DEF x
      <3>2. nm[x] = a[k - 1].base + (a[k].done + 1) + Pending(q + 1, x)
        BY <2>4, <2>5, <3>1
      <3> QED
        BY <2>2, <3>1, <3>2 DEF x
    <2>7. CASE k # n
      <3>1. k \in 1..n - 1 /\ b[k] = a[k]
        BY <1>1, <1>3, <2>1, <2>7
      <3>2. Pending(p, x) = 0
        BY <1>5, <2>3, <3>1
      <3> HIDE DEF x
      <3>3. nm[x] = a[k - 1].base + a[k].done + Pending(q + 1, x)
        BY <2>4, <2>5, <3>2
      <3> QED
        BY <2>2, <3>1, <3>3 DEF x
    <2> QED
      BY <2>6, <2>7
  <1>8. Based(q + 1, b, nm)
    <2> SUFFICES ASSUME q + 1 <= Len(code), code[q + 1].op = "range" PROVE FALSE
      BY DEF Based
    <2> HIDE DEF q
    <2>3. Len(code) \in Nat
      BY FinishedIs
    <2>1. q + 1 \in 1..Len(code) /\ (q + 1) - 1 = q
      BY <1>2, <2>3
    <2>2. code[q].op = "scope"
      BY <2>1 DEF Tidy, Timed, IsLine
    <2> QED
      BY <1>2, <2>2, Zenon DEF Counted
  <1>9. Counting(q + 1, b, nm)
    BY <1>7, <1>8 DEF Counting
  <1> QED
    BY <1>9 DEF Last, b, q

(* The end of a block.                                                     *)
LEMMA EndTallies ==
  ASSUME Course, Tidy(code), Counting(pc, active, num), EndOfBlock
  PROVE  Tallied
  <1> DEFINE q == TopFrame.at
             o == code[q].op
             n == Len(active)
  <1>1. /\ state = "running" /\ pc <= Len(code) /\ code[pc].op = "close"
        /\ vars' = vars /\ num' = num
        /\ o \in Branches => active' = Front(active) /\ pc' = PastElse(pc + 1)
        /\ o = "while" => active' = Front(active) /\ pc' = q
        /\ o \in Counted => \/ /\ active' = [active EXCEPT ![n].done = @ + 1]
                               /\ pc' = q + 1
                            \/ active' = Front(active) /\ pc' = pc + 1
        /\ o = "scope" => active' = Front(active) /\ pc' = pc + 1
    BY EndDoes
  <1>2. Finished /\ pc \in 1..Len(code) /\ Nest(pc, active)
    BY <1>1, TalliesIs
  <1>3. /\ Pair(code, q, pc) /\ n \in Nat /\ n - 1 \in 0..n
        /\ \A k \in 1..n - 1 : code[active[k].at].op = "range" =>
             Pending(pc, code[active[k].at].x) = 0
    <2>1. Pair(code, q, pc) /\ n \in Nat /\ n \in 1..n
      BY <1>1, <1>2, NestClose DEF TopFrame, Last
    <2> QED
      BY <1>1, <1>2, <2>1, CloseCounted
  <1>4. \A m \in 1..Len(code) : code[m].op = "close" => Counting(m + 1, Front(active), num)
    <2> TAKE m \in 1..Len(code)
    <2> HAVE code[m].op = "close"
    <2>1. Counting(m + 1, SubSeq(active, 1, n - 1), num)
      BY <1>2, <1>3, CountOut
    <2> QED
      BY <2>1 DEF Front
  <1>5. o \in Branches => Counting(PastElse(pc + 1), Front(active), num)
    <2> SUFFICES ASSUME o \in Branches PROVE Counting(PastElse(pc + 1), Front(active), num)
      OBVIOUS
    <2>1. PICK L, P : Paths(code, L, P) /\ Placed(pc, active, L)
      BY <1>1, RunningIs DEF Led
    <2>2. pc + 1 \in P
      <3>1. q \in 1..Len(code)
        BY <1>3 DEF Pair
      <3>2. Joins(o, q, pc, L, P) /\ pc \in L
        BY <1>2, <1>3, <2>1, <3>1 DEF Paths, Placed
      <3> QED
        BY <3>2 DEF Joins
    <2>3. Passed(pc + 1, PastElse(pc + 1))
      BY <1>2, <2>1, <2>2, PastElseFinds
    <2> DEFINE e == PastElse(pc + 1)
    <2> HIDE DEF e
    <2>4. /\ e \in pc + 1..Len(code) + 1 /\ Bal(code, e - 1) = Bal(code, (pc + 1) - 1)
          /\ \A d \in pc + 1..e - 1 : \/ code[d].op = "close"
                                      \/ Bal(code, d) > Bal(code, (pc + 1) - 1)
      BY <2>3 DEF Passed, e
    <2>5. e - 1 \in 1..Len(code) /\ (e - 1) + 1 = e /\ (pc + 1) - 1 = pc
          /\ (e - 1 = pc \/ e - 1 \in pc + 1..e - 1)
      BY <1>2, <2>4, FinishedIs
    <2>6. Bal(code, e - 1) \in Int
      <3>1. e - 1 \in 0..Len(code)
        BY <2>5, FinishedIs
      <3> QED
        BY <1>2, <3>1, FinishedIs
    <2>7. code[e - 1].op = "close"
      <3>1. ~(Bal(code, e - 1) > Bal(code, (pc + 1) - 1))
        BY <2>4, <2>6
      <3> QED
        BY <1>1, <2>4, <2>5, <3>1
    <2>8. Counting((e - 1) + 1, Front(active), num)
      BY <1>4, <2>5, <2>7
    <2> QED
      BY <2>5, <2>8 DEF e
  <1>6. o = "while" => Counting(q, Front(active), num)
    BY <1>1, <1>2, CountBack DEF TopFrame
  <1>7. o \in Counted => Counting(q + 1, [active EXCEPT ![n].done = @ + 1], num)
    BY <1>1, <1>2, CountAgain DEF TopFrame
  <1>8. Counting(pc + 1, Front(active), num)
    BY <1>1, <1>2, <1>4
  <1>9. o \in Branches \/ o = "while" \/ o \in Counted \/ o = "scope"
    <2>1. o \in Openings
      BY <1>3 DEF Pair
    <2> QED
      BY <2>1, Zenon DEF Openings, Loops, Branches, Counted
  <1>10. Counting(pc', active', num)
    BY <1>1, <1>5, <1>6, <1>7, <1>8, <1>9, Zenon
  <1> QED
    BY <1>1, <1>10 DEF Tallied

(* A `break`.                                                              *)
LEMMA BreakTallies ==
  ASSUME Course, Tidy(code), Counting(pc, active, num), BreakLoop
  PROVE  Tallied
  <1> DEFINE q == active[Innermost].at
             k == Innermost - 1
  <1>1. /\ state = "running" /\ pc <= Len(code) /\ code[pc].op = "break"
        /\ vars' = vars /\ num' = num
        /\ active' = SubSeq(active, 1, k) /\ pc' = Matching(q) + 1
    BY Zenon DEF BreakLoop, At, Op, Go
  <1>2. /\ Finished /\ Compiles /\ pc \in 1..Len(code) /\ Nest(pc, active)
    BY <1>1, TalliesIs
  <1>3. code[pc].op \in {"break", "continue"} /\ code[pc].op \notin {"continue", "close"}
    BY <1>1, Zenon
  <1>4. Innermost \in 1..Len(active) /\ Len(active) \in Nat
    <2>1. Len(active) \in Nat
      BY <1>1, RunningIs
    <2> QED
      BY <1>2, <1>3, <2>1, InnermostIs
  <1>5. Matching(q) \in 1..Len(code) /\ code[Matching(q)].op = "close"
    <2>1. Matching(q) \in 1..Len(code) /\ Pair(code, q, Matching(q))
      BY <1>2, <1>4, NestPair
    <2> QED
      BY <2>1 DEF Pair
  <1>6. k \in 0..Len(active)
    BY <1>4
  <1>7. \A j \in 1..k : code[active[j].at].op = "range" => Pending(pc, code[active[j].at].x) = 0
    BY <1>2, <1>3, PendingNone
  <1> HIDE DEF q, k
  <1>8. Counting(Matching(q) + 1, SubSeq(active, 1, k), num)
    BY <1>2, <1>5, <1>6, <1>7, CountOut
  <1> QED
    BY <1>1, <1>8 DEF Tallied

(* A `continue`: what is emitted in front of it is what stands in front of *)
(* the closing line.                                                       *)
LEMMA ContinueTallies ==
  ASSUME Course, Tidy(code), Counting(pc, active, num), ContinueLoop
  PROVE  Tallied
  <1> DEFINE k == Innermost
             m == Matching(active[k].at)
             b == SubSeq(active, 1, k)
  <1>1. /\ state = "running" /\ pc <= Len(code) /\ code[pc].op = "continue"
        /\ vars' = vars /\ num' = num /\ active' = b /\ pc' = m
    BY Zenon DEF ContinueLoop, At, Op, Go
  <1>2. /\ Finished /\ Compiles /\ pc \in 1..Len(code) /\ Nest(pc, active)
        /\ active \in Seq(FrameType) /\ Len(active) \in Nat
    BY <1>1, TalliesIs, RunningIs
  <1>3. k \in 1..Len(active) /\ k \in 0..Len(active)
    <2>1. code[pc].op \in {"break", "continue"}
      BY <1>1, Zenon
    <2> QED
      BY <1>2, <2>1, InnermostIs
  <1>4. code[m].op = "close"
    BY <1>2, <1>3, NestPair DEF Pair
  <1>5. \A x : Pending(pc, x) = Pending(m, x)
    BY <1>1, <1>2, ContinueCounted
  <1>6. Len(b) = k /\ \A j \in 1..k : b[j] = active[j]
    BY <1>2, <1>3, CutFrames
  <1> HIDE DEF k, m, b
  <1>7. Based(m, b, num)
    <2>1. code[m].op # "range"
      BY <1>4, Zenon
    <2> QED
      BY <2>1 DEF Based
  <1>8. Len(b) \in Nat /\ Len(b) <= Len(active) /\ \A j \in 1..Len(b) : b[j] = active[j]
    BY <1>2, <1>3, <1>6
  <1>9. \A j \in 2..Len(b) : code[active[j].at].op = "range" =>
          Pending(m, code[active[j].at].x) = Pending(pc, code[active[j].at].x)
    BY <1>5
  <1>10. Counting(m, b, num)
    BY <1>2, <1>7, <1>8, <1>9, CountMove
  <1> QED
    BY <1>1, <1>10 DEF Tallied

(* The end of the run.                                                     *)
LEMMA StopTallies ==
  ASSUME Return \/ EndOfBody
  PROVE  Tallied
  <1>1. vars' = vars /\ state' \in {"returned", "fellOff"}
    BY Zenon DEF Return, EndOfBody, Stop
  <1>2. state' # "running"
    BY <1>1, Zenon
  <1> QED
    BY <1>1, <1>2 DEF Tallied

(* While a body runs, what its ranges have counted is right.               *)
Keeping == state = "running" => Counting(pc, active, num)

(* A step that leaves the reader alone changes no judgement.               *)
LEMMA CountStays ==
  ASSUME vars' = vars
  PROVE  Counting(pc, active, num)' <=> Counting(pc', active', num')
  <1>1. code' = code
    BY Zenon DEF vars
  <1>2. \A h : Unset(h)' <=> Unset(h)
    BY <1>1 DEF Unset, Matching, Count, IsLine
  <1>3. \A p, x : Pending(p, x)' = Pending(p, x)
    BY <1>1 DEF Pending, IsLine
  <1>4. Tracked(pc, active, num)' <=> Tracked(pc', active', num')
    BY <1>1, <1>2, <1>3 DEF Tracked, Ranged
  <1>5. Based(pc, active, num)' <=> Based(pc', active', num')
    BY <1>1 DEF Based
  <1> QED
    BY <1>4, <1>5 DEF Counting

(* Nothing is counted before the run.                                      *)
LEMMA KeepingFirst ==
  ASSUME RunInit
  PROVE  Keeping
  <1>1. state = "off"
    BY Zenon DEF RunInit
  <1> QED
    BY <1>1, Zenon DEF Keeping

(* Every step of the reader or of the run.                                 *)
LEMMA KeepingKept ==
  ASSUME Course, Timer, Keeping, [RunNext]_allVars
  PROVE  Keeping'
  <1>1. CASE UNCHANGED allVars
    <2>1. vars' = vars /\ pc' = pc /\ active' = active /\ num' = num /\ state' = state
      BY <1>1, Zenon DEF allVars, runVars
    <2>2. Counting(pc, active, num)' <=> Counting(pc, active, num)
      BY <2>1, CountStays
    <2> QED
      BY <2>1, <2>2 DEF Keeping
  <1>2. CASE Parse /\ UNCHANGED runVars
    <2>1. state' = state
      BY <1>2, Zenon DEF runVars
    <2>2. verdict = "parse"
      BY <1>2, StepReads DEF Course, Written
    <2>3. state = "off"
      BY <2>2, Zenon DEF Course
    <2>4. state' # "running"
      BY <2>1, <2>3, Zenon
    <2> QED
      BY <2>4, Zenon DEF Keeping
  <1>3. CASE Start
    <2>1. state = "off" /\ vars' = vars /\ pc' = pc /\ active' = active /\ num' = num
      BY <1>3, Zenon DEF Start
    <2>2. active = <<>>
      BY <2>1, Zenon DEF Course
    <2>3. Len(active) = 0 /\ 2..Len(active) = {}
      BY <2>2
    <2>4. Counting(pc, active, num)
      BY <2>3 DEF Counting, Tracked, Based
    <2>5. Counting(pc, active, num)'
      BY <2>1, <2>4, CountStays
    <2> QED
      BY <2>5, Zenon DEF Keeping
  <1>4. CASE Run /\ ~Start
    <2>1. state = "running"
      BY <1>4, RunArrives
    <2>2. Tidy(code)
      <3>1. verdict = "accepted"
        BY <2>1, RunningIs
      <3> QED
        BY <3>1, Zenon DEF Timer
    <2>3. Counting(pc, active, num)
      BY <2>1, Zenon DEF Keeping
    <2>4. \/ Declare \/ Access \/ Compute \/ Free \/ Assign \/ Branch
          \/ EnterScope \/ EnterLoop \/ EndOfBlock \/ BreakLoop \/ ContinueLoop \/ Return
          \/ EndOfBody
      BY <1>4, Zenon DEF Run
    <2>5. Tallied
      BY <2>2, <2>3, <2>4, LineTallies, AssignTallies, DeclareTallies, ScopeTallies,
         HeadTallies, EndTallies, BreakTallies, ContinueTallies, StopTallies, Zenon
    <2>6. vars' = vars /\ (state' = "running" => Counting(pc', active', num'))
      BY <2>5, Zenon DEF Tallied
    <2> QED
      BY <2>6, CountStays DEF Keeping
  <1> QED
    BY <1>1, <1>2, <1>3, <1>4, Zenon DEF RunNext

(* A range that begins an iteration has advanced its variable as often as  *)
(* it has finished one.                                                    *)
LEMMA KeepingAdvances ==
  ASSUME Course, Timer, Keeping
  PROVE  RangeVariableAdvances
  <1> SUFFICES ASSUME NEW k \in 2..Len(active), state = "running", k = Len(active),
                      code[active[k].at].op = "range", pc = active[k].at + 1,
                      ~\E q \in active[k].at..Matching(active[k].at) :
                         code[q] = Instr("set", code[active[k].at].x)
               PROVE  num[code[active[k].at].x] = active[k - 1].base + active[k].done
    BY Zenon DEF RangeVariableAdvances
  <1> DEFINE h == active[k].at
             x == code[h].x
  <1>1. /\ Finished /\ active \in Seq(FrameType) /\ Len(active) \in Nat /\ verdict = "accepted"
        /\ Led(pc, active)
    BY RunningIs
  <1>2. Nest(pc, active) /\ Counting(pc, active, num)
    BY <1>1 DEF Led, Placed, Keeping
  <1>3. Tidy(code)
    BY <1>1, Zenon DEF Timer
  <1>4. k \in 1..Len(active) /\ k - 1 \in 1..Len(active)
    BY <1>1
  <1>5. h \in 1..Len(code) /\ Matching(h) \in 1..Len(code)
    BY <1>1, <1>2, <1>4, NestPair
  <1>6. Unset(h)
    <2> SUFFICES ASSUME NEW q \in h..Matching(h), IsLine(code[q], "set", x) PROVE FALSE
      BY DEF Unset
    <2>1. q \in 1..Len(code)
      BY <1>1, <1>5, FinishedIs
    <2>2. code[q] \in Line
      <3>1. code \in Seq(Line)
        BY <1>1 DEF Finished
      <3> HIDE DEF Line
      <3> QED
        BY <2>1, <3>1
    <2>3. code[q] = Instr("set", x)
      BY <2>2 DEF IsLine, Line, Instr
    <2> QED
      BY <2>3
  <1>7. Pending(pc, x) = 0
    <2>1. code[h].op # "inc"
      BY Zenon
    <2> QED
      BY <1>1, <1>5, <2>1, PendingAfter
  <1>8. num[x] = active[k - 1].base + active[k].done + Pending(pc, x)
    BY <1>2, <1>6 DEF Counting, Tracked, Ranged
  <1>9. active[k - 1].base \in Nat /\ active[k].done \in Nat
    <2>1. active[k - 1] \in FrameType /\ active[k] \in FrameType
      <3> HIDE DEF FrameType
      <3> QED
        BY <1>1, <1>4
    <2> QED
      BY <2>1 DEF FrameType
  <1> HIDE DEF x, h
  <1>10. num[x] = active[k - 1].base + active[k].done
    BY <1>7, <1>8, <1>9
  <1> QED
    BY <1>10 DEF x, h

(* `for i in a..b` iterates the half-open range (SPEC.md 6): while no more *)
(* blocks are open than close_block() keeps the heights of, the variable   *)
(* of an entered range is a + k when its k-th iteration begins, however    *)
(* the earlier ones ended (at their end or by a `continue`, which emits    *)
(* the advance on its own) and whatever else the body declares or nests.   *)
THEOREM RangesAdvance == RunSpec /\ []Shallow => []RangeVariableAdvances
  <1>1. RunInit => Keeping /\ Timer
    BY KeepingFirst, TimerFirst DEF RunInit
  <1>2. Course /\ Keeping /\ Timer /\ Shallow /\ [RunNext]_allVars => (Keeping /\ Timer)'
    <2> SUFFICES ASSUME Course, Keeping, Timer, Shallow, [RunNext]_allVars
                 PROVE  (Keeping /\ Timer)'
      OBVIOUS
    <2>1. Keeping'
      BY KeepingKept
    <2>2. [Parse]_vars
      BY RunSteps
    <2>3. Written
      BY DEF Course
    <2> QED
      BY <2>1, <2>2, <2>3, TimerKept
  <1>3. Course /\ Keeping /\ Timer => RangeVariableAdvances
    BY KeepingAdvances
  <1> QED
    BY <1>1, <1>2, <1>3, CourseAlways, PTL DEF RunSpec

(* The same for bodies that are too short to nest so deep.                 *)
THEOREM ShortBodiesAdvance ==
  ASSUME MaxTokens + 3 <= SavedBlocks
  PROVE  RunSpec => []RangeVariableAdvances
  <1>1. Reading => Shallow
    BY ShortIsShallow
  <1> QED
    BY <1>1, RunIsReading, ReadingAlways, RangesAdvance, PTL

=============================================================================
