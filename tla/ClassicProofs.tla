---------------------------- MODULE ClassicProofs ----------------------------
(***************************************************************************)
(* The front end of Lu Classic.  First its include expander: include-once, *)
(* for every tree of files, every search and every depth limit.  Then the  *)
(* semantic checker, for every program whose tree is one the parser makes, *)
(* every library and every size of the symbol table.  The two share the    *)
(* lemmas about numbers and recursion that come first.                     *)
(***************************************************************************)
EXTENDS ClassicIncludes, Semantic, WellFoundedInduction, FiniteSetTheorems,
        SequenceTheorems, TLAPS

-----------------------------------------------------------------------------
(* A set of numbers has a least one: the order on pairs first.             *)
LEMMA LeastIn ==
  ASSUME NEW R, NEW S \in SUBSET Nat,
         \A x, y \in Nat : y < x => <<y, x>> \in R,
         NEW x \in S, \A y \in S : ~(<<y, x>> \in R)
  PROVE  \A y \in S : x <= y
  <1> SUFFICES ASSUME NEW y \in S, ~(x <= y) PROVE FALSE
    OBVIOUS
  <1>1. x \in Nat /\ y \in Nat /\ y < x
    OBVIOUS
  <1>2. <<y, x>> \in R
    BY <1>1, Zenon
  <1> QED
    BY <1>2, Zenon

LEMMA Least ==
  ASSUME NEW S \in SUBSET Nat, S # {}
  PROVE  \E x \in S : \A y \in S : x <= y
  <1> DEFINE R == OpToRel(<, Nat)
  <1>1. \E x \in S : \A y \in S : ~(<<y, x>> \in R)
    BY NatLessThanWellFounded, WFMin
  <1>2. \A x, y \in Nat : y < x => <<y, x>> \in R
    BY DEF OpToRel
  <1> HIDE DEF R
  <1> QED
    BY <1>1, <1>2, LeastIn

(* Induction over an interval: a set with its first number that holds the  *)
(* next one with each holds them all.                                      *)
LEMMA UpTo ==
  ASSUME NEW a \in Int, NEW b \in Int, NEW S, a <= b => a \in S,
         \A k \in a .. b - 1 : k \in S => k + 1 \in S
  PROVE  a .. b \subseteq S
  <1> SUFFICES ASSUME NEW k \in a .. b, k \notin S PROVE FALSE
    OBVIOUS
  <1> DEFINE M == {m \in Nat : a + m <= b /\ a + m \notin S}
  <1>1. k - a \in M
    OBVIOUS
  <1>2. PICK m \in M : \A x \in M : m <= x
    BY <1>1, Least
  <1>3. m \in Nat /\ a + m <= b /\ a + m \notin S
    BY <1>2
  <1>4. m # 0
    BY <1>3
  <1>5. m - 1 \in Nat /\ a + (m - 1) \in a .. b - 1 /\ (a + (m - 1)) + 1 = a + m
    BY <1>3, <1>4
  <1>6. a + (m - 1) \notin S
    BY <1>3, <1>5
  <1>7. m - 1 \in M
    BY <1>3, <1>5, <1>6
  <1> QED
    BY <1>2, <1>3, <1>7

(* f is defined by recursion over 0 .. n, from base by the steps G.        *)
Recursive(X, base, n, G, f) ==
  /\ f \in [0 .. n -> X]
  /\ f[0] = base
  /\ \A k \in 1 .. n : f[k] = G[<<k, f[k - 1]>>]

(* There is such a function.                                               *)
LEMMA Recursion ==
  ASSUME NEW X, NEW base \in X, NEW n \in Nat, NEW G \in [(1 .. n) \X X -> X]
  PROVE  \E f : Recursive(X, base, n, G, f)
  <1> DEFINE Upto(m) == \E f \in [0 .. m -> X] :
                          /\ f[0] = base
                          /\ \A k \in 1 .. m : f[k] = G[<<k, f[k - 1]>>]
             S == {m \in 0 .. n : Upto(m)}
  <1>1. 0 \in S
    <2> DEFINE f == [k \in 0 .. 0 |-> base]
    <2>1. f \in [0 .. 0 -> X] /\ f[0] = base /\ \A k \in 1 .. 0 : f[k] = G[<<k, f[k - 1]>>]
      OBVIOUS
    <2> HIDE DEF f
    <2>2. Upto(0)
      BY <2>1
    <2> QED
      BY <2>2
  <1>2. ASSUME NEW m \in 0 .. n - 1, m \in S PROVE m + 1 \in S
    <2>1. PICK f \in [0 .. m -> X] : /\ f[0] = base
                                     /\ \A k \in 1 .. m : f[k] = G[<<k, f[k - 1]>>]
      BY <1>2
    <2>2. G[<<m + 1, f[m]>>] \in X
      OBVIOUS
    <2> DEFINE g == [k \in 0 .. m + 1 |-> IF k <= m THEN f[k] ELSE G[<<m + 1, f[m]>>]]
    <2>3. g \in [0 .. m + 1 -> X] /\ g[0] = base
      BY <2>1, <2>2
    <2>4. ASSUME NEW k \in 1 .. m + 1 PROVE g[k] = G[<<k, g[k - 1]>>]
      <3>1. k - 1 \in 0 .. m /\ g[k - 1] = f[k - 1]
        OBVIOUS
      <3>2. CASE k <= m
        BY <2>1, <3>1, <3>2
      <3>3. CASE k = m + 1
        <4>1. k - 1 = m /\ g[k] = G[<<m + 1, f[m]>>]
          BY <3>3
        <4> QED
          BY <3>1, <3>3, <4>1, Zenon
      <3> QED
        BY <3>2, <3>3
    <2> HIDE DEF g
    <2>5. Upto(m + 1)
      BY <2>3, <2>4
    <2> QED
      BY <2>5
  <1> HIDE DEF S
  <1>3. 0 .. n \subseteq S
    <2>1. \A k \in 0 .. n - 1 : k \in S => k + 1 \in S
      BY <1>2
    <2> QED
      BY <1>1, <2>1, UpTo
  <1> QED
    BY <1>3 DEF S, Recursive

\* The files under the main one are being read by one activation each, under
\* their canonical paths, and have all been remembered.
StackInv ==
  /\ stack[1].path = Main
  /\ \A k \in 2..Len(stack) :
       /\ stack[k].path \in seen
       /\ RealPath[stack[k].path] = stack[k].path
  /\ \A j, k \in 2..Len(stack) : stack[j].path = stack[k].path => j = k

\* Nothing of a file is in the unit before the file is remembered, and of a
\* file being read there are only lines above the current one.
OutInv ==
  /\ \A k \in 1..Len(out) : out[k][1] \in seen \cup {RealPath[Main]}
  /\ \A k \in 2..Len(stack) : \A i \in 1..Len(out) :
       (out[i][1] = stack[k].path /\ out[i][1] # RealPath[Main])
         => out[i][2] < stack[k].line

\* The file that would be nested too deep is none of those being read.
DepthInv ==
  /\ IsFiniteSet(seen)
  /\ status = "tooDeep" =>
       /\ Len(stack) > MaxDepth
       /\ \E file \in seen : \A k \in 2..Len(stack) : stack[k].path # file

IInv == TypeOK /\ StackInv /\ OutInv /\ OncePerFile /\ DepthInv

----------------------------------------------------------------------------
\* The activation that is running, and the file it reads.
LEMMA TopFrame ==
  ASSUME TypeOK
  PROVE  /\ Len(stack) \in Nat \ {0}
         /\ Top \in Frame
         /\ Top.path \in Path
         /\ Top.line \in Nat \ {0}
         /\ RealPath[Top.path] \in Path
         /\ Lines(Top.path) \in Seq(Line)
  <1>1. stack \in Seq(Frame) /\ stack # <<>>
    BY DEF TypeOK
  <1>2. Len(stack) \in Nat \ {0}
    BY <1>1, EmptySeq
  <1>3. Top \in Frame
    BY <1>1, <1>2, ElementOfSeq DEF Top
  <1>4. Top.path \in Path /\ Top.line \in Nat \ {0}
    BY <1>3 DEF Frame
  <1>5. RealPath[Top.path] \in Path
    BY <1>4, ClassicAssumption DEF ClassicAssumption
  <1>6. Lines(Top.path) \in Seq(Line)
    BY <1>5 DEF TypeOK, Lines
  <1> QED
    BY <1>2, <1>3, <1>4, <1>5, <1>6

\* The line counter of the running activation moves, the others stay.
LEMMA NextLineStack ==
  ASSUME TypeOK
  PROVE  /\ NextLine \in Seq(Frame)
         /\ Len(NextLine) = Len(stack)
         /\ NextLine[Len(stack)] = [path |-> Top.path, line |-> Top.line + 1]
         /\ \A k \in 1..Len(stack) :
              k # Len(stack) => NextLine[k] = stack[k]
  <1> DEFINE moved == [path |-> Top.path, line |-> Top.line + 1]
  <1>1. moved \in Frame
    BY TopFrame DEF Frame
  <1>2. [Top EXCEPT !.line = Top.line + 1] = moved
    BY TopFrame DEF Frame
  <1>3. NextLine = [stack EXCEPT ![Len(stack)] = moved]
    BY <1>2 DEF NextLine, Top
  <1>4. stack \in Seq(Frame) /\ Len(stack) \in 1..Len(stack)
    BY TopFrame DEF TypeOK
  <1> HIDE DEF moved
  <1>5. /\ [stack EXCEPT ![Len(stack)] = moved] \in Seq(Frame)
        /\ Len([stack EXCEPT ![Len(stack)] = moved]) = Len(stack)
        /\ \A j \in 1..Len(stack) :
             [stack EXCEPT ![Len(stack)] = moved][j] =
               IF j = Len(stack) THEN moved ELSE stack[j]
    BY <1>1, <1>4, ExceptSeq
  <1> QED
    BY <1>3, <1>4, <1>5 DEF moved

\* What a directive names is a path, and its canonical form is a fixed point.
LEMMA PullTarget ==
  ASSUME TypeOK, AtDirective, Named # NoPath
  PROVE  /\ Target \in Path
         /\ RealPath[Target] = Target
  <1>1. Top.path \in Path /\ Current \in Name
    BY TopFrame DEF AtDirective
  <1>2. Named \in Path
    BY <1>1, ClassicAssumption DEF ClassicAssumption, Named
  <1> QED
    BY <1>2, ClassicAssumption DEF ClassicAssumption, Target

LEMMA InitInv == Init => IInv
  <1> SUFFICES ASSUME Init PROVE IInv
    OBVIOUS
  <1>1. Main \in Path /\ RealPath[Main] \in Path
    BY ClassicAssumption DEF ClassicAssumption
  <1>2. body \in [Path -> Seq(Line)]
    BY ClassicAssumption DEF ClassicAssumption, Init
  <1>3. [path |-> Main, line |-> 1] \in Frame
    BY <1>1 DEF Frame
  <1>4. /\ stack \in Seq(Frame) /\ stack # <<>>
        /\ Len(stack) = 1 /\ stack[1] = [path |-> Main, line |-> 1]
    BY <1>3 DEF Init
  <1>5. Len(body[RealPath[Main]]) \in Nat
    BY <1>1, <1>2, LenProperties
  <1>6. \A k \in 1..Len(stack) :
          stack[k].line <= Len(body[RealPath[stack[k].path]]) + 1
    BY <1>4, <1>5
  <1>7. TypeOK
    BY <1>2, <1>4, <1>6 DEF Init, TypeOK
  <1>8. StackInv /\ OutInv
    BY <1>4 DEF Init, StackInv, OutInv
  <1>9. OncePerFile
    BY DEF Init, OncePerFile
  <1>10. DepthInv
    BY FS_EmptySet DEF Init, DepthInv
  <1> QED
    BY <1>7, <1>8, <1>9, <1>10 DEF IInv

\* Reading a line keeps every activation at its file, and no line counter
\* goes back or past the end of its file.
LEMMA NextLineFrames ==
  ASSUME TypeOK, Reading
  PROVE  \A k \in 1..Len(stack) :
           /\ NextLine[k].path = stack[k].path
           /\ NextLine[k].line \in Nat \ {0}
           /\ NextLine[k].line >= stack[k].line
           /\ NextLine[k].line <= Len(body[RealPath[stack[k].path]]) + 1
           /\ k = Len(stack) => NextLine[k].line = Top.line + 1
  <1> SUFFICES ASSUME NEW k \in 1..Len(stack)
               PROVE  /\ NextLine[k].path = stack[k].path
                      /\ NextLine[k].line \in Nat \ {0}
                      /\ NextLine[k].line >= stack[k].line
                      /\ NextLine[k].line
                           <= Len(body[RealPath[stack[k].path]]) + 1
                      /\ k = Len(stack) => NextLine[k].line = Top.line + 1
    OBVIOUS
  <1>1. CASE k = Len(stack)
    <2>1. NextLine[k] = [path |-> Top.path, line |-> Top.line + 1]
      BY <1>1, NextLineStack
    <2>2. Len(body[RealPath[Top.path]]) \in Nat /\ Top.line \in Nat \ {0}
      BY TopFrame, LenProperties DEF Lines
    <2>3. Top.line <= Len(body[RealPath[Top.path]])
      BY DEF Reading, Lines
    <2> QED
      BY <1>1, <2>1, <2>2, <2>3 DEF Top
  <1>2. CASE k # Len(stack)
    <2>1. NextLine[k] = stack[k]
      BY <1>2, NextLineStack
    <2>2. stack[k] \in Frame
      BY ElementOfSeq DEF TypeOK
    <2>3. stack[k].line \in Nat \ {0}
      BY <2>2 DEF Frame
    <2>4. stack[k].line <= Len(body[RealPath[stack[k].path]]) + 1
      BY DEF TypeOK
    <2> QED
      BY <1>2, <2>1, <2>3, <2>4
  <1> QED
    BY <1>1, <1>2

\* What a step that only moves on to the next line preserves.
LEMMA AdvanceStack ==
  ASSUME IInv, Reading, stack' = NextLine, UNCHANGED <<body, seen, status>>
  PROVE  /\ Len(stack') = Len(stack) /\ Len(stack) \in Nat \ {0}
         /\ stack' \in Seq(Frame) /\ stack' # <<>>
         /\ \A k \in 1..Len(stack') :
              stack'[k].line <= Len(body'[RealPath[stack'[k].path]]) + 1
         /\ \A k \in 1..Len(stack) :
              /\ stack'[k].path = stack[k].path
              /\ stack'[k].line >= stack[k].line
         /\ StackInv'
         /\ DepthInv'
  <1>1. TypeOK
    BY DEF IInv
  <1>2. /\ NextLine \in Seq(Frame) /\ Len(NextLine) = Len(stack)
        /\ Len(stack) \in Nat \ {0} /\ NextLine # <<>>
    BY <1>1, NextLineStack, TopFrame, EmptySeq
  <1>3. \A k \in 1..Len(stack) :
          /\ NextLine[k].path = stack[k].path
          /\ NextLine[k].line >= stack[k].line
          /\ NextLine[k].line <= Len(body[RealPath[stack[k].path]]) + 1
    BY <1>1, NextLineFrames
  <1>4. StackInv'
    <2>1. 1 \in 1..Len(stack) /\ 2..Len(stack) \subseteq 1..Len(stack)
      BY <1>2
    <2> QED
      BY <1>2, <1>3, <2>1 DEF IInv, StackInv
  <1>5. DepthInv'
    <2>1. status # "tooDeep"
      BY DEF Reading
    <2> QED
      BY <2>1 DEF IInv, DepthInv
  <1> QED
    BY <1>2, <1>3, <1>4, <1>5

LEMMA AlreadyIncludedInv == IInv /\ AlreadyIncluded => IInv'
  <1> SUFFICES ASSUME IInv, AlreadyIncluded PROVE IInv'
    OBVIOUS
  <1>1. Reading /\ stack' = NextLine /\ UNCHANGED <<body, seen, out, status>>
    BY DEF AlreadyIncluded, AtDirective
  <1>2. TypeOK'
    BY <1>1, AdvanceStack DEF IInv, TypeOK
  <1>3. OutInv'
    <2> SUFFICES ASSUME NEW k \in 2..Len(stack'), NEW i \in 1..Len(out),
                        out[i][1] = stack'[k].path, out[i][1] # RealPath[Main]
                 PROVE  out[i][2] < stack'[k].line
      BY <1>1 DEF IInv, OutInv
    <2>1. k \in 2..Len(stack) /\ k \in 1..Len(stack)
      BY <1>1, AdvanceStack
    <2>2. stack'[k].path = stack[k].path /\ stack'[k].line >= stack[k].line
      BY <1>1, <2>1, AdvanceStack
    <2>3. out[i][2] < stack[k].line
      BY <2>1, <2>2 DEF IInv, OutInv
    <2>4. out[i] \in Place /\ stack[k] \in Frame /\ stack'[k] \in Frame
      BY <1>1, <2>1, AdvanceStack, ElementOfSeq DEF IInv, TypeOK
    <2> QED
      BY <2>2, <2>3, <2>4 DEF Place, Frame
  <1>4. OncePerFile'
    BY <1>1 DEF IInv, OncePerFile
  <1> QED
    BY <1>1, <1>2, <1>3, <1>4, AdvanceStack DEF IInv

LEMMA NotFoundInv == IInv /\ NotFound => IInv'
  <1> SUFFICES ASSUME IInv, NotFound PROVE IInv'
    OBVIOUS
  <1>1. /\ UNCHANGED <<body, stack, seen, out>>
        /\ status' = "missing"
    BY DEF NotFound
  <1> QED
    BY <1>1 DEF IInv, TypeOK, Errors, StackInv, OutInv, OncePerFile, DepthInv

\* A copied line is a new one: a file that is not the main one is read by one
\* activation, whose earlier lines are all above this one.
LEMMA CopyLineInv == IInv /\ CopyLine => IInv'
  <1> SUFFICES ASSUME IInv, CopyLine PROVE IInv'
    OBVIOUS
  <1> DEFINE new == <<RealPath[Top.path], Top.line>>
  <1>1. /\ Reading /\ stack' = NextLine /\ UNCHANGED <<body, seen, status>>
        /\ out' = Append(out, new)
    BY DEF CopyLine
  <1>2. /\ TypeOK /\ out \in Seq(Place) /\ Len(out) \in Nat
        /\ new \in Place
    BY TopFrame, LenProperties DEF IInv, TypeOK, Place
  <1>3. /\ out' \in Seq(Place) /\ Len(out') = Len(out) + 1
        /\ \A i \in 1..Len(out) : out'[i] = out[i]
        /\ out'[Len(out) + 1] = new
    <2> HIDE DEF new
    <2> QED
      BY <1>1, <1>2, AppendProperties
  <1>4. TypeOK'
    BY <1>1, <1>3, AdvanceStack DEF IInv, TypeOK
  <1>5. \A i \in 1..Len(out) : out[i] \in Place /\ out[i][2] \in Nat
    BY <1>2, ElementOfSeq DEF Place
  <1>6. ASSUME Len(stack) >= 2
        PROVE  Len(stack) \in 2..Len(stack) /\ RealPath[Top.path] = Top.path
    BY <1>2, <1>6, TopFrame DEF IInv, StackInv, Top
  <1>7. ASSUME Len(stack) < 2
        PROVE  RealPath[Top.path] = RealPath[Main]
    BY <1>2, <1>7, TopFrame DEF IInv, StackInv, Top
  <1>8. RealPath[Top.path] \in seen \cup {RealPath[Main]}
    <2>1. CASE Len(stack) >= 2
      BY <2>1, <1>6 DEF IInv, StackInv, Top
    <2>2. CASE Len(stack) < 2
      BY <2>2, <1>7
    <2> QED
      BY <1>2, <2>1, <2>2, TopFrame
  <1>9. OutInv'
    <2>1. \A i \in 1..Len(out') : out'[i][1] \in seen' \cup {RealPath[Main]}
      <3> SUFFICES ASSUME NEW i \in 1..Len(out')
                   PROVE  out'[i][1] \in seen' \cup {RealPath[Main]}
        OBVIOUS
      <3>1. CASE i \in 1..Len(out)
        BY <1>1, <1>3, <3>1 DEF IInv, OutInv
      <3>2. CASE i = Len(out) + 1
        BY <1>1, <1>3, <1>8, <3>2
      <3> QED
        BY <1>2, <1>3, <3>1, <3>2
    <2>2. ASSUME NEW k \in 2..Len(stack'), NEW i \in 1..Len(out'),
                 out'[i][1] = stack'[k].path, out'[i][1] # RealPath[Main]
          PROVE  out'[i][2] < stack'[k].line
      <3>1. /\ k \in 2..Len(stack) /\ k \in 1..Len(stack)
            /\ Len(stack) \in 2..Len(stack)
        BY <1>1, AdvanceStack
      <3>2. /\ stack'[k].path = stack[k].path
            /\ stack'[k].line >= stack[k].line
        BY <1>1, <3>1, AdvanceStack
      <3>3. stack[k].line \in Nat /\ stack'[k].line \in Nat
        <4>1. stack[k] \in Frame /\ stack'[k] \in Frame
          BY <1>1, <1>2, <1>4, <3>1, AdvanceStack, ElementOfSeq DEF TypeOK
        <4> QED
          BY <4>1 DEF Frame
      <3>4. CASE i \in 1..Len(out)
        <4>1. out[i][2] < stack[k].line
          BY <1>3, <2>2, <3>1, <3>2, <3>4 DEF IInv, OutInv
        <4> QED
          BY <1>3, <1>5, <3>2, <3>3, <3>4, <4>1
      <3>5. CASE i = Len(out) + 1
        <4>1. stack[k].path = stack[Len(stack)].path
          BY <1>3, <1>6, <2>2, <3>1, <3>2, <3>5 DEF Top
        <4>2. k = Len(stack)
          BY <3>1, <4>1 DEF IInv, StackInv
        <4>3. stack'[k].line = Top.line + 1
          BY <1>1, <1>2, <3>1, <4>2, NextLineFrames
        <4> QED
          BY <1>2, <1>3, <3>5, <4>3, TopFrame
      <3> QED
        BY <1>2, <1>3, <3>4, <3>5
    <2> QED
      BY <2>1, <2>2 DEF OutInv
  <1>10. OncePerFile'
    <2>1. ASSUME NEW i \in 1..Len(out), out[i] = new,
                 new[1] # RealPath[Main]
          PROVE  FALSE
      <3>1. Len(stack) >= 2
        BY <1>2, <1>7, <2>1, TopFrame
      <3>2. out[i][1] = stack[Len(stack)].path /\ out[i][2] = Top.line
        BY <1>6, <2>1, <3>1 DEF Top
      <3>3. out[i][2] < Top.line
        BY <1>6, <2>1, <3>1, <3>2 DEF IInv, OutInv, Top
      <3> QED
        BY <1>2, <3>2, <3>3, TopFrame
    <2> SUFFICES ASSUME NEW i \in 1..Len(out'), NEW j \in 1..Len(out'),
                        out'[i] = out'[j], out'[i][1] # RealPath[Main]
                 PROVE  i = j
      BY DEF OncePerFile
    <2>2. CASE i \in 1..Len(out) /\ j \in 1..Len(out)
      BY <1>3, <2>2 DEF IInv, OncePerFile
    <2>3. CASE i \in 1..Len(out) /\ j = Len(out) + 1
      BY <1>3, <2>1, <2>3
    <2>4. CASE i = Len(out) + 1 /\ j \in 1..Len(out)
      BY <1>3, <2>1, <2>4
    <2> QED
      BY <1>2, <1>3, <2>2, <2>3, <2>4
  <1> QED
    BY <1>1, <1>4, <1>9, <1>10, AdvanceStack DEF IInv

\* A file is remembered before it is read, so the new activation is the only
\* one of its file and the unit holds nothing of it.
LEMMA PullInInv == IInv /\ PullIn => IInv'
  <1> SUFFICES ASSUME IInv, PullIn PROVE IInv'
    OBVIOUS
  <1> DEFINE frame == [path |-> Target, line |-> 1]
  <1>1. /\ Reading /\ Target \notin seen /\ seen' = seen \cup {Target}
        /\ UNCHANGED <<body, out>> /\ status = "run"
    BY DEF PullIn, AtDirective, Reading
  <1>2. /\ TypeOK /\ Target \in Path /\ RealPath[Target] = Target
        /\ Len(stack) \in Nat \ {0} /\ frame \in Frame
    BY PullTarget, TopFrame DEF IInv, PullIn, Frame
  <1>3. IsFiniteSet(seen')
    BY <1>1, FS_AddElement DEF IInv, DepthInv
  <1>4. \A k \in 2..Len(stack) : stack[k].path # Target
    BY <1>1 DEF IInv, StackInv
  <1>5. OncePerFile'
    BY <1>1 DEF IInv, OncePerFile
  <1>6. CASE UNCHANGED stack
    <2>1. /\ status' \in {"unreadable", "dialect", "tooDeep"}
          /\ status' = "tooDeep" => Len(stack) > MaxDepth
      <3>1. stack # Append(NextLine, frame)
        <4> HIDE DEF frame
        <4>1. Len(Append(NextLine, frame)) = Len(stack) + 1
          BY <1>2, NextLineStack, AppendProperties
        <4> QED
          BY <1>2, <4>1
      <3> QED
        BY <1>6, <3>1 DEF PullIn
    <2>2. TypeOK'
      BY <1>1, <1>2, <1>6, <2>1 DEF TypeOK, Errors
    <2>3. StackInv' /\ OutInv'
      BY <1>1, <1>6 DEF IInv, StackInv, OutInv
    <2>4. DepthInv'
      BY <1>1, <1>3, <1>4, <1>6, <2>1 DEF DepthInv
    <2> QED
      BY <1>5, <2>2, <2>3, <2>4 DEF IInv
  <1>7. CASE stack' = Append(NextLine, frame) /\ UNCHANGED status
    <2>1. /\ NextLine \in Seq(Frame) /\ Len(NextLine) = Len(stack)
          /\ \A k \in 1..Len(stack) :
               /\ NextLine[k].path = stack[k].path
               /\ NextLine[k].line >= stack[k].line
               /\ NextLine[k].line <= Len(body[RealPath[stack[k].path]]) + 1
      BY <1>1, <1>2, NextLineStack, NextLineFrames
    <2>2. /\ stack' \in Seq(Frame) /\ stack' # <<>>
          /\ Len(stack') = Len(stack) + 1
          /\ \A k \in 1..Len(stack) : stack'[k] = NextLine[k]
          /\ stack'[Len(stack) + 1] = frame
      <3> HIDE DEF frame
      <3> QED
        BY <1>2, <1>7, <2>1, AppendProperties
    <2>3. TypeOK'
      <3>1. Len(body[RealPath[Target]]) \in Nat
        BY <1>2, LenProperties DEF TypeOK
      <3>2. ASSUME NEW k \in 1..Len(stack')
            PROVE  stack'[k].line <= Len(body'[RealPath[stack'[k].path]]) + 1
        <4>1. CASE k \in 1..Len(stack)
          BY <1>1, <2>1, <2>2, <4>1
        <4>2. CASE k = Len(stack) + 1
          BY <1>1, <2>2, <3>1, <4>2
        <4> QED
          BY <1>2, <2>2, <4>1, <4>2
      <3> QED
        BY <1>1, <1>2, <1>7, <2>2, <3>2 DEF TypeOK
    <2>4. StackInv'
      <3>1. stack'[1].path = Main
        BY <1>2, <2>1, <2>2 DEF IInv, StackInv
      <3>2. ASSUME NEW k \in 2..Len(stack')
            PROVE  \/ /\ k \in 2..Len(stack)
                      /\ stack'[k].path = stack[k].path
                   \/ k = Len(stack) + 1 /\ stack'[k].path = Target
        BY <1>2, <2>1, <2>2
      <3>3. ASSUME NEW k \in 2..Len(stack')
            PROVE  /\ stack'[k].path \in seen'
                   /\ RealPath[stack'[k].path] = stack'[k].path
        BY <1>1, <1>2, <3>2 DEF IInv, StackInv
      <3>4. ASSUME NEW j \in 2..Len(stack'), NEW k \in 2..Len(stack'),
                   stack'[j].path = stack'[k].path
            PROVE  j = k
        BY <1>4, <3>2, <3>4 DEF IInv, StackInv
      <3> QED
        BY <3>1, <3>3, <3>4 DEF StackInv
    <2>5. OutInv'
      <3>1. \A i \in 1..Len(out') : out'[i][1] \in seen' \cup {RealPath[Main]}
        BY <1>1 DEF IInv, OutInv
      <3>2. ASSUME NEW k \in 2..Len(stack'), NEW i \in 1..Len(out'),
                   out'[i][1] = stack'[k].path, out'[i][1] # RealPath[Main]
            PROVE  out'[i][2] < stack'[k].line
        <4>1. CASE k \in 2..Len(stack)
          <5>1. k \in 1..Len(stack)
            BY <4>1
          <5>2. /\ stack'[k].path = stack[k].path
                /\ stack'[k].line >= stack[k].line
            BY <2>1, <2>2, <5>1
          <5>3. out[i][2] < stack[k].line
            BY <1>1, <3>2, <4>1, <5>2 DEF IInv, OutInv
          <5>4. /\ out[i] \in Place /\ stack[k] \in Frame
                /\ stack'[k] \in Frame
            BY <1>1, <1>2, <2>2, <5>1, ElementOfSeq DEF TypeOK
          <5> QED
            BY <1>1, <5>2, <5>3, <5>4 DEF Place, Frame
        <4>2. CASE k = Len(stack) + 1
          BY <1>1, <2>2, <3>2, <4>2 DEF IInv, OutInv
        <4> QED
          BY <1>2, <2>2, <4>1, <4>2
      <3> QED
        BY <3>1, <3>2 DEF OutInv
    <2>6. DepthInv'
      BY <1>1, <1>3, <1>7 DEF DepthInv
    <2> QED
      BY <1>5, <2>3, <2>4, <2>5, <2>6 DEF IInv
  <1> QED
    BY <1>6, <1>7 DEF PullIn

LEMMA EndOfFileInv == IInv /\ EndOfFile => IInv'
  <1> SUFFICES ASSUME IInv, EndOfFile PROVE IInv'
    OBVIOUS
  <1>1. TypeOK /\ Len(stack) \in Nat \ {0} /\ UNCHANGED <<body, seen, out>>
    BY TopFrame DEF IInv, EndOfFile
  <1>2. CASE UNCHANGED stack /\ status' = "ok"
    BY <1>1, <1>2 DEF IInv, TypeOK, StackInv, OutInv, OncePerFile, DepthInv
  <1>3. CASE /\ Len(stack) # 1 /\ UNCHANGED status
             /\ stack' = SubSeq(stack, 1, Len(stack) - 1)
    <2>1. \A i \in 1..Len(stack) - 1 : stack[i] \in Frame
      BY <1>1, ElementOfSeq DEF TypeOK
    <2>2. /\ stack' \in Seq(Frame) /\ stack' # <<>>
          /\ Len(stack') = Len(stack) - 1
          /\ \A k \in 1..(Len(stack) - 1) : stack'[k] = stack[k]
      <3>1. 1 \in Int /\ Len(stack) - 1 \in Int /\ 1 <= Len(stack) - 1
        <4>1. \A n \in Nat \ {0} : n # 1 => n - 1 \in Int /\ 1 <= n - 1
          OBVIOUS
        <4>2. Len(stack) \in Nat \ {0} /\ Len(stack) # 1
          BY <1>1, <1>3
        <4>3. Len(stack) - 1 \in Int /\ 1 <= Len(stack) - 1
          BY <4>1, <4>2, Zenon
        <4> QED
          BY <4>3
      <3> DEFINE below == SubSeq(stack, 1, Len(stack) - 1)
      <3>2. /\ below \in Seq(Frame)
            /\ Len(below) = IF 1 <= Len(stack) - 1
                              THEN (Len(stack) - 1) - 1 + 1 ELSE 0
            /\ \A i \in 1..((Len(stack) - 1) - 1 + 1) : below[i] = stack[1 + i - 1]
        BY <2>1, <3>1, SubSeqProperties
      <3>3. Len(below) = Len(stack) - 1
        BY <3>1, <3>2
      <3>4. \A k \in 1..(Len(stack) - 1) : below[k] = stack[k]
        BY <3>1, <3>2
      <3> HIDE DEF below
      <3>5. below # <<>>
        BY <3>1, <3>3, EmptySeq
      <3>6. stack' = below
        BY <1>3 DEF below
      <3> QED
        BY <3>2, <3>3, <3>4, <3>5, <3>6
    <2>3. /\ \A k \in 1..Len(stack') : k \in 1..Len(stack) /\ stack'[k] = stack[k]
          /\ \A k \in 2..Len(stack') : k \in 2..Len(stack) /\ stack'[k] = stack[k]
          /\ 1 \in 1..Len(stack')
      BY <1>1, <1>3, <2>2
    <2>4. TypeOK'
      BY <1>1, <1>3, <2>2, <2>3 DEF TypeOK
    <2>5. StackInv' /\ OutInv' /\ OncePerFile'
      BY <1>1, <2>3 DEF IInv, StackInv, OutInv, OncePerFile
    <2>6. DepthInv'
      BY <1>1, <1>3 DEF IInv, DepthInv, EndOfFile
    <2> QED
      BY <2>4, <2>5, <2>6 DEF IInv
  <1> QED
    BY <1>2, <1>3 DEF EndOfFile

LEMMA NextInv == IInv /\ [Next]_vars => IInv'
  <1> SUFFICES ASSUME IInv, [Next]_vars PROVE IInv'
    OBVIOUS
  <1>1. CASE UNCHANGED vars
    <2>1. UNCHANGED <<body, stack, seen, out, status>>
      BY <1>1 DEF vars
    <2>2. TypeOK'
      BY <2>1 DEF IInv, TypeOK
    <2>3. StackInv' /\ OutInv' /\ OncePerFile' /\ DepthInv'
      BY <2>1 DEF IInv, StackInv, OutInv, OncePerFile, DepthInv
    <2> QED
      BY <2>2, <2>3 DEF IInv
  <1> QED
    BY <1>1, CopyLineInv, NotFoundInv, AlreadyIncludedInv, PullInInv,
       EndOfFileInv DEF Next

----------------------------------------------------------------------------
\* Every reachable state of the expander satisfies the inductive invariant: the
\* activations are of different files, each remembered, and what the unit
\* holds of a file lies above the line its activation has come to.
THEOREM Invariance == Spec => []IInv
  BY InitInv, NextInv, PTL DEF Spec

\* The variables of the expander keep their types (includes.c:39-47).
THEOREM TypeCorrect == Spec => []TypeOK
  <1>1. IInv => TypeOK
    BY DEF IInv
  <1> QED
    BY <1>1, Invariance, PTL

\* Whatever files name each other, through whatever spellings and links, no
\* line of a file other than the main one enters the unit twice (expand,
\* already_seen, remember and canonical, includes.c:189-357).
THEOREM IncludeOnceTheorem == Spec => []OncePerFile
  <1>1. IInv => OncePerFile
    BY DEF IInv
  <1> QED
    BY <1>1, Invariance, PTL

\* The depth limit is never reached by a cycle: the error takes more than
\* MaxDepth different files (includes.c:262-266).
THEOREM DepthTheorem == Spec => []DepthErrorIsNoCycle
  <1>1. ASSUME IInv, status = "tooDeep"
        PROVE  Cardinality(seen) > MaxDepth
    <2>1. PICK file \in seen : \A k \in 2..Len(stack) : stack[k].path # file
      BY <1>1 DEF IInv, DepthInv
    <2> DEFINE f == [k \in 1..Len(stack) |->
                       IF k = 1 THEN file ELSE stack[k].path]
    <2>2. Len(stack) \in Nat
      BY <1>1, TopFrame DEF IInv
    <2>3. f \in Injection(1..Len(stack), seen)
      <3>1. f \in [1..Len(stack) -> seen]
        BY <1>1, <2>1 DEF IInv, StackInv
      <3>2. \A j, k \in 1..Len(stack) : f[j] = f[k] => j = k
        BY <1>1, <2>1, <2>2 DEF IInv, StackInv
      <3> QED
        BY <3>1, <3>2 DEF Injection, IsInjective
    <2>4. Cardinality(1..Len(stack)) = Len(stack)
      <3>1. 1 \in Int /\ Len(stack) \in Int
        BY <2>2
      <3>2. Cardinality(1..Len(stack))
              = IF 1 > Len(stack) THEN 0 ELSE Len(stack) - 1 + 1
        BY <3>1, FS_Interval
      <3> QED
        BY <2>2, <3>2
    <2>5. IsFiniteSet(seen)
      BY <1>1 DEF IInv, DepthInv
    <2>6. Cardinality(1..Len(stack)) <= Cardinality(seen)
      BY <2>3, <2>5, FS_Injection
    <2>7. Len(stack) > MaxDepth /\ MaxDepth \in Nat /\ Cardinality(seen) \in Nat
      BY <1>1, <2>5, FS_CardinalityType, ClassicAssumption
      DEF IInv, DepthInv, ClassicAssumption
    <2> QED
      BY <2>2, <2>4, <2>6, <2>7
  <1>2. IInv => DepthErrorIsNoCycle
    BY <1>1 DEF DepthErrorIsNoCycle
  <1> QED
    BY <1>2, Invariance, PTL

----------------------------------------------------------------------------
\* The refinement: what the activations have still to read is the work list.
\* The rest of a file and the rests of n activations, with the files and the
\* stack as parameters: Unread is Piles(body, stack, Len(stack)).
RestOf(b, p, l) ==
  [i \in 1..(Len(b[RealPath[p]]) - l + 1) |-> <<p, l + i - 1>>]

Piles(b, st, n) ==
  LET unread[k \in 0..n] ==
        IF k = 0 THEN <<>>
                 ELSE RestOf(b, st[k].path, st[k].line) \o unread[k - 1]
  IN  unread[n]

\* Frame fr stands in its file, or behind its last line.
Within(b, fr) ==
  /\ fr \in Frame
  /\ b[RealPath[fr.path]] \in Seq(Line)
  /\ fr.line <= Len(b[RealPath[fr.path]]) + 1

IsPiles(b, st, n, f) ==
  f = [k \in 0..n |->
         IF k = 0 THEN <<>>
                  ELSE RestOf(b, st[k].path, st[k].line) \o f[k - 1]]

\* A function on 1..n is a sequence of n elements.
LEMMA Tabulated ==
  ASSUME NEW S, NEW n \in Nat, NEW f \in [1..n -> S]
  PROVE  f \in Seq(S) /\ Len(f) = n
  OBVIOUS

LEMMA RestIs ==
  ASSUME NEW b, NEW p \in Path, NEW l \in Nat \ {0},
         b[RealPath[p]] \in Seq(Line), l <= Len(b[RealPath[p]]) + 1
  PROVE  /\ RestOf(b, p, l) \in Seq(Place)
         /\ Len(RestOf(b, p, l)) = Len(b[RealPath[p]]) - l + 1
         /\ \A i \in 1..(Len(b[RealPath[p]]) - l + 1) :
              RestOf(b, p, l)[i] = <<p, l + i - 1>>
  <1> DEFINE n == Len(b[RealPath[p]]) - l + 1
  <1>1. n \in Nat
    BY LenProperties
  <1>2. RestOf(b, p, l) = [i \in 1..n |-> <<p, l + i - 1>>]
    BY DEF RestOf
  <1> HIDE DEF n
  <1>3. \A i \in 1..n : <<p, l + i - 1>> \in Place
    BY <1>1 DEF Place
  <1>4. RestOf(b, p, l) \in [1..n -> Place]
    BY <1>2, <1>3
  <1>5. RestOf(b, p, l) \in Seq(Place) /\ Len(RestOf(b, p, l)) = n
    BY <1>1, <1>4, Tabulated
  <1> QED
    BY <1>2, <1>5 DEF n

LEMMA RestAdvance ==
  ASSUME NEW b, NEW p \in Path, NEW l \in Nat \ {0},
         b[RealPath[p]] \in Seq(Line), l <= Len(b[RealPath[p]])
  PROVE  /\ RestOf(b, p, l) # <<>>
         /\ Head(RestOf(b, p, l)) = <<p, l>>
         /\ Tail(RestOf(b, p, l)) = RestOf(b, p, l + 1)
  <1> DEFINE r == RestOf(b, p, l)
             q == RestOf(b, p, l + 1)
             n == Len(b[RealPath[p]])
  <1>1. n \in Nat /\ l <= n + 1 /\ l + 1 <= n + 1 /\ l + 1 \in Nat \ {0}
    BY LenProperties
  <1>2. /\ r \in Seq(Place) /\ Len(r) = n - l + 1
        /\ \A i \in 1..(n - l + 1) : r[i] = <<p, l + i - 1>>
    BY <1>1, RestIs
  <1>3. /\ q \in Seq(Place) /\ Len(q) = n - (l + 1) + 1
        /\ \A i \in 1..(n - (l + 1) + 1) : q[i] = <<p, (l + 1) + i - 1>>
    BY <1>1, RestIs
  <1>4. l <= n
    OBVIOUS
  <1> HIDE DEF r, q, n
  <1>5. r # <<>>
    BY <1>1, <1>2, <1>4
  <1>6. Head(r) = <<p, l>>
    <2>1. 1 \in 1..(n - l + 1) /\ l + 1 - 1 = l
      BY <1>1, <1>4
    <2>2. Head(r) = r[1]
      BY <1>2, <1>5
    <2> QED
      BY <1>2, <2>1, <2>2
  <1>7. Tail(r) = q
    <2>1. Tail(r) \in Seq(Place) /\ Len(Tail(r)) = Len(r) - 1
      BY <1>2, <1>5
    <2>2. \A i \in 1..Len(Tail(r)) : Tail(r)[i] = r[i + 1]
      BY <1>2, <1>5
    <2>3. Len(Tail(r)) = Len(q)
      BY <1>1, <1>2, <1>3, <2>1
    <2>4. ASSUME NEW i \in 1..Len(Tail(r)) PROVE Tail(r)[i] = q[i]
      <3>1. /\ i + 1 \in 1..(n - l + 1) /\ i \in 1..(n - (l + 1) + 1)
            /\ l + (i + 1) - 1 = (l + 1) + i - 1
        BY <1>1, <1>2, <2>1
      <3> QED
        BY <1>2, <1>3, <2>2, <3>1
    <2> DEFINE t == Tail(r)
    <2>5. t \in Seq(Place) /\ Len(t) = Len(q) /\ \A i \in 1..Len(t) : t[i] = q[i]
      BY <2>1, <2>3, <2>4
    <2> HIDE DEF t
    <2>6. t = q
      BY <1>3, <2>5, SeqEqual
    <2> QED
      BY <2>6 DEF t
  <1> QED
    BY <1>5, <1>6, <1>7 DEF r, q

\* The rests of n activations are sequences of places.
Rests(b, st, n) ==
  \A k \in 1..n : RestOf(b, st[k].path, st[k].line) \in Seq(Place)

\* f is defined as Piles is.
Grows(b, st, n, f) ==
  /\ f[0] = <<>>
  /\ \A k \in 1..n : f[k] = RestOf(b, st[k].path, st[k].line) \o f[k - 1]

\* f[k] is the first k sequences of R, each put before the earlier ones.
Stacked(S, n, R, f) ==
  /\ f \in [0..n -> Seq(S)]
  /\ f[0] = <<>>
  /\ \A k \in 1..n : f[k] = R[k] \o f[k - 1]

LEMMA PutBefore ==
  ASSUME NEW S, NEW n \in Nat, NEW R \in [1..n -> Seq(S)]
  PROVE  \E f : Stacked(S, n, R, f)
  <1> DEFINE X == Seq(S)
             none == <<>>
             G == [kx \in (1..n) \X X |-> R[kx[1]] \o kx[2]]
  <1>1. \A k \in 1..n : \A x \in X : G[<<k, x>>] = R[k] \o x
    OBVIOUS
  <1>2. G \in [(1..n) \X X -> X]
    <2>1. ASSUME NEW kx \in (1..n) \X X PROVE R[kx[1]] \o kx[2] \in X
      BY ConcatProperties
    <2> QED
      BY <2>1
  <1>3. none \in X
    OBVIOUS
  <1> HIDE DEF X, none, G
  <1>4. PICK f : Recursive(X, none, n, G, f)
    BY <1>2, <1>3, Recursion
  <1>5. /\ f \in [0..n -> X] /\ f[0] = none
        /\ \A k \in 1..n : f[k] = G[<<k, f[k - 1]>>]
    BY <1>4, Zenon DEF Recursive
  <1>6. ASSUME NEW k \in 1..n PROVE f[k] = R[k] \o f[k - 1]
    <2>1. k - 1 \in 0..n
      OBVIOUS
    <2>2. f[k - 1] \in X
      BY <1>5, <2>1
    <2> QED
      BY <1>1, <1>5, <2>2
  <1> QED
    BY <1>5, <1>6, Zenon DEF X, none, Stacked

LEMMA PilesExists ==
  ASSUME NEW b, NEW st, NEW n \in Nat, Rests(b, st, n)
  PROVE  \E f : IsPiles(b, st, n, f)
  <1> DEFINE R == [k \in 1..n |-> RestOf(b, st[k].path, st[k].line)]
  <1>1. R \in [1..n -> Seq(Place)]
    BY DEF Rests
  <1>2. \A k \in 1..n : R[k] = RestOf(b, st[k].path, st[k].line)
    OBVIOUS
  <1> HIDE DEF R
  <1>3. PICK f : Stacked(Place, n, R, f)
    BY <1>1, PutBefore
  <1>4. \A k \in 0..n : k = 0 \/ k \in 1..n
    OBVIOUS
  <1>5. f = [k \in 0..n |-> IF k = 0 THEN <<>>
                            ELSE RestOf(b, st[k].path, st[k].line) \o f[k - 1]]
    <2>1. \A k \in 0..n : f[k] = IF k = 0 THEN <<>>
                            ELSE RestOf(b, st[k].path, st[k].line) \o f[k - 1]
      BY <1>2, <1>3, <1>4, Zenon DEF Stacked
    <2> QED
      BY <1>3, <2>1, Zenon DEF Stacked
  <1> QED
    BY <1>5, Zenon DEF IsPiles

LEMMA PilesGrows ==
  ASSUME NEW b, NEW st, NEW n \in Nat, Rests(b, st, n)
  PROVE  \E f : Grows(b, st, n, f) /\ Piles(b, st, n) = f[n]
  <1> DEFINE g == CHOOSE f : IsPiles(b, st, n, f)
  <1>1. IsPiles(b, st, n, g)
    BY PilesExists, Zenon
  <1>2. Piles(b, st, n) = g[n]
    BY Zenon DEF Piles, IsPiles
  <1> HIDE DEF g
  <1>3. Grows(b, st, n, g)
    <2>1. \A k \in 0..n : g[k] = IF k = 0 THEN <<>>
                       ELSE RestOf(b, st[k].path, st[k].line) \o g[k - 1]
      BY <1>1, Zenon DEF IsPiles
    <2>2. 0 \in 0..n /\ \A k \in 1..n : k \in 0..n /\ k # 0
      OBVIOUS
    <2> QED
      BY <2>1, <2>2, Zenon DEF Grows
  <1> QED
    BY <1>2, <1>3

\* Two stacks with the same n lowest frames have the same left under them.
LEMMA GrowsAlike ==
  ASSUME NEW b, NEW st, NEW su, NEW n \in Nat, NEW f, NEW g,
         Grows(b, st, n, f), Grows(b, su, n, g), \A k \in 1..n : st[k] = su[k]
  PROVE  f[n] = g[n]
  <1> DEFINE S == {k \in 0..n : f[k] = g[k]}
  <1>1. 0 \in S
    BY DEF Grows
  <1>2. ASSUME NEW k \in 0..n - 1, k \in S PROVE k + 1 \in S
    <2>1. k + 1 \in 1..n /\ (k + 1) - 1 = k /\ f[k] = g[k]
      BY <1>2
    <2>2. f[k + 1] = g[k + 1]
      BY <2>1, Zenon DEF Grows
    <2> QED
      BY <2>1, <2>2
  <1> HIDE DEF S
  <1>3. 0..n \subseteq S
    <2>1. \A k \in 0..n - 1 : k \in S => k + 1 \in S
      BY <1>2
    <2> QED
      BY <1>1, <2>1, UpTo
  <1> QED
    BY <1>3 DEF S

LEMMA PilesAlike ==
  ASSUME NEW b, NEW st, NEW su, NEW n \in Nat, \A k \in 1..n : st[k] = su[k], Rests(b, st, n)
  PROVE  Piles(b, st, n) = Piles(b, su, n)
  <1>1. Rests(b, su, n)
    BY Zenon DEF Rests
  <1>2. PICK f : Grows(b, st, n, f) /\ Piles(b, st, n) = f[n]
    BY PilesGrows
  <1>3. PICK g : Grows(b, su, n, g) /\ Piles(b, su, n) = g[n]
    BY <1>1, PilesGrows
  <1> QED
    BY <1>2, <1>3, GrowsAlike

LEMMA PilesType ==
  ASSUME NEW b, NEW st, NEW n \in Nat, Rests(b, st, n)
  PROVE  Piles(b, st, n) \in Seq(Place)
  <1>1. PICK f : Grows(b, st, n, f) /\ Piles(b, st, n) = f[n]
    BY PilesGrows
  <1> DEFINE S == {k \in 0..n : f[k] \in Seq(Place)}
  <1>2. 0 \in S
    <2>1. f[0] = <<>>
      BY <1>1, Zenon DEF Grows
    <2>2. 0 \in 0..n /\ <<>> \in Seq(Place)
      OBVIOUS
    <2> QED
      BY <2>1, <2>2, Zenon
  <1>3. ASSUME NEW k \in 0..n - 1, k \in S PROVE k + 1 \in S
    <2>1. k + 1 \in 1..n /\ k + 1 \in 0..n /\ (k + 1) - 1 = k /\ f[k] \in Seq(Place)
      BY <1>3
    <2>2. f[k + 1] = RestOf(b, st[k + 1].path, st[k + 1].line) \o f[k]
      BY <1>1, <2>1, Zenon DEF Grows
    <2>3. RestOf(b, st[k + 1].path, st[k + 1].line) \in Seq(Place)
      BY <2>1, Zenon DEF Rests
    <2>4. f[k + 1] \in Seq(Place)
      BY <2>1, <2>2, <2>3, ConcatProperties
    <2> QED
      BY <2>1, <2>4
  <1> HIDE DEF S
  <1>4. 0..n \subseteq S
    <2>1. \A k \in 0..n - 1 : k \in S => k + 1 \in S
      BY <1>3
    <2> QED
      BY <1>2, <2>1, UpTo
  <1> QED
    BY <1>1, <1>4 DEF S

LEMMA PilesNext ==
  ASSUME NEW b, NEW st, NEW n \in Nat \ {0}, Rests(b, st, n)
  PROVE  Piles(b, st, n) =
           RestOf(b, st[n].path, st[n].line) \o Piles(b, st, n - 1)
  <1>1. PICK f : Grows(b, st, n, f) /\ Piles(b, st, n) = f[n]
    BY PilesGrows
  <1>2. n - 1 \in Nat /\ n \in 1..n /\ \A k \in 1..n - 1 : k \in 1..n
    OBVIOUS
  <1>3. Grows(b, st, n - 1, f)
    BY <1>1, <1>2, Zenon DEF Grows
  <1>4. PICK g : Grows(b, st, n - 1, g) /\ Piles(b, st, n - 1) = g[n - 1]
    <2>1. Rests(b, st, n - 1)
      BY <1>2, Zenon DEF Rests
    <2> QED
      BY <1>2, <2>1, PilesGrows
  <1>5. f[n - 1] = g[n - 1]
    BY <1>2, <1>3, <1>4, GrowsAlike
  <1> QED
    BY <1>1, <1>2, <1>4, <1>5, Zenon DEF Grows

LEMMA PilesNone == ASSUME NEW b, NEW st PROVE Piles(b, st, 0) = <<>>
  <1>1. Rests(b, st, 0)
    BY DEF Rests
  <1> QED
    <2>1. PICK f : Grows(b, st, 0, f) /\ Piles(b, st, 0) = f[0]
      BY <1>1, PilesGrows
    <2> QED
      BY <2>1, Zenon DEF Grows

LEMMA UnreadIs == Unread = Piles(body, stack, Len(stack))
  BY Zenon DEF Unread, Piles, Rest, RestOf, Lines
LEMMA UnreadNext == Unread' = Piles(body', stack', Len(stack'))
  BY Zenon DEF Unread, Piles, Rest, RestOf, Lines

LEMMA FirstOfJoined ==
  ASSUME NEW S, NEW a \in Seq(S), NEW c \in Seq(S), a # <<>>
  PROVE  /\ a \o c # <<>>
         /\ Head(a \o c) = Head(a)
         /\ Tail(a \o c) = Tail(a) \o c
  <1> DEFINE u == a \o c
  <1>1. /\ u \in Seq(S) /\ Len(u) = Len(a) + Len(c)
        /\ \A i \in 1..(Len(a) + Len(c)) : u[i] = IF i <= Len(a) THEN a[i] ELSE c[i - Len(a)]
    BY ConcatProperties
  <1>2. Len(a) \in Nat \ {0} /\ Len(c) \in Nat
    BY EmptySeq, LenProperties
  <1> HIDE DEF u
  <1>3. u # <<>>
    BY <1>1, <1>2, EmptySeq
  <1>4. Head(u) = Head(a)
    <2>1. Head(u) = u[1] /\ Head(a) = a[1]
      BY <1>1, <1>3
    <2>2. u[1] = a[1]
      BY <1>1, <1>2
    <2> QED
      BY <2>1, <2>2
  <1> DEFINE t == Tail(a)
             v == Tail(u)
             w == t \o c
  <1>5. t \in Seq(S) /\ Len(t) = Len(a) - 1 /\ \A i \in 1..Len(a) - 1 : t[i] = a[i + 1]
    BY <1>2
  <1>6. v \in Seq(S) /\ Len(v) = Len(u) - 1 /\ \A i \in 1..Len(u) - 1 : v[i] = u[i + 1]
    BY <1>1, <1>2, <1>3
  <1> HIDE DEF t, v
  <1>7. /\ w \in Seq(S) /\ Len(w) = Len(t) + Len(c)
        /\ \A i \in 1..(Len(t) + Len(c)) : w[i] = IF i <= Len(t) THEN t[i] ELSE c[i - Len(t)]
    BY <1>5, ConcatProperties
  <1> HIDE DEF w
  <1>8. Len(v) = Len(w)
    BY <1>1, <1>2, <1>5, <1>6, <1>7
  <1>9. ASSUME NEW i \in 1..Len(v) PROVE v[i] = w[i]
    <2>1. /\ i \in 1..Len(u) - 1 /\ i + 1 \in 1..(Len(a) + Len(c))
          /\ i \in 1..(Len(t) + Len(c)) /\ i \in Nat
      BY <1>1, <1>2, <1>5, <1>6
    <2>2. CASE i <= Len(t)
      <3>1. i + 1 <= Len(a) /\ i \in 1..Len(a) - 1
        BY <1>2, <1>5, <2>1, <2>2
      <3> QED
        BY <1>1, <1>5, <1>6, <1>7, <2>1, <2>2, <3>1
    <2>3. CASE ~(i <= Len(t))
      <3>1. ~(i + 1 <= Len(a)) /\ i - Len(t) = (i + 1) - Len(a)
        BY <1>2, <1>5, <2>1, <2>3
      <3> QED
        BY <1>1, <1>6, <1>7, <2>1, <2>3, <3>1
    <2> QED
      BY <2>2, <2>3
  <1>10. v = w
    BY <1>6, <1>7, <1>8, <1>9, SeqEqual
  <1> QED
    BY <1>3, <1>4, <1>10 DEF u, t, v, w

\* What the activations have left is a sequence of places in files.
LEMMA StackRests == ASSUME TypeOK PROVE Rests(body, stack, Len(stack))
  <1> SUFFICES ASSUME NEW k \in 1..Len(stack)
               PROVE  RestOf(body, stack[k].path, stack[k].line) \in Seq(Place)
    BY DEF Rests
  <1>1. stack[k] \in Frame
    BY ElementOfSeq DEF TypeOK
  <1>2. stack[k].path \in Path /\ stack[k].line \in Nat \ {0}
    BY <1>1 DEF Frame
  <1>3. body[RealPath[stack[k].path]] \in Seq(Line)
    BY <1>2, ClassicAssumption DEF ClassicAssumption, TypeOK
  <1>4. stack[k].line <= Len(body[RealPath[stack[k].path]]) + 1
    BY DEF TypeOK
  <1> QED
    BY <1>2, <1>3, <1>4, RestIs

\* The running activation's rest comes first, then that of its callers.
Callers == Piles(body, stack, Len(stack) - 1)

LEMMA TopRest ==
  ASSUME TypeOK
  PROVE  /\ Callers \in Seq(Place)
         /\ RestOf(body, Top.path, Top.line) \in Seq(Place)
         /\ Unread = RestOf(body, Top.path, Top.line) \o Callers
         /\ Len(RestOf(body, Top.path, Top.line)) = Len(Lines(Top.path)) - Top.line + 1
         /\ Top.line <= Len(Lines(Top.path)) + 1
  <1>1. /\ Len(stack) \in Nat \ {0} /\ Top.path \in Path /\ Top.line \in Nat \ {0}
        /\ Lines(Top.path) \in Seq(Line)
    BY TopFrame
  <1>2. Top.line <= Len(Lines(Top.path)) + 1
    BY <1>1 DEF TypeOK, Top, Lines
  <1>3. /\ RestOf(body, Top.path, Top.line) \in Seq(Place)
        /\ Len(RestOf(body, Top.path, Top.line)) = Len(Lines(Top.path)) - Top.line + 1
    BY <1>1, <1>2, RestIs DEF Lines
  <1>4. /\ Len(stack) - 1 \in Nat
        /\ \A k \in 1..Len(stack) - 1 : k \in 1..Len(stack)
    BY <1>1
  <1>5. Rests(body, stack, Len(stack)) /\ Rests(body, stack, Len(stack) - 1)
    BY <1>4, StackRests, Zenon DEF Rests
  <1>6. Callers \in Seq(Place)
    BY <1>4, <1>5, PilesType DEF Callers
  <1>7. Unread = RestOf(body, Top.path, Top.line) \o Callers
    BY <1>1, <1>5, PilesNext, UnreadIs DEF Callers, Top
  <1> QED
    BY <1>2, <1>3, <1>6, <1>7

LEMMA ReadingHead ==
  ASSUME TypeOK, Reading
  PROVE  /\ Unread # <<>>
         /\ Head(Unread) = <<Top.path, Top.line>>
         /\ Tail(Unread) = RestOf(body, Top.path, Top.line + 1) \o Callers
  <1>1. /\ Top.path \in Path /\ Top.line \in Nat \ {0}
        /\ body[RealPath[Top.path]] \in Seq(Line)
        /\ Top.line <= Len(body[RealPath[Top.path]])
    BY TopFrame DEF Reading, Lines
  <1>2. /\ RestOf(body, Top.path, Top.line) # <<>>
        /\ Head(RestOf(body, Top.path, Top.line)) = <<Top.path, Top.line>>
        /\ Tail(RestOf(body, Top.path, Top.line)) = RestOf(body, Top.path, Top.line + 1)
    BY <1>1, RestAdvance
  <1> DEFINE a == RestOf(body, Top.path, Top.line)
  <1>3. a \in Seq(Place) /\ Callers \in Seq(Place) /\ a # <<>> /\ Unread = a \o Callers
    BY <1>2, TopRest
  <1>4. Head(a) = <<Top.path, Top.line>> /\ Tail(a) = RestOf(body, Top.path, Top.line + 1)
    BY <1>2
  <1> HIDE DEF a
  <1>5. /\ a \o Callers # <<>>
        /\ Head(a \o Callers) = Head(a)
        /\ Tail(a \o Callers) = Tail(a) \o Callers
    BY <1>3, FirstOfJoined
  <1> QED
    BY <1>3, <1>4, <1>5, Zenon

\* After a line has been read the work list has lost its head.
LEMMA NextPiles ==
  ASSUME TypeOK, Reading
  PROVE  /\ Rests(body, NextLine, Len(stack))
         /\ Piles(body, NextLine, Len(stack)) = Tail(Unread)
  <1>1. /\ Len(stack) \in Nat \ {0} /\ Len(stack) - 1 \in Nat /\ Top.path \in Path
        /\ \A k \in 1..Len(stack) - 1 : k \in 1..Len(stack) /\ k # Len(stack)
        /\ Len(stack) \in 1..Len(stack)
    BY TopFrame
  <1>2. Rests(body, NextLine, Len(stack))
    <2> SUFFICES ASSUME NEW k \in 1..Len(stack)
                 PROVE  RestOf(body, NextLine[k].path, NextLine[k].line) \in Seq(Place)
      BY DEF Rests
    <2>1. stack[k] \in Frame
      BY ElementOfSeq DEF TypeOK
    <2>2. NextLine[k].path \in Path /\ NextLine[k].line \in Nat \ {0}
      BY <2>1, NextLineFrames DEF Frame
    <2>3. body[RealPath[NextLine[k].path]] \in Seq(Line)
      BY <2>2, ClassicAssumption DEF ClassicAssumption, TypeOK
    <2>4. NextLine[k].line <= Len(body[RealPath[NextLine[k].path]]) + 1
      BY NextLineFrames
    <2> QED
      BY <2>2, <2>3, <2>4, RestIs
  <1>3. Piles(body, NextLine, Len(stack)) =
          RestOf(body, NextLine[Len(stack)].path, NextLine[Len(stack)].line)
            \o Piles(body, NextLine, Len(stack) - 1)
    BY <1>1, <1>2, PilesNext
  <1>4. /\ NextLine[Len(stack)].path = Top.path
        /\ NextLine[Len(stack)].line = Top.line + 1
    BY <1>1, NextLineStack
  <1>5. Piles(body, NextLine, Len(stack) - 1) = Callers
    <2>1. \A k \in 1..Len(stack) - 1 : NextLine[k] = stack[k]
      BY <1>1, NextLineStack
    <2>2. Rests(body, NextLine, Len(stack) - 1)
      BY <1>1, <1>2, Zenon DEF Rests
    <2> QED
      BY <1>1, <2>1, <2>2, PilesAlike DEF Callers
  <1> QED
    BY <1>2, <1>3, <1>4, <1>5, ReadingHead

\* What the specification calls the outcome.
UOut == IF status \in Errors THEN "failed" ELSE status

LEMMA InitRefines == Init => Unit!Init
  <1> SUFFICES ASSUME Init PROVE Unit!Init
    OBVIOUS
  <1>1. TypeOK
    BY InitInv DEF IInv
  <1>2. /\ body \in [Path -> Seq(Line)] /\ seen = {} /\ out = <<>> /\ status = "run"
        /\ Len(stack) = 1 /\ Top.path = Main /\ Top.line = 1
    BY <1>1 DEF TypeOK, Init, Top
  <1>3. Callers = <<>>
    BY <1>2, PilesNone DEF Callers
  <1>4. /\ Unread = RestOf(body, Main, 1) \o <<>>
        /\ RestOf(body, Main, 1) \in Seq(Place)
    BY <1>1, <1>2, <1>3, TopRest
  <1>5. Unread = RestOf(body, Main, 1)
    BY <1>4, ConcatEmptySeq
  <1>6. RestOf(body, Main, 1) = [i \in 1..Len(Lines(Main)) |-> <<Main, i>>]
    <2>1. Len(Lines(Main)) \in Nat
      BY <1>1, <1>2, TopFrame, LenProperties
    <2>2. /\ Len(Lines(Main)) - 1 + 1 = Len(Lines(Main))
          /\ \A i \in 1..Len(Lines(Main)) : 1 + i - 1 = i
      BY <2>1
    <2> QED
      BY <2>2, Zenon DEF RestOf, Lines
  <1>7. UOut = "run"
    BY <1>2 DEF UOut, Errors
  <1> QED
    BY <1>2, <1>5, <1>6, <1>7, Zenon
    DEF Unit!Init, Unit!LinesOf, Unit!Lines, Unit!Line, UOut, Lines, Line

LEMMA CopyStep == TypeOK /\ CopyLine => Unit!Copy
  <1> SUFFICES ASSUME TypeOK, CopyLine PROVE Unit!Copy
    OBVIOUS
  <1>1. /\ Reading /\ Current = Text /\ stack' = NextLine
        /\ out' = Append(out, <<RealPath[Top.path], Top.line>>)
        /\ body' = body /\ seen' = seen /\ status' = status /\ status = "run"
    BY DEF CopyLine, Reading
  <1>2. Unread # <<>> /\ Head(Unread) = <<Top.path, Top.line>>
    BY <1>1, ReadingHead
  <1>3. Unread' = Tail(Unread)
    <2>1. Len(NextLine) = Len(stack)
      BY NextLineStack
    <2> QED
      BY <1>1, <2>1, NextPiles, UnreadNext
  <1>4. UOut = "run" /\ UOut' = UOut
    BY <1>1 DEF UOut, Errors
  <1>5. Head(Unread)[1] = Top.path /\ Head(Unread)[2] = Top.line
    BY <1>2
  <1>6. Unit!LineAt(Head(Unread)) = Text
    BY <1>1, <1>5, Zenon DEF Unit!LineAt, Unit!Lines, Current, Lines
  <1> QED
    BY <1>1, <1>2, <1>3, <1>4, <1>5, <1>6, Zenon DEF Unit!Copy, UOut

\* A directive at the current line is one at the head of the work list.
LEMMA DirectiveHead ==
  ASSUME TypeOK, AtDirective
  PROVE  /\ Unit!AtDirective /\ Unit!Named = Named
         /\ UOut = "run" /\ Unread # <<>>
  <1>1. Reading /\ Current \in Name /\ status = "run"
    BY DEF AtDirective, Reading
  <1>2. Unread # <<>> /\ Head(Unread) = <<Top.path, Top.line>>
    BY <1>1, ReadingHead
  <1>3. Head(Unread)[1] = Top.path /\ Head(Unread)[2] = Top.line
    BY <1>2
  <1>4. Unit!LineAt(Head(Unread)) = Current
    BY <1>3, Zenon DEF Unit!LineAt, Unit!Lines, Current, Lines
  <1>5. Current # Text
    BY <1>1, ClassicAssumption DEF ClassicAssumption
  <1>6. UOut = "run"
    BY <1>1 DEF UOut, Errors
  <1> QED
    BY <1>2, <1>3, <1>4, <1>5, <1>6, Zenon DEF Unit!AtDirective, Unit!Named, UOut, Named

LEMMA SkipStep == TypeOK /\ AlreadyIncluded => Unit!Skip
  <1> SUFFICES ASSUME TypeOK, AlreadyIncluded PROVE Unit!Skip
    OBVIOUS
  <1>1. /\ AtDirective /\ Reading /\ stack' = NextLine /\ Named # NoPath /\ RealPath[Named] \in seen
        /\ body' = body /\ seen' = seen /\ status' = status /\ out' = out
    BY DEF AlreadyIncluded, AtDirective, Target
  <1>2. Unread' = Tail(Unread)
    <2>1. Len(NextLine) = Len(stack)
      BY NextLineStack
    <2> QED
      BY <1>1, <2>1, NextPiles, UnreadNext
  <1>3. UOut' = UOut
    BY <1>1 DEF UOut
  <1> QED
    BY <1>1, <1>2, <1>3, DirectiveHead, Zenon DEF Unit!Skip, UOut

LEMMA FailStep ==
  ASSUME TypeOK, AtDirective, status' \in Errors, seen \subseteq seen',
         UNCHANGED <<body, stack, out>>
  PROVE  Unit!Fail
  <1>1. UOut = "run" /\ Unread # <<>>
    BY DirectiveHead
  <1>2. Unread' = Unread
    BY UnreadIs, UnreadNext
  <1>3. UOut' = "failed"
    BY DEF UOut
  <1> QED
    BY <1>1, <1>2, <1>3, Zenon DEF Unit!Fail, UOut

LEMMA PullStep ==
  ASSUME TypeOK, PullIn, stack' = Append(NextLine, [path |-> Target, line |-> 1]),
         UNCHANGED status
  PROVE  Unit!Pull
  <1> DEFINE frame == [path |-> Target, line |-> 1]
  <1>1. /\ AtDirective /\ Reading /\ Named # NoPath /\ RealPath[Named] \notin seen
        /\ seen' = seen \cup {RealPath[Named]}
        /\ body' = body /\ out' = out /\ Target = RealPath[Named]
    BY DEF PullIn, AtDirective, Target
  <1>2. /\ Target \in Path /\ RealPath[Target] = Target
        /\ body[RealPath[Target]] \in Seq(Line) /\ Len(Lines(Target)) \in Nat
    BY <1>1, PullTarget, LenProperties DEF TypeOK, Lines
  <1>3. /\ NextLine \in Seq(Frame) /\ Len(NextLine) = Len(stack) /\ frame \in Frame
        /\ Len(stack) \in Nat
    BY <1>2, NextLineStack, TopFrame DEF Frame
  <1>4. /\ frame.path = Target /\ frame.line = 1 /\ stack' = Append(NextLine, frame)
    OBVIOUS
  <1>5. RestOf(body, Target, 1) \in Seq(Place)
    BY <1>2, RestIs DEF Lines
  <1> HIDE DEF frame
  <1>6. /\ Len(stack') = Len(stack) + 1
        /\ \A k \in 1..Len(stack) : stack'[k] = NextLine[k]
        /\ stack'[Len(stack) + 1] = frame
    BY <1>3, <1>4, AppendProperties
  <1>7. Rests(body, stack', Len(stack) + 1)
    <2> SUFFICES ASSUME NEW k \in 1..(Len(stack) + 1)
                 PROVE  RestOf(body, stack'[k].path, stack'[k].line) \in Seq(Place)
      BY Zenon DEF Rests
    <2>1. CASE k \in 1..Len(stack)
      BY <1>1, <1>6, <2>1, NextPiles, Zenon DEF Rests
    <2>2. CASE k = Len(stack) + 1
      BY <1>4, <1>5, <1>6, <2>2, Zenon
    <2> QED
      BY <1>3, <2>1, <2>2
  <1>8. Piles(body, stack', Len(stack) + 1) =
          RestOf(body, Target, 1) \o Piles(body, stack', Len(stack))
    <2>1. Len(stack) + 1 \in Nat \ {0} /\ (Len(stack) + 1) - 1 = Len(stack)
      BY <1>3
    <2>2. stack'[Len(stack) + 1].path = Target /\ stack'[Len(stack) + 1].line = 1
      BY <1>4, <1>6
    <2>3. Piles(body, stack', Len(stack) + 1) =
            RestOf(body, stack'[Len(stack) + 1].path, stack'[Len(stack) + 1].line)
              \o Piles(body, stack', (Len(stack) + 1) - 1)
      BY <1>7, <2>1, PilesNext
    <2> QED
      BY <2>1, <2>2, <2>3, Zenon
  <1>9. Piles(body, stack', Len(stack)) = Tail(Unread)
    <2>1. Rests(body, NextLine, Len(stack)) /\ Piles(body, NextLine, Len(stack)) = Tail(Unread)
      BY <1>1, NextPiles
    <2>2. \A k \in 1..Len(stack) : NextLine[k] = stack'[k]
      BY <1>6
    <2>3. Piles(body, NextLine, Len(stack)) = Piles(body, stack', Len(stack))
      BY <1>3, <2>1, <2>2, PilesAlike
    <2> QED
      BY <2>1, <2>3
  <1>10. RestOf(body, Target, 1) = [i \in 1..Len(Lines(Target)) |-> <<Target, i>>]
    <2>1. /\ Len(Lines(Target)) - 1 + 1 = Len(Lines(Target))
          /\ \A i \in 1..Len(Lines(Target)) : 1 + i - 1 = i
      BY <1>2
    <2> QED
      BY <2>1, Zenon DEF RestOf, Lines
  <1>11. Unread' = [i \in 1..Len(Lines(Target)) |-> <<Target, i>>] \o Tail(Unread)
    BY <1>1, <1>6, <1>8, <1>9, <1>10, UnreadNext, Zenon
  <1>12. UOut' = UOut
    BY DEF UOut
  <1>13. Unread' = Unit!LinesOf(RealPath[Unit!Named]) \o Tail(Unread)
    BY <1>1, <1>11, DirectiveHead, Zenon DEF Unit!LinesOf, Unit!Lines, Lines
  <1> QED
    BY <1>1, <1>12, <1>13, DirectiveHead, Zenon DEF Unit!Pull, UOut

LEMMA EndStep == TypeOK /\ EndOfFile => Unit!Finish \/ UNCHANGED Unit!vars
  <1> SUFFICES ASSUME TypeOK, EndOfFile PROVE Unit!Finish \/ UNCHANGED Unit!vars
    OBVIOUS
  <1>1. /\ status = "run" /\ Top.line > Len(Lines(Top.path))
        /\ body' = body /\ seen' = seen /\ out' = out
        /\ Len(stack) \in Nat \ {0} /\ Top.line \in Nat /\ Len(Lines(Top.path)) \in Nat
    BY TopFrame, LenProperties DEF EndOfFile
  <1>2. Unread = Callers
    <2> DEFINE a == RestOf(body, Top.path, Top.line)
    <2>1. /\ a \in Seq(Place) /\ Len(a) = Len(Lines(Top.path)) - Top.line + 1
          /\ Top.line <= Len(Lines(Top.path)) + 1
          /\ Callers \in Seq(Place) /\ Unread = a \o Callers
      BY TopRest
    <2> HIDE DEF a
    <2>2. Len(a) = 0
      BY <1>1, <2>1
    <2>3. a = <<>>
      BY <2>1, <2>2, EmptySeq
    <2> QED
      BY <2>1, <2>3, ConcatEmptySeq
  <1>3. CASE Len(stack) = 1
    <2>1. status' = "ok" /\ stack' = stack
      BY <1>3 DEF EndOfFile
    <2>2. Unread = <<>>
      BY <1>2, <1>3, PilesNone DEF Callers
    <2>3. Unread' = Unread
      BY <1>1, <2>1, UnreadIs, UnreadNext
    <2>4. UOut = "run" /\ UOut' = "ok"
      BY <1>1, <2>1 DEF UOut, Errors
    <2> QED
      BY <1>1, <2>2, <2>3, <2>4, Zenon DEF Unit!Finish, UOut
  <1>4. CASE Len(stack) # 1
    <2> DEFINE n == Len(stack) - 1
               below == SubSeq(stack, 1, n)
    <2>1. stack' = below /\ status' = status
      BY <1>4 DEF EndOfFile
    <2>2. n \in Nat /\ 1 <= n /\ n <= Len(stack) /\ stack \in Seq(Frame)
      <3>1. \A m \in Nat \ {0} : m # 1 => m - 1 \in Nat /\ 1 <= m - 1 /\ m - 1 <= m
        OBVIOUS
      <3>2. stack \in Seq(Frame)
        BY DEF TypeOK
      <3> QED
        BY <1>1, <1>4, <3>1, <3>2, Zenon
    <2>3. Len(below) = n /\ \A k \in 1..n : stack[k] = below[k]
      <3> HIDE DEF n
      <3> QED
        BY <2>2
    <2>4. Rests(body, stack, n)
      <3>1. \A k \in 1..n : k \in 1..Len(stack)
        BY <1>1
      <3> QED
        BY <3>1, StackRests, Zenon DEF Rests
    <2>5. Piles(body, stack, n) = Piles(body, below, n)
      BY <2>2, <2>3, <2>4, PilesAlike
    <2>6. Unread' = Unread
      BY <1>1, <1>2, <2>1, <2>3, <2>5, UnreadNext, Zenon DEF Callers
    <2>7. UOut' = UOut
      BY <2>1 DEF UOut
    <2> QED
      BY <1>1, <2>6, <2>7, Zenon DEF Unit!vars, UOut
  <1> QED
    BY <1>3, <1>4

LEMMA StepRefines == TypeOK /\ [Next]_vars => [Unit!Next]_(Unit!vars)
  <1> SUFFICES ASSUME TypeOK, [Next]_vars PROVE Unit!Next \/ UNCHANGED Unit!vars
    OBVIOUS
  <1>1. CASE CopyLine
    BY <1>1, CopyStep DEF Unit!Next
  <1>2. CASE NotFound
    <2>1. /\ AtDirective /\ status' \in Errors /\ seen \subseteq seen'
          /\ UNCHANGED <<body, stack, out>>
      BY <1>2 DEF NotFound, Errors
    <2> QED
      BY <2>1, FailStep DEF Unit!Next
  <1>3. CASE AlreadyIncluded
    BY <1>3, SkipStep DEF Unit!Next
  <1>4. CASE PullIn
    <2>1. CASE stack' = Append(NextLine, [path |-> Target, line |-> 1]) /\ UNCHANGED status
      BY <1>4, <2>1, PullStep DEF Unit!Next
    <2>2. CASE stack' = stack /\ status' \in Errors
      <3>1. AtDirective /\ seen \subseteq seen' /\ UNCHANGED <<body, stack, out>>
        BY <1>4, <2>2 DEF PullIn
      <3> QED
        BY <2>2, <3>1, FailStep DEF Unit!Next
    <2> QED
      BY <1>4, <2>1, <2>2 DEF PullIn, Errors
  <1>5. CASE EndOfFile
    BY <1>5, EndStep DEF Unit!Next
  <1>6. CASE UNCHANGED vars
    <2>1. UNCHANGED <<body, stack, seen, out, status>>
      BY <1>6 DEF vars
    <2>2. Unread' = Unread /\ UOut' = UOut
      BY <2>1, UnreadIs, UnreadNext DEF UOut
    <2> QED
      BY <2>1, <2>2, Zenon DEF Unit!vars, UOut
  <1> QED
    BY <1>1, <1>2, <1>3, <1>4, <1>5, <1>6 DEF Next

\* expand() delivers the unit IncludeOnce describes: each directive replaced in
\* place by the file it names, the first time only, for every tree of files,
\* every search and every depth limit (includes.c:256-357).
THEOREM ExpanderIsIncludeOnce == Spec => ImplementsIncludeOnce
  <1>1. IInv /\ [Next]_vars => [Unit!Next]_(Unit!vars)
    BY StepRefines DEF IInv
  <1> QED
    BY InitRefines, Invariance, <1>1, PTL DEF ImplementsIncludeOnce, Spec, Unit!Spec

-----------------------------------------------------------------------------
(* The semantic checker.                                                   *)

(* The tree of a program.                                                  *)
LEMMA ProgramIs ==
  ASSUME prog \in Programs
  PROVE  /\ prog \in Seq(Node) /\ Len(prog) \in Nat /\ Len(prog) > 0
         /\ Ids = 1 .. Len(prog) /\ 1 \in Ids
         /\ IsTree(prog) /\ prog[1].kind = "program"
         /\ \A i \in Ids :
              /\ prog[i] \in Node
              /\ Is(i, Functions \cup MethodLike \cup ClassLike) =>
                   \A k \in DOMAIN Kids(i) : ~Is(Kids(i)[k], {"ptr"})
              /\ Is(i, {"each"}) => Kids(i) # <<>> /\ Is(Kids(i)[1], {"ident"})
  <1>1. IsProgram(prog)
    BY SemanticAssumption DEF SemanticAssumption
  <1>2. prog \in Seq(Node) /\ Len(prog) \in Nat /\ Len(prog) > 0 /\ Ids = 1 .. Len(prog)
    BY <1>1 DEF IsProgram, Ids
  <1>3. ASSUME NEW i \in Ids
        PROVE  /\ prog[i] \in Node
               /\ Is(i, Functions \cup MethodLike \cup ClassLike) =>
                    \A k \in DOMAIN Kids(i) : ~Is(Kids(i)[k], {"ptr"})
               /\ Is(i, {"each"}) => Kids(i) # <<>> /\ Is(Kids(i)[1], {"ident"})
    <2>1. prog[i] \in Node
      BY <1>2
    <2>2. \A k \in DOMAIN Kids(i) : Kids(i)[k] \in Range(Kids(i))
      BY DEF Range
    <2> QED
      BY <1>1, <2>1, <2>2 DEF IsProgram, Is, Kids, Ids
  <1>4. 1 \in Ids
    BY <1>2
  <1>5. IsTree(prog) /\ prog[1].kind = "program"
    BY <1>1 DEF IsProgram
  <1> QED
    BY <1>2, <1>3, <1>4, <1>5, Zenon

(* The children of a node are numbered after it, in their order.          *)
LEMMA KidsAre ==
  ASSUME prog \in Programs, NEW i \in Ids
  PROVE  /\ Kids(i) \in Seq(Nat) /\ Kids(i) \in Seq(Ids)
         /\ \A k \in DOMAIN Kids(i) :
              Kids(i)[k] \in i + 1 .. Len(prog) /\ Kids(i)[k] \in Ids /\ Kids(i)[k] # 1
         /\ \A k, l \in DOMAIN Kids(i) : k < l => Kids(i)[k] < Kids(i)[l]
  <1>1. Ids = 1 .. Len(prog) /\ Len(prog) \in Nat /\ prog[i] \in Node /\ IsTree(prog)
    BY ProgramIs
  <1>2. Kids(i) \in Seq(Nat)
    BY <1>1 DEF Node, Kids
  <1>3. \A k \in DOMAIN Kids(i) : Kids(i)[k] \in i + 1 .. Len(prog)
    BY <1>1 DEF IsTree, Kids, Ids
  <1>4. \A k, l \in DOMAIN Kids(i) : k < l => Kids(i)[k] < Kids(i)[l]
    BY <1>1 DEF IsTree, Kids, Ids
  <1>5. \A k \in DOMAIN Kids(i) : Kids(i)[k] \in Ids /\ Kids(i)[k] # 1
    BY <1>1, <1>3
  <1>6. Kids(i) \in Seq(Ids)
    BY <1>2, <1>5
  <1> QED
    BY <1>2, <1>3, <1>4, <1>5, <1>6

(* A node has one parent.                                                  *)
LEMMA ParentIs ==
  ASSUME prog \in Programs, NEW i \in Ids, NEW k \in DOMAIN Kids(i)
  PROVE  Parent(Kids(i)[k]) = i
  <1> DEFINE c == Kids(i)[k]
             p == Parent(c)
  <1>1. Ids = 1 .. Len(prog) /\ Len(prog) \in Nat /\ IsTree(prog)
    BY ProgramIs
  <1>2. c \in Range(Kids(i)) /\ c > i /\ c \in Nat
    BY <1>1, KidsAre DEF Range
  <1>3. p \in Ids /\ c \in Range(Kids(p))
    BY <1>2, Zenon DEF Parent
  <1>4. c > p
    BY <1>1, <1>3, KidsAre DEF Range
  <1>5. \A a, b \in Ids : c \in Range(Kids(a)) /\ c \in Range(Kids(b)) /\ b < c => ~(a < b)
    <2> SUFFICES ASSUME NEW a \in Ids, NEW b \in Ids, c \in Range(Kids(a)), c \in Range(Kids(b)),
                        b < c, a < b
                 PROVE  FALSE
      OBVIOUS
    <2>1. b \in a + 1 .. c - 1
      BY <1>1, <1>2
    <2>2. \A d \in Range(Kids(b)) : d < c
      BY <1>1, <2>1 DEF IsTree, Kids, Ids
    <2> QED
      BY <1>2, <2>2
  <1>6. ~(p < i) /\ ~(i < p)
    BY <1>2, <1>3, <1>4, <1>5
  <1> QED
    BY <1>1, <1>3, <1>6

LEMMA ParentOf ==
  ASSUME prog \in Programs, NEW c \in Ids, c # 1
  PROVE  /\ Parent(c) \in Ids /\ Parent(c) < c /\ Parent(c) \in Around(c)
         /\ \E k \in DOMAIN Kids(Parent(c)) : Kids(Parent(c))[k] = c
  <1> DEFINE p == Parent(c)
  <1>1. Ids = 1 .. Len(prog) /\ Len(prog) \in Nat /\ IsTree(prog)
    BY ProgramIs
  <1>2. \A m \in Ids : m # 1 => Parent(m) \in Ids /\ m \in Range(Kids(Parent(m)))
    <2> SUFFICES ASSUME NEW m \in Ids, m # 1
                 PROVE  Parent(m) \in Ids /\ m \in Range(Kids(Parent(m)))
      OBVIOUS
    <2>1. \E j \in Ids : m \in Range(Kids(j))
      BY <1>1 DEF IsTree, Kids, Ids
    <2> QED
      BY <2>1, Zenon DEF Parent
  <1>3. p \in Ids /\ \E k \in DOMAIN Kids(p) : Kids(p)[k] = c
    BY <1>2 DEF Range
  <1>4. p < c
    BY <1>1, <1>3, KidsAre
  <1>5. ASSUME NEW m \in p + 1 .. c PROVE Parent(m) >= p
    <2>1. m \in Ids /\ m # 1
      BY <1>1, <1>3
    <2>2. Parent(m) \in Ids /\ m \in Range(Kids(Parent(m)))
      BY <1>2, <2>1
    <2>3. CASE Parent(m) < p
      <3>1. p \in Parent(m) + 1 .. m - 1
        BY <1>1, <1>3, <2>2, <2>3
      <3>2. \A d \in Range(Kids(p)) : d < m
        BY <1>1, <2>2, <3>1 DEF IsTree, Kids, Ids
      <3>3. c \in Range(Kids(p))
        BY <1>2
      <3> QED
        BY <1>1, <3>2, <3>3
    <2> QED
      BY <1>1, <1>3, <2>2, <2>3
  <1>6. p \in Around(c)
    BY <1>1, <1>3, <1>4, <1>5 DEF Around
  <1> QED
    BY <1>3, <1>4, <1>6

(* Around a node are nodes before it, the root among them.                *)
LEMMA AroundAll ==
  ASSUME prog \in Programs, NEW i \in Ids
  PROVE  /\ Around(i) \subseteq Ids /\ \A j \in Around(i) : j < i
         /\ i # 1 => 1 \in Around(i)
  <1>1. Ids = 1 .. Len(prog) /\ Len(prog) \in Nat
    BY ProgramIs
  <1>2. \A m \in Ids : m # 1 => Parent(m) \in Ids
    BY ParentOf
  <1> QED
    BY <1>1, <1>2 DEF Around

(* What is around a node is around all that is below it.                   *)
LEMMA AroundTrans ==
  ASSUME prog \in Programs, NEW i \in Ids, NEW k \in Around(i), NEW j \in Around(k)
  PROVE  j \in Around(i)
  <1>1. Ids = 1 .. Len(prog) /\ Len(prog) \in Nat
    BY ProgramIs
  <1>2. \A m \in Ids : m # 1 => Parent(m) \in Ids
    BY ParentOf
  <1>3. k \in Ids /\ k < i /\ j \in Ids /\ j < k
    BY AroundAll
  <1>4. ASSUME NEW m \in j + 1 .. i PROVE Parent(m) >= j
    <2>1. CASE m <= k
      BY <1>1, <1>3, <2>1 DEF Around
    <2>2. CASE m > k
      <3>1. Parent(m) >= k /\ m \in Ids /\ m # 1
        BY <1>1, <1>3, <2>2 DEF Around
      <3> QED
        BY <1>1, <1>2, <1>3, <3>1
    <2> QED
      BY <1>1, <1>3, <2>1, <2>2
  <1> QED
    BY <1>1, <1>3, <1>4 DEF Around

(* Around a child are its parent and what is around that.                 *)
LEMMA AroundKid ==
  ASSUME prog \in Programs, NEW c \in Ids, c # 1, NEW j \in Around(c)
  PROVE  j = Parent(c) \/ j \in Around(Parent(c))
  <1>1. Ids = 1 .. Len(prog) /\ Len(prog) \in Nat
    BY ProgramIs
  <1>2. Parent(c) \in Ids /\ Parent(c) < c
    BY ParentOf
  <1>3. j \in Ids /\ j < c
    BY AroundAll
  <1>4. Parent(c) >= j
    BY <1>1, <1>3 DEF Around
  <1>5. CASE j < Parent(c)
    BY <1>1, <1>2, <1>3, <1>5 DEF Around
  <1> QED
    BY <1>1, <1>2, <1>3, <1>4, <1>5

(* The nodes below t, with t.                                              *)
Below(t) == {i \in Ids : i = t \/ t \in Around(i)}

(* One of the children leads to a node below.                              *)
LEMMA Toward ==
  ASSUME prog \in Programs, NEW t \in Ids, NEW i \in Ids, t \in Around(i)
  PROVE  \E k \in DOMAIN Kids(t) : i \in Below(Kids(t)[k])
  <1>1. Ids = 1 .. Len(prog) /\ Len(prog) \in Nat
    BY ProgramIs
  <1>2. \A m \in Ids : m # 1 => Parent(m) \in Ids /\ Parent(m) < m
    BY ParentOf
  <1>3. t < i /\ \A m \in t + 1 .. i : Parent(m) >= t /\ m \in Ids /\ m # 1
    BY <1>1 DEF Around
  <1> DEFINE S == {m \in Nat : m < i - t /\ Parent(i - m) = t}
  <1>4. i - (t + 1) \in S
    <2>1. t + 1 \in t + 1 .. i
      BY <1>1, <1>3
    <2>2. Parent(t + 1) = t
      BY <1>1, <1>2, <1>3, <2>1
    <2>3. i - (i - (t + 1)) = t + 1
      BY <1>1
    <2> QED
      BY <1>1, <1>3, <2>2, <2>3
  <1>5. PICK m \in S : \A x \in S : m <= x
    BY <1>4, Least
  <1> DEFINE c == i - m
  <1>6. c \in t + 1 .. i /\ Parent(c) = t /\ c \in Ids /\ c # 1
    BY <1>1, <1>3, <1>5
  <1>7. PICK k \in DOMAIN Kids(t) : Kids(t)[k] = c
    BY <1>6, ParentOf
  <1>8. ASSUME NEW n \in c + 1 .. i PROVE Parent(n) >= c
    <2>1. n \in t + 1 .. i /\ n \in Ids /\ n # 1
      BY <1>1, <1>3, <1>6
    <2>2. Parent(n) >= t /\ Parent(n) \in Ids /\ Parent(n) < n
      BY <1>2, <1>3, <2>1
    <2>3. Parent(n) # t
      <3> SUFFICES ASSUME Parent(n) = t PROVE FALSE
        OBVIOUS
      <3>1. i - n \in Nat /\ i - n < i - t /\ i - (i - n) = n
        BY <1>1, <2>1
      <3>2. i - n \in S
        BY <3>1
      <3>3. m <= i - n
        BY <1>5, <3>2
      <3> QED
        BY <1>1, <1>5, <2>1, <3>3
    <2>4. CASE Parent(n) < c
      <3>1. Parent(n) \in Around(n)
        BY <2>1, ParentOf
      <3>2. Parent(c) >= Parent(n)
        BY <1>1, <1>6, <2>1, <2>2, <2>4, <3>1 DEF Around
      <3> QED
        BY <1>1, <1>6, <2>2, <2>3, <3>2
    <2> QED
      BY <1>1, <1>6, <2>2, <2>4
  <1>9. i \in Below(c)
    BY <1>1, <1>3, <1>6, <1>8 DEF Below, Around
  <1> QED
    BY <1>7, <1>9

(* What is below a child is below the node.                               *)
LEMMA BelowKid ==
  ASSUME prog \in Programs, NEW t \in Ids, NEW k \in DOMAIN Kids(t), NEW i \in Below(Kids(t)[k])
  PROVE  i \in Below(t) /\ t \in Around(i) /\ i >= Kids(t)[k]
  <1>1. Ids = 1 .. Len(prog) /\ Len(prog) \in Nat
    BY ProgramIs
  <1>2. Kids(t)[k] \in Ids /\ Kids(t)[k] # 1 /\ Parent(Kids(t)[k]) = t
    BY KidsAre, ParentIs
  <1>3. t \in Around(Kids(t)[k])
    BY <1>2, ParentOf
  <1>4. i \in Ids /\ (i = Kids(t)[k] \/ Kids(t)[k] \in Around(i))
    BY DEF Below
  <1>5. t \in Around(i)
    BY <1>3, <1>4, AroundTrans
  <1> QED
    BY <1>1, <1>2, <1>4, <1>5, AroundAll DEF Below

(* What is below a child comes before the next child.                      *)
LEMMA BelowBefore ==
  ASSUME prog \in Programs, NEW t \in Ids, NEW k \in DOMAIN Kids(t), NEW l \in DOMAIN Kids(t),
         k < l, NEW i \in Below(Kids(t)[k])
  PROVE  i < Kids(t)[l]
  <1>1. Ids = 1 .. Len(prog) /\ Len(prog) \in Nat
    BY ProgramIs
  <1> DEFINE c == Kids(t)[k]
             d == Kids(t)[l]
  <1>2. c \in Ids /\ d \in Ids /\ c < d /\ t < c /\ Parent(d) = t
    BY <1>1, KidsAre, ParentIs
  <1>3. i \in Ids
    BY DEF Below
  <1>4. CASE i = c
    BY <1>2, <1>4
  <1>5. CASE c \in Around(i)
    <2> SUFFICES ASSUME i >= d PROVE FALSE
      BY <1>1, <1>2, <1>3
    <2>1. d \in c + 1 .. i
      BY <1>1, <1>2, <1>3
    <2>2. Parent(d) >= c
      BY <1>5, <2>1 DEF Around
    <2> QED
      BY <1>1, <1>2, <2>2
  <1> QED
    BY <1>4, <1>5 DEF Below

-----------------------------------------------------------------------------
(* Tables of symbols.                                                      *)
IsList(x) == \E S : x \in Seq(S)
IsFull(x) == Len(x) = MaxSymbols
NamesIn(x) == {x[k].name : k \in DOMAIN x}

(* Lists by their places, whatever they hold.                             *)
LEMMA ListIs ==
  ASSUME NEW x, IsList(x)
  PROVE  Len(x) \in Nat /\ (\A k : k \in DOMAIN x <=> k \in 1 .. Len(x))
  BY DEF IsList

(* One more.                                                              *)
LEMMA ListAppend ==
  ASSUME NEW x, IsList(x), NEW e
  PROVE  /\ IsList(Append(x, e)) /\ Len(Append(x, e)) = Len(x) + 1
         /\ \A k \in DOMAIN x : Append(x, e)[k] = x[k]
         /\ Append(x, e)[Len(x) + 1] = e
  <1>1. PICK S : x \in Seq(S)
    BY DEF IsList
  <1> DEFINE T == S \cup {e}
  <1>2. x \in Seq(T) /\ e \in T
    BY <1>1
  <1> HIDE DEF T
  <1>3. Append(x, e) \in Seq(T)
    BY <1>2
  <1>4. IsList(Append(x, e))
    BY <1>3 DEF IsList
  <1> QED
    BY <1>2, <1>4

(* Two lists, one after the other.                                        *)
LEMMA ListJoin ==
  ASSUME NEW x, IsList(x), NEW y, IsList(y), NEW z, z = x \o y
  PROVE  /\ IsList(z) /\ Len(z) = Len(x) + Len(y)
         /\ \A k \in DOMAIN x : z[k] = x[k]
         /\ \A k \in DOMAIN y : z[Len(x) + k] = y[k]
  <1>1. PICK S : x \in Seq(S)
    BY DEF IsList
  <1>2. PICK R : y \in Seq(R)
    BY DEF IsList
  <1> DEFINE T == S \cup R
  <1>3. x \in Seq(T) /\ y \in Seq(T)
    BY <1>1, <1>2
  <1> HIDE DEF T
  <1>4. x \o y \in Seq(T) /\ Len(x \o y) = Len(x) + Len(y)
    BY <1>3
  <1>5. IsList(z)
    BY <1>4 DEF IsList
  <1>6. \A k \in DOMAIN x : (x \o y)[k] = x[k]
    BY <1>3
  <1>7. \A k \in DOMAIN y : (x \o y)[Len(x) + k] = y[k]
    BY <1>3
  <1> QED
    BY <1>4, <1>5, <1>6, <1>7, Zenon

(* Table y is x with symbols whose names are in N, as far as there is room.*)
Grown(x, y, N) ==
  /\ IsList(x) /\ IsList(y) /\ Len(x) <= Len(y) /\ Len(y) <= MaxSymbols
  /\ \A k \in DOMAIN x : y[k] = x[k]
  /\ \A k \in DOMAIN y : k \in DOMAIN x \/ y[k].name \in N
  /\ \A n \in N : Holds(y, n) \/ IsFull(y)

(* A grown table keeps what it held, and stays full.                      *)
LEMMA GrownKeeps ==
  ASSUME NEW x, NEW y, NEW N, Grown(x, y, N)
  PROVE  /\ \A n : Holds(x, n) => Holds(y, n)
         /\ IsFull(x) => IsFull(y)
         /\ \A n : Holds(y, n) => Holds(x, n) \/ n \in N
         /\ \A k \in DOMAIN x : k \in DOMAIN y
  <1>1. /\ Len(x) \in Nat /\ \A k : k \in DOMAIN x <=> k \in 1 .. Len(x)
        /\ Len(y) \in Nat /\ \A k : k \in DOMAIN y <=> k \in 1 .. Len(y)
    BY ListIs DEF Grown
  <1>2. \A k \in DOMAIN x : k \in DOMAIN y /\ y[k] = x[k]
    BY <1>1 DEF Grown
  <1>3. MaxSymbols \in Nat
    BY SemanticAssumption DEF SemanticAssumption
  <1>4. IsFull(x) => IsFull(y)
    <2>1. Len(x) <= Len(y) /\ Len(y) <= MaxSymbols
      BY DEF Grown
    <2> QED
      BY <1>1, <1>3, <2>1 DEF IsFull
  <1>5. \A n : Holds(x, n) => Holds(y, n)
    BY <1>2 DEF Holds
  <1>6. \A n : Holds(y, n) => Holds(x, n) \/ n \in N
    BY <1>2 DEF Grown, Holds
  <1> QED
    BY <1>2, <1>4, <1>5, <1>6

LEMMA GrownNone ==
  ASSUME NEW x, IsList(x), Len(x) <= MaxSymbols
  PROVE  Grown(x, x, {})
  <1>1. Len(x) \in Nat
    BY ListIs
  <1> QED
    BY <1>1 DEF Grown

LEMMA GrownTwice ==
  ASSUME NEW x, NEW y, NEW z, NEW M, NEW N, Grown(x, y, M), Grown(y, z, N)
  PROVE  Grown(x, z, M \cup N)
  <1>1. /\ Len(x) \in Nat /\ \A k : k \in DOMAIN x <=> k \in 1 .. Len(x)
        /\ Len(y) \in Nat /\ \A k : k \in DOMAIN y <=> k \in 1 .. Len(y)
        /\ Len(z) \in Nat
    BY ListIs DEF Grown
  <1>2. \A n \in M : Holds(z, n) \/ IsFull(z)
    BY GrownKeeps DEF Grown
  <1>3. \A k \in DOMAIN x : k \in DOMAIN y /\ z[k] = x[k]
    BY <1>1 DEF Grown
  <1>4. \A k \in DOMAIN z : k \in DOMAIN x \/ z[k].name \in M \cup N
    BY DEF Grown
  <1> QED
    BY <1>1, <1>2, <1>3, <1>4 DEF Grown

(* sym_add() enters a symbol, or the table is full.                       *)
LEMMA AddOne ==
  ASSUME NEW x, IsList(x), Len(x) <= MaxSymbols, NEW s
  PROVE  /\ Grown(x, sym_add(x, s), {s.name})
         /\ IsFull(sym_add(x, s)) \/ \E k \in DOMAIN sym_add(x, s) : sym_add(x, s)[k] = s
  <1>1. Len(x) \in Nat /\ (\A k : k \in DOMAIN x <=> k \in 1 .. Len(x)) /\ MaxSymbols \in Nat
    BY ListIs, SemanticAssumption DEF SemanticAssumption
  <1>2. CASE Len(x) >= MaxSymbols
    <2>1. sym_add(x, s) = x
      BY <1>2 DEF sym_add
    <2>2. IsFull(x)
      BY <1>1, <1>2 DEF IsFull
    <2>3. Grown(x, x, {s.name})
      BY <1>1, <2>2 DEF Grown
    <2> QED
      BY <2>1, <2>2, <2>3
  <1>3. CASE ~(Len(x) >= MaxSymbols)
    <2> DEFINE y == Append(x, s)
    <2>1. sym_add(x, s) = y
      BY <1>3 DEF sym_add
    <2>2. IsList(y) /\ Len(y) = Len(x) + 1 /\ (\A k \in DOMAIN x : y[k] = x[k]) /\ y[Len(x) + 1] = s
      BY ListAppend
    <2> HIDE DEF y
    <2>3. \A k : k \in DOMAIN y <=> k \in 1 .. Len(x) + 1
      BY <2>2, ListIs
    <2>4. Holds(y, s.name) /\ \E k \in DOMAIN y : y[k] = s
      BY <1>1, <2>2, <2>3 DEF Holds
    <2>5. \A k \in DOMAIN y : k \in DOMAIN x \/ y[k].name \in {s.name}
      BY <1>1, <2>2, <2>3
    <2> QED
      BY <1>1, <1>3, <2>1, <2>2, <2>4, <2>5 DEF Grown
  <1> QED
    BY <1>2, <1>3

(* Adding only what is new enters the name as well.                       *)
LEMMA AddOneNew ==
  ASSUME NEW x, IsList(x), Len(x) <= MaxSymbols, NEW s
  PROVE  Grown(x, AddNew(x, s), {s.name})
  <1>1. CASE Holds(x, s.name)
    <2>1. AddNew(x, s) = x
      BY <1>1 DEF AddNew
    <2> QED
      BY <1>1, <2>1, GrownNone DEF Grown
  <1>2. CASE ~Holds(x, s.name)
    BY <1>2, AddOne DEF AddNew
  <1> QED
    BY <1>1, <1>2

(* Symbols added in a row are all entered, as far as there is room.       *)
LEMMA AddMany ==
  ASSUME NEW x, IsList(x), Len(x) <= MaxSymbols, NEW ss, IsList(ss)
  PROVE  Grown(x, AddAll(x, ss), NamesIn(ss))
  <1>1. /\ Len(x) \in Nat /\ (\A k : k \in DOMAIN x <=> k \in 1 .. Len(x)) /\ MaxSymbols \in Nat
        /\ Len(ss) \in Nat /\ (\A k : k \in DOMAIN ss <=> k \in 1 .. Len(ss))
    BY ListIs, SemanticAssumption DEF SemanticAssumption
  <1> DEFINE room == MaxSymbols - Len(x)
             m == IF Len(ss) < room THEN Len(ss) ELSE room
             taken == SubSeq(ss, 1, m)
             grown == x \o taken
  <1>2. AddAll(x, ss) = grown
    BY DEF AddAll
  <1>3. m \in Nat /\ m <= Len(ss) /\ Len(x) + m <= MaxSymbols
        /\ (m = Len(ss) \/ Len(x) + m = MaxSymbols)
    BY <1>1
  <1> HIDE DEF m
  <1>4. IsList(taken) /\ Len(taken) = m /\ \A k \in 1 .. m : taken[k] = ss[k]
    <2>1. PICK S : ss \in Seq(S)
      BY DEF IsList
    <2>2. taken \in Seq(S) /\ Len(taken) = m
      BY <1>1, <1>3, <2>1, SubSeqProperties
    <2>3. ASSUME NEW k \in 1 .. m PROVE taken[k] = ss[k]
      <3>1. k \in 1 .. m - 1 + 1 /\ 1 + k - 1 = k
        BY <1>3
      <3>2. taken[k] = ss[1 + k - 1]
        BY <1>1, <1>3, <2>1, <3>1, SubSeqProperties
      <3> QED
        BY <3>1, <3>2
    <2> QED
      BY <2>2, <2>3 DEF IsList
  <1> HIDE DEF taken
  <1>5. \A k : k \in DOMAIN taken <=> k \in 1 .. m
    BY <1>4, ListIs
  <1>6. /\ IsList(grown) /\ Len(grown) = Len(x) + m
        /\ \A k \in DOMAIN x : grown[k] = x[k]
        /\ \A k \in 1 .. m : grown[Len(x) + k] = ss[k]
    <2>1. /\ IsList(grown) /\ Len(grown) = Len(x) + Len(taken)
          /\ \A k \in DOMAIN x : grown[k] = x[k]
          /\ \A k \in DOMAIN taken : grown[Len(x) + k] = taken[k]
      <3>1. IsList(taken) /\ grown = x \o taken
        BY <1>4
      <3> HIDE DEF grown
      <3>2. IsList(grown) /\ Len(grown) = Len(x) + Len(taken)
        BY <3>1, ListJoin
      <3>3. \A k \in DOMAIN x : grown[k] = x[k]
        BY <3>1, ListJoin
      <3>4. \A k \in DOMAIN taken : grown[Len(x) + k] = taken[k]
        BY <3>1, ListJoin
      <3> QED
        BY <3>2, <3>3, <3>4
    <2> HIDE DEF grown
    <2>2. ASSUME NEW k \in 1 .. m PROVE grown[Len(x) + k] = ss[k]
      BY <1>4, <1>5, <2>1, Zenon
    <2> QED
      BY <1>4, <2>1, <2>2
  <1> HIDE DEF grown
  <1>7. \A k : k \in DOMAIN grown <=> k \in 1 .. Len(x) + m
    BY <1>6, ListIs
  <1>8. ASSUME NEW k \in DOMAIN grown PROVE k \in DOMAIN x \/ grown[k].name \in NamesIn(ss)
    <2>1. CASE k > Len(x)
      <3>1. k - Len(x) \in 1 .. m /\ Len(x) + (k - Len(x)) = k
        BY <1>1, <1>3, <1>7, <2>1
      <3>2. grown[k] = ss[k - Len(x)] /\ k - Len(x) \in DOMAIN ss
        BY <1>1, <1>3, <1>6, <3>1
      <3> QED
        BY <3>2 DEF NamesIn
    <2> QED
      BY <1>1, <1>3, <1>7, <2>1
  <1>9. ASSUME NEW n \in NamesIn(ss) PROVE Holds(grown, n) \/ IsFull(grown)
    <2>1. CASE m = Len(ss)
      <3>1. PICK k \in DOMAIN ss : ss[k].name = n
        BY DEF NamesIn
      <3>2. grown[Len(x) + k] = ss[k] /\ Len(x) + k \in DOMAIN grown
        BY <1>1, <1>6, <1>7, <2>1, <3>1
      <3> QED
        BY <3>1, <3>2 DEF Holds
    <2> QED
      BY <1>3, <1>6, <2>1 DEF IsFull
  <1> QED
    BY <1>1, <1>2, <1>3, <1>6, <1>8, <1>9 DEF Grown

(* Adding what is new, symbol after symbol.                                *)
AddsNew(x, ss, f) ==
  /\ f[0] = x
  /\ \A k \in 1 .. Len(ss) : f[k] = AddNew(f[k - 1], ss[k])

LEMMA AddsNewIs ==
  ASSUME NEW x, IsList(x), Len(x) <= MaxSymbols, NEW ss, IsList(ss)
  PROVE  \E f : AddsNew(x, ss, f) /\ AddAllNew(x, ss) = f[Len(ss)]
  <1>1. Len(ss) \in Nat /\ (\A k : k \in DOMAIN ss <=> k \in 1 .. Len(ss))
    BY ListIs
  <1>2. PICK A : x \in Seq(A)
    BY DEF IsList
  <1> DEFINE n == Len(ss)
             S == A \cup {ss[k] : k \in 1 .. n}
             X == Seq(S)
             G == [kt \in (1 .. n) \X X |-> AddNew(kt[2], ss[kt[1]])]
  <1>3. ASSUME NEW k \in 1 .. n, NEW tt \in X
        PROVE  G[<<k, tt>>] = AddNew(tt, ss[k]) /\ G[<<k, tt>>] \in X
    <2>1. G[<<k, tt>>] = AddNew(tt, ss[k]) /\ ss[k] \in S
      OBVIOUS
    <2> HIDE DEF S, G
    <2>2. Append(tt, ss[k]) \in X
      BY <2>1
    <2>3. AddNew(tt, ss[k]) \in X
      BY <2>2 DEF AddNew, sym_add
    <2> QED
      BY <2>1, <2>3, Zenon
  <1>4. G \in [(1 .. n) \X X -> X]
    <2>1. G = [kt \in (1 .. n) \X X |-> G[kt]]
      OBVIOUS
    <2>2. ASSUME NEW kt \in (1 .. n) \X X PROVE G[kt] \in X
      <3>1. kt[1] \in 1 .. n /\ kt[2] \in X /\ kt = <<kt[1], kt[2]>>
        OBVIOUS
      <3> HIDE DEF G, X
      <3> QED
        BY <3>1, <1>3
    <2> HIDE DEF G, X
    <2> QED
      BY <2>1, <2>2
  <1>5. x \in X
    BY <1>2
  <1> HIDE DEF G, X
  <1>6. PICK f : Recursive(X, x, n, G, f)
    BY <1>1, <1>4, <1>5, Recursion
  <1>7. \A k \in 1 .. n : f[k] = AddNew(f[k - 1], ss[k])
    <2> SUFFICES ASSUME NEW k \in 1 .. n PROVE f[k] = AddNew(f[k - 1], ss[k])
      OBVIOUS
    <2>1. k - 1 \in 0 .. n
      BY <1>1
    <2>2. f[k - 1] \in X
      BY <1>6, <2>1 DEF Recursive
    <2> QED
      BY <1>3, <1>6, <2>2, Zenon DEF Recursive
  <1> DEFINE Adds(g) == g = [k \in 0 .. n |-> IF k = 0 THEN x ELSE AddNew(g[k - 1], ss[k])]
  <1>8. Adds(f)
    <2>1. \A k \in 0 .. n : k = 0 \/ k \in 1 .. n
      BY <1>1
    <2>2. \A k \in 0 .. n : f[k] = IF k = 0 THEN x ELSE AddNew(f[k - 1], ss[k])
      BY <1>6, <1>7, <2>1, Zenon DEF Recursive
    <2> QED
      BY <1>6, <2>2, Zenon DEF Recursive
  <1> DEFINE g == CHOOSE h : Adds(h)
  <1>9. Adds(g)
    BY <1>8, Zenon
  <1>10. AddAllNew(x, ss) = g[n]
    BY Zenon DEF AddAllNew
  <1> HIDE DEF g
  <1>11. AddsNew(x, ss, g)
    <2>1. \A k \in 0 .. n : g[k] = IF k = 0 THEN x ELSE AddNew(g[k - 1], ss[k])
      BY <1>9
    <2>2. 0 \in 0 .. n /\ \A k \in 1 .. n : k \in 0 .. n /\ k # 0
      BY <1>1
    <2> QED
      BY <2>1, <2>2, Zenon DEF AddsNew
  <1> QED
    BY <1>10, <1>11

(* So are those of the first pass.                                        *)
LEMMA AddManyNew ==
  ASSUME NEW x, IsList(x), Len(x) <= MaxSymbols, NEW ss, IsList(ss)
  PROVE  Grown(x, AddAllNew(x, ss), NamesIn(ss))
  <1> DEFINE First(k) == {ss[j].name : j \in 1 .. k}
             n == Len(ss)
  <1>1. n \in Nat /\ (\A k : k \in DOMAIN ss <=> k \in 1 .. n)
    BY ListIs
  <1>2. PICK f : AddsNew(x, ss, f) /\ AddAllNew(x, ss) = f[n]
    BY AddsNewIs
  <1>3. First(0) = {} /\ \A k \in Nat : First(k + 1) = First(k) \cup {ss[k + 1].name}
    OBVIOUS
  <1>4. First(n) = NamesIn(ss)
    BY <1>1 DEF NamesIn
  <1>5. f[0] = x /\ \A k \in 1 .. n : f[k] = AddNew(f[k - 1], ss[k])
    BY <1>2, Zenon DEF AddsNew
  <1> HIDE DEF n, First
  <1> DEFINE S == {k \in 0 .. n : Grown(x, f[k], First(k))}
  <1>6. 0 \in S
    <2>1. Grown(x, f[0], First(0))
      BY <1>3, <1>5, GrownNone
    <2> QED
      BY <1>1, <2>1
  <1>7. ASSUME NEW k \in 0 .. n - 1, k \in S PROVE k + 1 \in S
    <2>1. k + 1 \in 1 .. n /\ (k + 1) - 1 = k /\ k + 1 \in 0 .. n /\ k \in Nat
      BY <1>1
    <2>2. f[k + 1] = AddNew(f[k], ss[k + 1])
      BY <1>5, <2>1
    <2>3. Grown(x, f[k], First(k))
      BY <1>7
    <2>4. IsList(f[k]) /\ Len(f[k]) <= MaxSymbols
      BY <2>3, Zenon DEF Grown
    <2>5. Grown(f[k], f[k + 1], {ss[k + 1].name})
      BY <2>2, <2>4, AddOneNew
    <2>6. Grown(x, f[k + 1], First(k) \cup {ss[k + 1].name})
      BY <2>3, <2>5, GrownTwice
    <2> QED
      BY <1>3, <2>1, <2>6
  <1> HIDE DEF S
  <1>8. 0 .. n \subseteq S
    <2>1. \A k \in 0 .. n - 1 : k \in S => k + 1 \in S
      BY <1>7
    <2> QED
      BY <1>1, <1>6, <2>1, UpTo
  <1>9. Grown(x, f[n], First(n))
    BY <1>1, <1>8 DEF S
  <1> QED
    BY <1>2, <1>4, <1>9

LEMMA NamesJoin ==
  ASSUME NEW x, IsList(x), NEW y, IsList(y), NEW z, z = x \o y
  PROVE  IsList(z) /\ NamesIn(z) = NamesIn(x) \cup NamesIn(y)
  <1>1. /\ Len(x) \in Nat /\ (\A k : k \in DOMAIN x <=> k \in 1 .. Len(x))
        /\ Len(y) \in Nat /\ (\A k : k \in DOMAIN y <=> k \in 1 .. Len(y))
    BY ListIs
  <1>2. IsList(z) /\ Len(z) = Len(x) + Len(y)
    BY ListJoin
  <1>3. \A k : k \in DOMAIN z <=> k \in 1 .. Len(x) + Len(y)
    BY <1>2, ListIs
  <1>4. \A k \in DOMAIN x : z[k] = x[k]
    BY ListJoin
  <1>5. \A k \in DOMAIN y : z[Len(x) + k] = y[k]
    BY ListJoin
  <1>6. ASSUME NEW k \in DOMAIN z PROVE z[k].name \in NamesIn(x) \cup NamesIn(y)
    <2>1. CASE k <= Len(x)
      <3>1. k \in DOMAIN x
        BY <1>1, <1>3, <2>1
      <3> QED
        BY <1>4, <3>1 DEF NamesIn
    <2>2. CASE k > Len(x)
      <3>1. k - Len(x) \in DOMAIN y /\ Len(x) + (k - Len(x)) = k
        BY <1>1, <1>3, <2>2
      <3>2. z[k] = y[k - Len(x)]
        BY <1>5, <3>1
      <3> QED
        BY <3>1, <3>2 DEF NamesIn
    <2> QED
      BY <1>1, <1>3, <2>1, <2>2
  <1>7. ASSUME NEW k \in DOMAIN x PROVE x[k].name \in NamesIn(z)
    <2>1. k \in DOMAIN z /\ z[k] = x[k]
      BY <1>1, <1>3, <1>4
    <2> QED
      BY <2>1 DEF NamesIn
  <1>8. ASSUME NEW k \in DOMAIN y PROVE y[k].name \in NamesIn(z)
    <2>1. Len(x) + k \in DOMAIN z /\ z[Len(x) + k] = y[k]
      BY <1>1, <1>3, <1>5
    <2> QED
      BY <2>1 DEF NamesIn
  <1>9. NamesIn(z) \subseteq NamesIn(x) \cup NamesIn(y)
    BY <1>6 DEF NamesIn
  <1>10. NamesIn(x) \subseteq NamesIn(z) /\ NamesIn(y) \subseteq NamesIn(z)
    BY <1>7, <1>8 DEF NamesIn
  <1> QED
    BY <1>2, <1>9, <1>10

-----------------------------------------------------------------------------
(* A function over 1 .. n is a list.                                       *)
LEMMA ListFun ==
  ASSUME NEW n \in Nat, NEW f, f = [k \in 1 .. n |-> f[k]]
  PROVE  IsList(f) /\ Len(f) = n /\ \A k : k \in DOMAIN f <=> k \in 1 .. n
  <1> DEFINE S == {f[k] : k \in 1 .. n}
  <1>1. f \in [1 .. n -> S]
    OBVIOUS
  <1> HIDE DEF S
  <1>2. f \in Seq(S) /\ Len(f) = n
    BY <1>1
  <1> QED
    BY <1>1, <1>2 DEF IsList

(* The nodes of some kinds are picked one after the other.                 *)
Picks(nodes, kinds, f) ==
  /\ f[0] = <<>>
  /\ \A k \in 1 .. Len(nodes) :
       f[k] = IF Is(nodes[k], kinds) THEN Append(f[k - 1], nodes[k]) ELSE f[k - 1]

LEMMA PicksIs ==
  ASSUME NEW T, NEW nodes \in Seq(T), NEW kinds
  PROVE  \E f : Picks(nodes, kinds, f) /\ OfKinds(nodes, kinds) = f[Len(nodes)]
  <1> DEFINE n == Len(nodes)
             X == Seq(T)
             Step(k, s) == IF Is(nodes[k], kinds) THEN Append(s, nodes[k]) ELSE s
             G == [ks \in (1 .. n) \X X |-> Step(ks[1], ks[2])]
  <1>1. n \in Nat /\ (\A k \in 1 .. n : nodes[k] \in T) /\ <<>> \in X
    OBVIOUS
  <1>2. ASSUME NEW k \in 1 .. n, NEW s \in X PROVE Step(k, s) \in X
    BY <1>1
  <1>3. \A k \in 1 .. n, s \in X : G[<<k, s>>] = Step(k, s)
    OBVIOUS
  <1>4. G \in [(1 .. n) \X X -> X]
    <2>1. G = [ks \in (1 .. n) \X X |-> G[ks]]
      OBVIOUS
    <2>2. ASSUME NEW ks \in (1 .. n) \X X PROVE G[ks] \in X
      <3>1. ks[1] \in 1 .. n /\ ks[2] \in X /\ ks = <<ks[1], ks[2]>>
        OBVIOUS
      <3> HIDE DEF G, X, Step
      <3> QED
        BY <3>1, <1>2, <1>3
    <2> HIDE DEF G, X
    <2> QED
      BY <2>1, <2>2
  <1> HIDE DEF G, X
  <1>5. PICK f : Recursive(X, <<>>, n, G, f)
    BY <1>1, <1>4, Recursion
  <1>6. \A k \in 1 .. n : f[k] = Step(k, f[k - 1])
    <2> SUFFICES ASSUME NEW k \in 1 .. n PROVE f[k] = Step(k, f[k - 1])
      OBVIOUS
    <2>1. k - 1 \in 0 .. n
      BY <1>1
    <2>2. f[k - 1] \in X
      BY <1>5, <2>1 DEF Recursive
    <2> QED
      BY <1>3, <1>5, <2>2, Zenon DEF Recursive
  <1> DEFINE Took(g) ==
        g = [k \in 0 .. n |->
               IF k = 0 THEN <<>>
               ELSE IF Is(nodes[k], kinds) THEN Append(g[k - 1], nodes[k]) ELSE g[k - 1]]
  <1>7. Took(f)
    <2>1. \A k \in 0 .. n : k = 0 \/ k \in 1 .. n
      BY <1>1
    <2>2. \A k \in 0 .. n : f[k] = IF k = 0 THEN <<>> ELSE Step(k, f[k - 1])
      BY <1>5, <1>6, <2>1, Zenon DEF Recursive
    <2> QED
      BY <1>5, <2>2, Zenon DEF Recursive
  <1> DEFINE g == CHOOSE h : Took(h)
  <1>8. Took(g)
    BY <1>7, Zenon
  <1>9. OfKinds(nodes, kinds) = g[n]
    BY Zenon DEF OfKinds
  <1> HIDE DEF g
  <1>10. Picks(nodes, kinds, g)
    <2>1. \A k \in 0 .. n : g[k] = IF k = 0 THEN <<>> ELSE Step(k, g[k - 1])
      BY <1>8
    <2>2. 0 \in 0 .. n /\ \A k \in 1 .. n : k \in 0 .. n /\ k # 0
      BY <1>1
    <2> QED
      BY <2>1, <2>2, Zenon DEF Picks
  <1> QED
    BY <1>9, <1>10

(* They are all there, and no others.                                      *)
LEMMA OfKindsAre ==
  ASSUME NEW T, NEW nodes \in Seq(T), NEW kinds
  PROVE  /\ OfKinds(nodes, kinds) \in Seq(T)
         /\ \A k \in DOMAIN OfKinds(nodes, kinds) :
              \E j \in DOMAIN nodes : nodes[j] = OfKinds(nodes, kinds)[k] /\ Is(nodes[j], kinds)
         /\ \A j \in DOMAIN nodes : Is(nodes[j], kinds) =>
              \E k \in DOMAIN OfKinds(nodes, kinds) : OfKinds(nodes, kinds)[k] = nodes[j]
  <1> DEFINE n == Len(nodes)
             Good(m, s) ==
               /\ s \in Seq(T)
               /\ \A k \in DOMAIN s : \E j \in 1 .. m : nodes[j] = s[k] /\ Is(nodes[j], kinds)
               /\ \A j \in 1 .. m : Is(nodes[j], kinds) => \E k \in DOMAIN s : s[k] = nodes[j]
  <1>1. n \in Nat /\ DOMAIN nodes = 1 .. n /\ \A k \in 1 .. n : nodes[k] \in T
    OBVIOUS
  <1>2. PICK f : Picks(nodes, kinds, f) /\ OfKinds(nodes, kinds) = f[n]
    BY PicksIs
  <1>3. /\ f[0] = <<>>
        /\ \A k \in 1 .. n : f[k] = IF Is(nodes[k], kinds) THEN Append(f[k - 1], nodes[k])
                                                           ELSE f[k - 1]
    BY <1>2, Zenon DEF Picks
  <1> HIDE DEF n
  <1> DEFINE S == {m \in 0 .. n : Good(m, f[m])}
  <1>4. 0 \in S
    <2>1. Good(0, <<>>)
      OBVIOUS
    <2> HIDE DEF Good
    <2> QED
      BY <1>1, <1>3, <2>1
  <1>5. ASSUME NEW m \in 0 .. n - 1, m \in S PROVE m + 1 \in S
    <2>1. /\ m + 1 \in 1 .. n /\ (m + 1) - 1 = m /\ m + 1 \in 0 .. n /\ m \in Nat
          /\ \A j : j \in 1 .. m + 1 <=> j \in 1 .. m \/ j = m + 1
      BY <1>1
    <2> DEFINE s == f[m]
               r == f[m + 1]
               e == nodes[m + 1]
    <2>2. Good(m, s)
      BY <1>5
    <2>3. e \in T /\ r = IF Is(e, kinds) THEN Append(s, e) ELSE s
      BY <1>1, <1>3, <2>1
    <2> HIDE DEF s, r
    <2>4. CASE ~Is(e, kinds)
      <3>1. r = s
        BY <2>3, <2>4
      <3>2. Good(m + 1, s)
        BY <2>1, <2>2, <2>4
      <3> QED
        BY <2>1, <3>1, <3>2 DEF r
    <2>5. CASE Is(e, kinds)
      <3> HIDE DEF e
      <3>1. r = Append(s, e) /\ s \in Seq(T)
        BY <2>2, <2>3, <2>5
      <3>2. r \in Seq(T) /\ Len(r) = Len(s) + 1 /\ r[Len(s) + 1] = e
            /\ \A k \in DOMAIN s : k \in DOMAIN r /\ r[k] = s[k]
        BY <2>3, <3>1
      <3>3. /\ Len(s) + 1 \in DOMAIN r
            /\ \A k \in DOMAIN r : k \in DOMAIN s \/ k = Len(s) + 1
        BY <3>1, <3>2
      <3>4. ASSUME NEW k \in DOMAIN r
            PROVE  \E j \in 1 .. m + 1 : nodes[j] = r[k] /\ Is(nodes[j], kinds)
        BY <2>1, <2>2, <2>5, <3>2, <3>3, <3>4 DEF e
      <3>5. ASSUME NEW j \in 1 .. m + 1, Is(nodes[j], kinds)
            PROVE  \E k \in DOMAIN r : r[k] = nodes[j]
        BY <2>1, <2>2, <3>2, <3>3, <3>5 DEF e
      <3>6. Good(m + 1, r)
        BY <3>2, <3>4, <3>5
      <3> QED
        BY <2>1, <3>6 DEF r
    <2> QED
      BY <2>4, <2>5
  <1> HIDE DEF S
  <1>6. 0 .. n \subseteq S
    <2>1. \A k \in 0 .. n - 1 : k \in S => k + 1 \in S
      BY <1>5
    <2> QED
      BY <1>1, <1>4, <2>1, UpTo
  <1>7. Good(n, f[n])
    <2>1. n \in S
      BY <1>1, <1>6
    <2> HIDE DEF Good
    <2> QED
      BY <2>1 DEF S
  <1>8. DOMAIN nodes = 1 .. n
    BY <1>1
  <1>9. Good(n, OfKinds(nodes, kinds))
    <2> HIDE DEF Good
    <2> QED
      BY <1>2, <1>7
  <1> QED
    BY <1>8, <1>9

(* What a node makes known is a list, which the name of a class is in.     *)
LEMMA MadeIs ==
  ASSUME prog \in Programs, NEW i \in Ids
  PROVE  IsList(Made(i)) /\ (Is(i, ClassLike) => prog[i].name \in NamesIn(Made(i)))
  <1>1. Kids(i) \in Seq(Ids)
    BY KidsAre
  <1>2. \A s : IsList(<<s>>)
    <2> SUFFICES ASSUME NEW s PROVE IsList(<<s>>)
      OBVIOUS
    <2>1. <<s>> \in Seq({s})
      OBVIOUS
    <2> QED
      BY <2>1 DEF IsList
  <1>3. IsList(<<>>)
    <2>1. <<>> \in Seq({})
      OBVIOUS
    <2> QED
      BY <2>1 DEF IsList
  <1>4. IsList(Enumerators(i))
    <2> DEFINE f == Enumerators(i)
    <2>1. 2 * Len(Kids(i)) \in Nat
      BY <1>1
    <2>2. f = [k \in 1 .. 2 * Len(Kids(i)) |-> f[k]]
      BY Zenon DEF Enumerators
    <2> HIDE DEF f
    <2>3. IsList(f)
      BY <2>1, <2>2, ListFun
    <2> QED
      BY <2>3 DEF f
  <1> DEFINE members == OfKinds(Kids(i), MethodLike)
             f == [k \in DOMAIN members |-> MemberSymbol(i, members[k])]
  <1>5. IsList(f)
    <2>1. Len(members) \in Nat /\ DOMAIN members = 1 .. Len(members)
      <3>1. members \in Seq(Ids)
        BY <1>1, OfKindsAre
      <3> HIDE DEF members
      <3> QED
        BY <3>1
    <2>2. f = [k \in 1 .. Len(members) |-> f[k]]
      BY <2>1
    <2> HIDE DEF f
    <2> QED
      BY <2>1, <2>2, ListFun
  <1>6. \A e : IsList(<<e>> \o f) /\ IsList(<<e>> \o Enumerators(i))
    <2> HIDE DEF f
    <2> QED
      BY <1>2, <1>4, <1>5, ListJoin
  <1>7. CASE Is(i, ClassLike)
    <2>1. /\ ~Is(i, {"block"}) /\ ~Is(i, Functions) /\ ~Is(i, {"chan"})
          /\ ~Is(i, {"const"}) /\ ~Is(i, {"enum"})
      BY <1>7 DEF Is, ClassLike, Functions
    <2>2. Made(i) = <<Constant(prog[i].name, <<"type">>)>> \o f
      BY <1>7, <2>1, Zenon DEF Made
    <2>3. IsList(Made(i))
      BY <1>6, <2>2
    <2> DEFINE e == <<Constant(prog[i].name, <<"type">>)>>
    <2>4. 1 \in DOMAIN e /\ e[1].name = prog[i].name /\ Len(e) = 1
      BY DEF Constant
    <2> HIDE DEF e, f
    <2>5. NamesIn(e) \subseteq NamesIn(Made(i))
      <3>1. IsList(e) /\ Made(i) = e \o f
        BY <1>2, <2>2 DEF e
      <3>2. NamesIn(Made(i)) = NamesIn(e) \cup NamesIn(f)
        BY <1>5, <3>1, NamesJoin
      <3> QED
        BY <3>2
    <2>6. prog[i].name \in NamesIn(e)
      BY <2>4 DEF NamesIn
    <2> QED
      BY <2>3, <2>5, <2>6
  <1>8. ASSUME ~Is(i, ClassLike), Is(i, {"enum"}) PROVE IsList(Made(i))
    <2>1. ~Is(i, {"block"}) /\ ~Is(i, Functions) /\ ~Is(i, {"chan"}) /\ ~Is(i, {"const"})
      BY <1>8 DEF Is, Functions
    <2>2. Made(i) = <<Constant(prog[i].name, <<"type">>)>> \o Enumerators(i)
      BY <1>8, <2>1, Zenon DEF Made
    <2> QED
      BY <1>6, <2>2
  <1>9. ASSUME ~Is(i, ClassLike), ~Is(i, {"enum"}) PROVE IsList(Made(i))
    <2>1. Made(i) = <<>> \/ \E s : Made(i) = <<s>>
      BY <1>9 DEF Made
    <2> QED
      BY <1>2, <1>3, <2>1
  <1> QED
    BY <1>7, <1>8, <1>9

-----------------------------------------------------------------------------
(* A step leaves the tree alone, and with it what is said of the tree.     *)
LEMMA SameTree ==
  ASSUME prog' = prog
  PROVE  /\ Ids' = Ids
         /\ \A i : /\ Kids(i)' = Kids(i) /\ Parent(i)' = Parent(i) /\ Around(i)' = Around(i)
                   /\ Below(i)' = Below(i) /\ (Checked(i)' <=> Checked(i))
                   /\ Made(i)' = Made(i) /\ (Hoisted(i)' <=> Hoisted(i))
         /\ Enabled' = Enabled /\ CHeaders' = CHeaders
  <1>1. Ids' = Ids /\ \A i : Kids(i)' = Kids(i)
    BY DEF Ids, Kids
  <1>2. \A i : Parent(i)' = Parent(i)
    BY DEF Ids, Kids, Parent
  <1>3. \A i : Around(i)' = Around(i)
    BY <1>2 DEF Around
  <1>4. \A i : Below(i)' = Below(i)
    BY <1>3 DEF Below, Ids
  <1>5. \A i : Checked(i)' <=> Checked(i)
    BY <1>2, <1>3 DEF Checked, Kids, Is
  <1>6. \A i, s : OfKinds(Kids(i), s)' = OfKinds(Kids(i), s)
    BY DEF OfKinds, Kids, Is
  <1>7. \A i : Enumerators(i)' = Enumerators(i)
    BY DEF Enumerators, Kids, Constant
  <1>8. \A c, i : MemberSymbol(c, i)' = MemberSymbol(c, i)
    BY DEF MemberSymbol, MemberName, Is, Symbol
  <1>9. \A i : BlockName(i)' = BlockName(i)
    BY DEF BlockName
  <1>10. \A i : Made(i)' = Made(i)
    <2> SUFFICES ASSUME NEW i PROVE Made(i)' = Made(i)
      OBVIOUS
    <2> QED
      BY <1>6, <1>7, <1>8, <1>9 DEF Made, Is, Kids, Symbol, Constant
  <1>11. Enabled' = Enabled
    BY DEF Enabled, IsTensorImport, Is, Kids
  <1>12. \A i : Hoisted(i)' <=> Hoisted(i)
    BY <1>1, <1>10, <1>11 DEF Hoisted
  <1>13. CHeaders' = CHeaders
    BY DEF CHeaders, IsTensorImport, Is, Kids
  <1> QED
    BY <1>1, <1>2, <1>3, <1>4, <1>5, <1>10, <1>11, <1>12, <1>13

SemanticTyped ==
  /\ prog \in Programs
  /\ pass \in {"library", "collect", "check", "done", "exited"}
  /\ at \in Nat \ {0}
  /\ todo \in Seq([what : {"node", "member", "part"}, node : Ids, scope : Int])
  /\ IsList(syms) /\ Len(syms) <= MaxSymbols
  /\ pass \in {"library", "collect"} => todo = <<>> /\ bad = {}
  /\ pass = "library" => syms = <<>>
  /\ pass = "done" => todo = <<>>

(* What takes the place of the first call: nodes, and what is done there.  *)
Body(i) == IF Kids(i) # <<>> /\ Is(Last(Kids(i)), {"program"}) THEN <<Last(Kids(i))>> ELSE <<>>
Descent ==
  IF Head(todo).what = "node" THEN IF Is(This, Functions) THEN Body(This) ELSE Kids(This)
  ELSE IF Head(todo).what = "member" THEN IF Is(This, MethodLike) THEN Kids(This) ELSE <<>>
  ELSE IF Is(This, {"program"}) THEN <<This>> ELSE <<>>
DescentWhat ==
  IF Head(todo).what = "node" /\ Is(This, ClassLike) THEN "member"
  ELSE IF Head(todo).what = "member" THEN "part" ELSE "node"

(* The names it enters into the table.                                     *)
Parameters(i) == {prog[Kids(i)[k]].name : k \in {l \in DOMAIN Kids(i) : Is(Kids(i)[l], {"var"})}}
Entered ==
  IF Head(todo).what = "node"
    THEN IF Is(This, {"var", "ptr"} \cup ClassLike) THEN {prog[This].name}
         ELSE IF Is(This, Functions) THEN Parameters(This)
         ELSE IF Is(This, {"each"}) THEN {prog[Kids(This)[1]].name} ELSE {}
  ELSE IF Is(This, {"var"}) THEN {prog[This].name}
  ELSE IF Head(todo).what = "member" /\ Is(This, MethodLike) THEN {<<"this">>} ELSE {}

Steps ==
  /\ pass = "check" /\ todo # <<>>
  /\ prog' = prog /\ pass' = pass /\ at' = at
  /\ \E scope \in Int : todo' = Calls(DescentWhat, Descent, scope) \o Tail(todo)
  /\ Grown(syms, syms', Entered)
  /\ bad \subseteq bad' /\ twice \subseteq twice'

(* What it reports, and the entry of a declaration.                        *)
Reports ==
  /\ \A i \in bad' : i \in bad \/ (i = This /\ ~Holds(syms, prog[This].name))
  /\ Head(todo).what = "node" /\ Looked(This) /\ ~CHeaders /\ ~Holds(syms, prog[This].name) =>
       This \in bad'
  /\ Head(todo).what = "node" /\ Is(This, {"var", "ptr"}) =>
       /\ Redeclared => This \in twice'
       /\ \/ Len(syms') = MaxSymbols
          \/ \E k \in DOMAIN syms' : syms'[k].name = prog[This].name /\ syms'[k].scope = Scope

(* A step that neither looks up nor declares has nothing to report.       *)
LEMMA Unreported ==
  ASSUME bad' = bad,
         ~(Head(todo).what = "node" /\ Is(This, {"var", "ptr", "ident", "set", "call"}))
  PROVE  Reports
  BY DEF Reports, Looked, Is

(* The first call to come is that of a node of the tree.                  *)
LEMMA HeadIs ==
  ASSUME SemanticTyped, todo # <<>>
  PROVE  /\ This \in Ids /\ Scope \in Int /\ This \in Nat /\ prog[This] \in Node
         /\ Head(todo).what \in {"node", "member", "part"}
         /\ Head(todo) = todo[1] /\ 1 \in DOMAIN todo /\ This = todo[1].node
  <1> DEFINE R == [what : {"node", "member", "part"}, node : Ids, scope : Int]
  <1>1. Head(todo) \in R /\ Head(todo) = todo[1] /\ 1 \in DOMAIN todo
    <2>1. todo \in Seq(R)
      BY DEF SemanticTyped
    <2> HIDE DEF R
    <2> QED
      BY <2>1
  <1>2. This \in Ids
    BY <1>1 DEF This
  <1> QED
    BY <1>1, <1>2, ProgramIs DEF This, Scope, SemanticTyped

(* Names the nodes of a list go by, in a list of their symbols.            *)
LEMMA ParametersAre ==
  ASSUME prog \in Programs, NEW i \in Ids, NEW scope
  PROVE  LET params == OfKinds(Kids(i), {"var"})
             ss == [k \in DOMAIN params |-> Variable(params[k], scope)]
         IN  IsList(ss) /\ NamesIn(ss) = Parameters(i)
  <1> DEFINE params == OfKinds(Kids(i), {"var"})
             ss == [k \in DOMAIN params |-> Variable(params[k], scope)]
  <1>1. /\ params \in Seq(Ids)
        /\ \A k \in DOMAIN params :
             \E j \in DOMAIN Kids(i) : Kids(i)[j] = params[k] /\ Is(Kids(i)[j], {"var"})
        /\ \A j \in DOMAIN Kids(i) : Is(Kids(i)[j], {"var"}) =>
             \E k \in DOMAIN params : params[k] = Kids(i)[j]
    <2>1. Kids(i) \in Seq(Ids)
      BY KidsAre
    <2> QED
      BY <2>1, OfKindsAre
  <1> HIDE DEF params
  <1>2. Len(params) \in Nat /\ DOMAIN params = 1 .. Len(params)
    BY <1>1
  <1>3. ss = [k \in 1 .. Len(params) |-> ss[k]]
    BY <1>2
  <1>4. DOMAIN ss = DOMAIN params /\ \A k \in DOMAIN params : ss[k].name = prog[params[k]].name
    BY DEF Variable, Symbol
  <1> HIDE DEF ss
  <1>5. IsList(ss)
    BY <1>2, <1>3, ListFun
  <1>6. NamesIn(ss) = Parameters(i)
    <2>1. ASSUME NEW k \in DOMAIN ss PROVE ss[k].name \in Parameters(i)
      <3>1. PICK j \in DOMAIN Kids(i) : Kids(i)[j] = params[k] /\ Is(Kids(i)[j], {"var"})
        BY <1>1, <1>4
      <3> QED
        BY <1>4, <3>1 DEF Parameters
    <2>2. ASSUME NEW j \in DOMAIN Kids(i), Is(Kids(i)[j], {"var"})
          PROVE  prog[Kids(i)[j]].name \in NamesIn(ss)
      <3>1. PICK k \in DOMAIN params : params[k] = Kids(i)[j]
        BY <1>1, <2>2
      <3> QED
        BY <1>4, <3>1 DEF NamesIn
    <2> QED
      BY <2>1, <2>2 DEF NamesIn, Parameters
  <1> QED
    BY <1>5, <1>6 DEF params, ss

(* Every step of the check is one of these, or the end of the program.     *)
LEMMA NodeStep ==
  ASSUME SemanticTyped, NEW kinds, At(kinds), ~Is(This, Functions \cup ClassLike),
         NEW scope \in Int, Recurse(Kids(This), scope), Grown(syms, syms', Entered),
         bad \subseteq bad', twice \subseteq twice'
  PROVE  Steps
  <1>1. Head(todo).what = "node" /\ pass = "check" /\ todo # <<>>
    BY DEF At
  <1>2. Descent = Kids(This) /\ DescentWhat = "node"
    BY <1>1 DEF Descent, DescentWhat, Is
  <1> QED
    BY <1>1, <1>2 DEF Steps, Recurse

(* A declaration enters its name in its scope and notices a second one.   *)
LEMMA DeclarationSteps ==
  ASSUME SemanticTyped, Declaration \/ Pointer
  PROVE  Steps /\ Reports
  <1>1. PICK type : Declare(type) /\ At({"var", "ptr"})
    BY DEF Declaration, Pointer, At, Is
  <1> DEFINE s == Symbol(prog[This].name, type, Scope)
  <1>2. s.name = prog[This].name /\ s.scope = Scope
    BY DEF Symbol
  <1>3. /\ syms' = sym_add(syms, s) /\ Recurse(Kids(This), Scope) /\ bad' = bad
        /\ twice' = IF Redeclared THEN twice \cup {This} ELSE twice
    BY <1>1 DEF Declare
  <1> HIDE DEF s
  <1>4. /\ Grown(syms, syms', {prog[This].name})
        /\ Len(syms') = MaxSymbols \/ \E k \in DOMAIN syms' : syms'[k] = s
    BY <1>2, <1>3, AddOne DEF SemanticTyped, IsFull
  <1>5. /\ Head(todo).what = "node" /\ todo # <<>> /\ Is(This, {"var", "ptr"})
        /\ ~Is(This, Functions \cup ClassLike)
    BY <1>1 DEF At, Is, Functions, ClassLike
  <1>6. Entered = {prog[This].name}
    BY <1>5 DEF Entered, Is
  <1>7. Steps
    BY <1>1, <1>3, <1>4, <1>5, <1>6, HeadIs, NodeStep
  <1>8. Reports
    <2>1. ~Looked(This)
      BY <1>5 DEF Looked, Is
    <2>2. \/ Len(syms') = MaxSymbols
          \/ \E k \in DOMAIN syms' : syms'[k].name = prog[This].name /\ syms'[k].scope = Scope
      BY <1>2, <1>4
    <2>3. Redeclared => This \in twice'
      BY <1>3
    <2> QED
      BY <1>3, <2>1, <2>2, <2>3 DEF Reports
  <1> QED
    BY <1>7, <1>8

(* A class leads to its members.                                          *)
LEMMA ClassSteps ==
  ASSUME SemanticTyped, Class
  PROVE  Steps /\ Reports
  <1>1. /\ pass = "check" /\ todo # <<>> /\ Head(todo).what = "node" /\ Is(This, ClassLike)
        /\ ~Is(This, Functions) /\ UNCHANGED <<prog, pass, at, bad, twice>>
    BY DEF Class, At, Is, ClassLike, Functions
  <1>2. Descent = Kids(This) /\ DescentWhat = "member" /\ Entered = {prog[This].name}
    BY <1>1 DEF Descent, DescentWhat, Entered, Is
  <1>3. Grown(syms, syms', Entered)
    <2> DEFINE s == Constant(prog[This].name, <<"type">>)
    <2>1. s.name = prog[This].name
      BY DEF Constant
    <2>2. syms' = AddNew(syms, s)
      BY DEF Class
    <2> HIDE DEF s
    <2> QED
      BY <1>2, <2>1, <2>2, AddOneNew DEF SemanticTyped
  <1>4. todo' = Calls(DescentWhat, Descent, This) \o Tail(todo)
    BY <1>2, Zenon DEF Class, Calls
  <1>5. This \in Int
    BY <1>1, HeadIs
  <1>6. ~Is(This, {"var", "ptr", "ident", "set", "call"})
    BY <1>1 DEF Is, ClassLike
  <1> QED
    BY <1>1, <1>3, <1>4, <1>5, <1>6, Unreported DEF Steps

(* No calls to come of no node, and one of one.                            *)
LEMMA CallsOf ==
  ASSUME NEW what, NEW scope, NEW i
  PROVE  Calls(what, <<>>, scope) = <<>> /\ Calls(what, <<i>>, scope) = <<Call(what, i, scope)>>
  <1>1. Calls(what, <<>>, scope) = <<>>
    BY DEF Calls
  <1>2. Calls(what, <<i>>, scope) = <<Call(what, i, scope)>>
    BY DEF Calls
  <1> QED
    BY <1>1, <1>2

(* A call that leads nowhere leaves the rest to come.                     *)
LEMMA TailIs ==
  ASSUME SemanticTyped, todo # <<>>, NEW what, NEW scope
  PROVE  Calls(what, <<>>, scope) \o Tail(todo) = Tail(todo)
  <1>1. PICK S : todo \in Seq(S)
    BY DEF SemanticTyped
  <1>2. <<>> \o Tail(todo) = Tail(todo)
    BY <1>1
  <1>3. Calls(what, <<>>, scope) = <<>>
    BY CallsOf
  <1> QED
    BY <1>2, <1>3, Zenon

(* A method enters `this` and leads to its parts, a field its name.       *)
LEMMA MemberSteps ==
  ASSUME SemanticTyped, Member
  PROVE  Steps /\ Reports
  <1>1. /\ pass = "check" /\ todo # <<>> /\ Head(todo).what = "member"
        /\ UNCHANGED <<prog, pass, at, bad, twice>>
    BY DEF Member
  <1>2. This \in Ids /\ Scope \in Int /\ prog[This] \in Node
    BY <1>1, HeadIs
  <1>3. Calls(DescentWhat, <<>>, Scope) \o Tail(todo) = Tail(todo)
    BY <1>1, TailIs
  <1>4. IsList(syms) /\ Len(syms) <= MaxSymbols
    BY DEF SemanticTyped
  <1>5. Reports
    BY <1>1, Unreported
  <1>6. CASE Is(This, {"var"})
    <2>1. ~Is(This, MethodLike)
      BY <1>6 DEF Is, MethodLike
    <2>2. Descent = <<>> /\ Entered = {prog[This].name}
      BY <1>1, <1>6, <2>1 DEF Descent, Entered
    <2>3. todo' = Tail(todo) /\ \E scope : syms' = sym_add(syms, Variable(This, scope))
      BY <1>6, <2>1 DEF Member
    <2>4. todo' = Calls(DescentWhat, Descent, Scope) \o Tail(todo)
      BY <1>3, <2>2, <2>3, Zenon
    <2>5. Grown(syms, syms', Entered)
      <3>1. PICK scope : syms' = sym_add(syms, Variable(This, scope))
        BY <2>3
      <3>2. Variable(This, scope).name = prog[This].name
        BY DEF Variable, Symbol
      <3> QED
        BY <1>4, <2>2, <3>1, <3>2, AddOne
    <2> QED
      BY <1>1, <1>2, <1>5, <2>4, <2>5 DEF Steps
  <1>7. CASE Is(This, MethodLike)
    <2>1. ~Is(This, {"var"})
      BY <1>7 DEF Is, MethodLike
    <2>2. Descent = Kids(This) /\ Entered = {<<"this">>} /\ DescentWhat = "part"
      BY <1>1, <1>7, <2>1 DEF Descent, Entered, DescentWhat
    <2>3. /\ todo' = Calls("part", Kids(This), prog[This].line) \o Tail(todo)
          /\ \E type, scope : syms' = sym_add(syms, Symbol(<<"this">>, type, scope))
      BY <1>7, <2>1, Zenon DEF Member
    <2>4. Grown(syms, syms', Entered)
      <3>1. PICK type, scope : syms' = sym_add(syms, Symbol(<<"this">>, type, scope))
        BY <2>3
      <3>2. Symbol(<<"this">>, type, scope).name = <<"this">>
        BY DEF Symbol
      <3> QED
        BY <1>4, <2>2, <3>1, <3>2, AddOne
    <2>5. prog[This].line \in Int
      BY <1>2 DEF Node
    <2> QED
      BY <1>1, <1>5, <2>2, <2>3, <2>4, <2>5 DEF Steps
  <1>8. CASE ~Is(This, {"var"}) /\ ~Is(This, MethodLike)
    <2>1. Descent = <<>> /\ Entered = {}
      BY <1>1, <1>8 DEF Descent, Entered
    <2>2. todo' = Tail(todo) /\ syms' = syms
      BY <1>8, Zenon DEF Member
    <2>3. todo' = Calls(DescentWhat, Descent, Scope) \o Tail(todo)
      BY <1>3, <2>1, <2>2, Zenon
    <2>4. Grown(syms, syms', Entered)
      BY <1>4, <2>1, <2>2, GrownNone
    <2> QED
      BY <1>1, <1>2, <1>5, <2>3, <2>4 DEF Steps
  <1> QED
    BY <1>1, <1>6, <1>7, <1>8

(* A part of a method is a parameter, or the body it leads to.            *)
LEMMA PartSteps ==
  ASSUME SemanticTyped, Part
  PROVE  Steps /\ Reports
  <1>1. /\ pass = "check" /\ todo # <<>> /\ Head(todo).what = "part"
        /\ UNCHANGED <<prog, pass, at, bad, twice>>
    BY DEF Part
  <1>2. This \in Ids /\ Scope \in Int
    BY <1>1, HeadIs
  <1>3. Calls(DescentWhat, <<>>, Scope) \o Tail(todo) = Tail(todo)
    BY <1>1, TailIs
  <1>4. IsList(syms) /\ Len(syms) <= MaxSymbols
    BY DEF SemanticTyped
  <1>5. Grown(syms, syms', Entered)
    <2>1. CASE Is(This, {"var"})
      <3>1. syms' = sym_add(syms, Variable(This, Scope)) /\ Entered = {prog[This].name}
        BY <1>1, <2>1 DEF Part, Entered
      <3>2. Variable(This, Scope).name = prog[This].name
        BY DEF Variable, Symbol
      <3> QED
        BY <1>4, <3>1, <3>2, AddOne
    <2>2. CASE ~Is(This, {"var"})
      <3>1. syms' = syms /\ Entered = {}
        BY <1>1, <2>2 DEF Part, Entered
      <3> QED
        BY <1>4, <3>1, GrownNone
    <2> QED
      BY <2>1, <2>2
  <1>6. todo' = Calls(DescentWhat, Descent, Scope) \o Tail(todo)
    <2>1. CASE Is(This, {"program"})
      <3>1. Descent = <<This>> /\ DescentWhat = "node"
        BY <1>1, <2>1 DEF Descent, DescentWhat
      <3>2. todo' = <<Call("node", This, Scope)>> \o Tail(todo)
        BY <2>1 DEF Part
      <3>3. Calls(DescentWhat, <<This>>, Scope) = <<Call("node", This, Scope)>>
        BY <3>1, CallsOf
      <3> QED
        BY <3>1, <3>2, <3>3, Zenon
    <2>2. CASE ~Is(This, {"program"})
      <3>1. Descent = <<>>
        BY <1>1, <2>2 DEF Descent
      <3>2. todo' = Tail(todo)
        BY <2>2 DEF Part
      <3> QED
        BY <1>3, <3>1, <3>2, Zenon
    <2> QED
      BY <2>1, <2>2
  <1> QED
    BY <1>1, <1>2, <1>5, <1>6, Unreported DEF Steps

(* A function enters its parameters and leads to its body.                *)
LEMMA FunctionSteps ==
  ASSUME SemanticTyped, Function
  PROVE  Steps /\ Reports
  <1>1. /\ pass = "check" /\ todo # <<>> /\ Head(todo).what = "node" /\ Is(This, Functions)
        /\ ~Is(This, {"var", "ptr"} \cup ClassLike)
    BY DEF Function, At, Is, Functions, ClassLike
  <1>2. This \in Ids /\ prog[This] \in Node /\ prog[This].line \in Int
    BY <1>1, HeadIs DEF Node
  <1>3. Descent = Body(This) /\ DescentWhat = "node" /\ Entered = Parameters(This)
    BY <1>1 DEF Descent, DescentWhat, Entered, Is
  <1>4. /\ Recurse(Body(This), prog[This].line) /\ Report(FALSE)
        /\ LET params == OfKinds(Kids(This), {"var"})
           IN  syms' = AddAll(syms, [k \in DOMAIN params |-> Variable(params[k], prog[This].line)])
    BY Zenon DEF Function, Body
  <1>5. Grown(syms, syms', Entered)
    BY <1>2, <1>3, <1>4, ParametersAre, AddMany DEF SemanticTyped
  <1>6. ~Is(This, {"var", "ptr", "ident", "set", "call"})
    BY <1>1 DEF Is, Functions
  <1>7. bad' = bad /\ twice' = twice
    BY <1>4 DEF Report
  <1>8. Steps
    BY <1>1, <1>2, <1>3, <1>4, <1>5, <1>7 DEF Steps, Recurse
  <1> QED
    BY <1>6, <1>7, <1>8, Unreported

(* The steps that look a name up report it when the table does not hold it.*)
LEMMA LookupSteps ==
  ASSUME SemanticTyped, Identifier \/ Set \/ (FunctionCall /\ ~Exit)
  PROVE  Steps /\ Reports
  <1>1. /\ pass = "check" /\ todo # <<>> /\ Head(todo).what = "node"
        /\ At({"ident", "set", "call"}) /\ Is(This, {"ident", "set", "call"})
        /\ ~Is(This, Functions \cup ClassLike)
    BY DEF Identifier, Set, FunctionCall, At, Is, Functions, ClassLike
  <1>2. Recurse(Kids(This), Scope) /\ syms' = syms /\ twice' = twice
    BY DEF Identifier, Set, FunctionCall, Report
  <1>3. Entered = {}
    BY <1>1 DEF Entered, Is, Functions, ClassLike
  <1>4. Grown(syms, syms', Entered)
    BY <1>2, <1>3, GrownNone DEF SemanticTyped
  <1>5. bad' = bad \/ (bad' = bad \cup {This} /\ ~Holds(syms, prog[This].name))
    BY Zenon DEF Identifier, Set, FunctionCall, Report
  <1>6. Steps
    BY <1>1, <1>2, <1>4, <1>5, HeadIs, NodeStep
  <1>7. Looked(This) /\ ~CHeaders /\ ~Holds(syms, prog[This].name) => This \in bad'
    <2> SUFFICES ASSUME Looked(This), ~CHeaders, ~Holds(syms, prog[This].name)
                 PROVE  bad' = bad \cup {This}
      OBVIOUS
    <2>1. CASE Identifier
      <3>1. Is(This, {"ident"}) /\ ~Is(This, {"set"}) /\ ~Is(This, {"call"})
        BY <2>1 DEF Identifier, At, Is
      <3> QED
        BY <2>1, <3>1 DEF Identifier, Report, Looked
    <2>2. CASE Set
      <3>1. Is(This, {"set"}) /\ ~Is(This, {"ident"}) /\ ~Is(This, {"call"})
        BY <2>2 DEF Set, At, Is
      <3> QED
        BY <2>2, <3>1 DEF Set, Report, Looked
    <2>3. CASE FunctionCall /\ ~Exit
      <3>1. Is(This, {"call"}) /\ ~Is(This, {"ident"}) /\ ~Is(This, {"set"})
        BY <2>3 DEF FunctionCall, At, Is
      <3> QED
        BY <2>3, <3>1 DEF FunctionCall, Report, Looked
    <2> QED
      BY <2>1, <2>2, <2>3
  <1>8. ~Is(This, {"var", "ptr"})
    BY <1>1 DEF Is
  <1> QED
    BY <1>5, <1>6, <1>7, <1>8 DEF Reports

(* What else there is leads to its children.                              *)
LEMMA OtherSteps ==
  ASSUME SemanticTyped, Block \/ Each \/ Other
  PROVE  Steps /\ Reports
  <1>1. /\ pass = "check" /\ todo # <<>> /\ Head(todo).what = "node"
        /\ At({prog[This].kind}) /\ ~Is(This, Functions \cup ClassLike)
        /\ ~Is(This, {"var", "ptr", "ident", "set", "call"})
    BY DEF Block, Each, Other, At, Is, Functions, ClassLike, Handled
  <1>2. This \in Ids /\ Scope \in Int /\ prog[This] \in Node /\ prog[This].line \in Int
    BY <1>1, HeadIs DEF Node
  <1>3. bad' = bad /\ twice' = twice
    BY DEF Block, Each, Other, Report
  <1>4. \E scope \in Int : Recurse(Kids(This), scope)
    BY <1>2 DEF Block, Each, Other
  <1>5. Grown(syms, syms', Entered)
    <2>1. CASE Each
      <3>1. Is(This, {"each"}) /\ Entered = {prog[Kids(This)[1]].name}
        BY <1>1, <2>1 DEF Each, At, Entered, Is
      <3>2. Kids(This) # <<>> /\ Is(Kids(This)[1], {"ident"})
        BY <1>2, <3>1, ProgramIs DEF SemanticTyped
      <3> DEFINE s == Symbol(prog[Kids(This)[1]].name, <<"auto">>, prog[This].line)
      <3>3. syms' = sym_add(syms, s) /\ s.name = prog[Kids(This)[1]].name
        BY <2>1, <3>2 DEF Each, Symbol
      <3> HIDE DEF s
      <3> QED
        BY <3>1, <3>3, AddOne DEF SemanticTyped
    <2>2. CASE Block \/ Other
      <3>1. ~Is(This, {"each"}) /\ syms' = syms
        BY <2>2 DEF Block, Other, At, Is, Handled
      <3>2. Entered = {}
        BY <1>1, <3>1 DEF Entered, Is
      <3> QED
        BY <3>1, <3>2, GrownNone DEF SemanticTyped
    <2> QED
      BY <2>1, <2>2
  <1>6. Steps
    BY <1>1, <1>3, <1>4, <1>5, NodeStep
  <1> QED
    BY <1>1, <1>3, <1>6, Unreported

(* The check goes on like this or ends in an error message.               *)
LEMMA CheckIs ==
  ASSUME SemanticTyped, Check
  PROVE  (Steps /\ Reports) \/ Exit
  <1>1. CASE Declaration \/ Pointer
    BY <1>1, DeclarationSteps
  <1>2. CASE Class
    BY <1>2, ClassSteps
  <1>3. CASE Member
    BY <1>3, MemberSteps
  <1>4. CASE Part
    BY <1>4, PartSteps
  <1>5. CASE Function
    BY <1>5, FunctionSteps
  <1>6. CASE (Identifier \/ Set \/ FunctionCall) /\ ~Exit
    BY <1>6, LookupSteps
  <1>7. CASE Block \/ Each \/ Other
    BY <1>7, OtherSteps
  <1> QED
    BY <1>1, <1>2, <1>3, <1>4, <1>5, <1>6, <1>7 DEF Check

-----------------------------------------------------------------------------
(* The calls to come after a step: those of the nodes gone down to, and    *)
(* then the rest.                                                          *)
LEMMA Replaced ==
  ASSUME NEW T, NEW new \in Seq(T), NEW old \in Seq(T), old # <<>>, NEW q, q = new \o Tail(old)
  PROVE  /\ q \in Seq(T) /\ Len(new) \in Nat
         /\ \A k \in DOMAIN new : k \in DOMAIN q /\ q[k] = new[k]
         /\ \A k \in DOMAIN q : \/ k \in DOMAIN new /\ q[k] = new[k]
                                \/ /\ (k - Len(new)) + 1 \in DOMAIN old /\ (k - Len(new)) + 1 > 1
                                   /\ k > Len(new) /\ q[k] = old[(k - Len(new)) + 1]
         /\ \A a \in DOMAIN old : a > 1 =>
              /\ (a + Len(new)) - 1 \in DOMAIN q /\ q[(a + Len(new)) - 1] = old[a]
              /\ (a + Len(new)) - 1 \in Nat /\ (a + Len(new)) - 1 > Len(new)
  <1> DEFINE n == Len(new)
             m == Len(old)
             r == Tail(old)
  <1>1. /\ n \in Nat /\ m \in Nat /\ m > 0 /\ r \in Seq(T) /\ Len(r) = m - 1
        /\ DOMAIN new = 1 .. n /\ DOMAIN old = 1 .. m
        /\ \A k \in 1 .. m - 1 : r[k] = old[k + 1]
    OBVIOUS
  <1> HIDE DEF r, n, m
  <1>2. /\ q \in Seq(T) /\ DOMAIN q = 1 .. n + (m - 1)
        /\ \A k \in 1 .. n : q[k] = new[k]
        /\ \A k \in 1 .. m - 1 : q[n + k] = r[k]
    <2>1. q = new \o r
      BY DEF r
    <2>2. q \in Seq(T) /\ Len(q) = n + (m - 1)
      <3>1. r \in Seq(T)
        BY <1>1
      <3>2. q \in Seq(T) /\ Len(q) = Len(new) + Len(r)
        BY <2>1, <3>1
      <3>3. Len(new) = n /\ Len(r) = m - 1
        BY <1>1 DEF n
      <3> QED
        BY <3>2, <3>3, Zenon
    <2>3. DOMAIN q = 1 .. n + (m - 1)
      BY <2>2
    <2>4. \A k \in 1 .. n : q[k] = new[k]
      BY <1>1, <2>1 DEF n
    <2>5. \A k \in 1 .. m - 1 : q[n + k] = r[k]
      BY <1>1, <2>1 DEF n
    <2> QED
      BY <2>2, <2>3, <2>4, <2>5
  <1>3. ASSUME NEW k \in DOMAIN q
        PROVE  \/ k \in DOMAIN new /\ q[k] = new[k]
               \/ /\ (k - n) + 1 \in DOMAIN old /\ (k - n) + 1 > 1
                  /\ k > n /\ q[k] = old[(k - n) + 1]
    <2>1. CASE k <= n
      BY <1>1, <1>2, <2>1
    <2>2. CASE k > n
      <3>1. k - n \in 1 .. m - 1 /\ n + (k - n) = k
        BY <1>1, <1>2, <2>2
      <3>2. q[k] = r[k - n] /\ r[k - n] = old[(k - n) + 1]
        BY <1>1, <1>2, <3>1
      <3> QED
        BY <1>1, <2>2, <3>1, <3>2
    <2> QED
      BY <1>1, <1>2, <2>1, <2>2
  <1>4. ASSUME NEW a \in DOMAIN old, a > 1
        PROVE  /\ (a + n) - 1 \in DOMAIN q /\ q[(a + n) - 1] = old[a]
               /\ (a + n) - 1 \in Nat /\ (a + n) - 1 > n
    <2>1. a - 1 \in 1 .. m - 1 /\ n + (a - 1) = (a + n) - 1 /\ (a - 1) + 1 = a
      BY <1>1, <1>4
    <2>2. q[n + (a - 1)] = r[a - 1] /\ r[a - 1] = old[(a - 1) + 1]
      BY <1>1, <1>2, <2>1
    <2>3. q[(a + n) - 1] = old[a]
      BY <2>1, <2>2
    <2>4. (a + n) - 1 \in 1 .. n + (m - 1) /\ (a + n) - 1 \in Nat /\ (a + n) - 1 > n
      BY <1>1, <1>4
    <2> QED
      BY <1>2, <2>3, <2>4
  <1>5. \A k \in DOMAIN new : k \in DOMAIN q /\ q[k] = new[k]
    BY <1>1, <1>2
  <1> QED
    BY <1>1, <1>2, <1>3, <1>4, <1>5 DEF n

(* The nodes gone down to are below the node of the call, each before the  *)
(* next.                                                                   *)
LEMMA DescentIs ==
  ASSUME SemanticTyped, todo # <<>>
  PROVE  /\ Descent \in Seq(Ids)
         /\ \A k \in DOMAIN Descent :
              Below(Descent[k]) \subseteq Below(This) /\ Descent[k] >= This
         /\ \A k, l \in DOMAIN Descent : k < l => \A i \in Below(Descent[k]) : i < Descent[l]
  <1>1. This \in Ids /\ This \in Nat /\ prog \in Programs
    BY HeadIs DEF SemanticTyped
  <1>2. /\ Kids(This) \in Seq(Ids)
        /\ \A k \in DOMAIN Kids(This) :
             Below(Kids(This)[k]) \subseteq Below(This) /\ Kids(This)[k] >= This
        /\ \A k, l \in DOMAIN Kids(This) :
             k < l => \A i \in Below(Kids(This)[k]) : i < Kids(This)[l]
    <2>1. Kids(This) \in Seq(Ids) /\ Ids = 1 .. Len(prog) /\ Len(prog) \in Nat
      BY <1>1, KidsAre, ProgramIs
    <2>2. \A k \in DOMAIN Kids(This) : Kids(This)[k] \in This + 1 .. Len(prog)
      BY <1>1, KidsAre
    <2>3. \A k \in DOMAIN Kids(This) : Below(Kids(This)[k]) \subseteq Below(This)
      BY <1>1, BelowKid
    <2>4. \A k, l \in DOMAIN Kids(This) : k < l => \A i \in Below(Kids(This)[k]) : i < Kids(This)[l]
      BY <1>1, BelowBefore
    <2> QED
      BY <1>1, <2>1, <2>2, <2>3, <2>4
  <1>3. CASE Descent = Kids(This)
    BY <1>2, <1>3
  <1>4. CASE Descent = <<>>
    BY <1>4
  <1>5. CASE Descent = <<This>>
    BY <1>1, <1>5
  <1>6. CASE Kids(This) # <<>> /\ Descent = <<Last(Kids(This))>>
    <2>1. Len(Kids(This)) \in DOMAIN Kids(This) /\ Last(Kids(This)) = Kids(This)[Len(Kids(This))]
      BY <1>2, <1>6 DEF Last
    <2>2. Last(Kids(This)) \in Ids
      BY <1>2, <2>1
    <2> QED
      BY <1>2, <1>6, <2>1, <2>2
  <1> QED
    BY <1>3, <1>4, <1>5, <1>6 DEF Descent, Body

(* After a step of the check.                                             *)
LEMMA NewTodo ==
  ASSUME SemanticTyped, Steps
  PROVE  /\ todo' \in Seq([what : {"node", "member", "part"}, node : Ids, scope : Int])
         /\ \E scope \in Int :
              /\ \A k \in DOMAIN Descent :
                   k \in DOMAIN todo' /\ todo'[k] = Call(DescentWhat, Descent[k], scope)
              /\ \A k \in DOMAIN todo' :
                   \/ k \in DOMAIN Descent /\ todo'[k] = Call(DescentWhat, Descent[k], scope)
                   \/ /\ (k - Len(Descent)) + 1 \in DOMAIN todo /\ (k - Len(Descent)) + 1 > 1
                      /\ k > Len(Descent) /\ todo'[k] = todo[(k - Len(Descent)) + 1]
         /\ \A a \in DOMAIN todo : a > 1 =>
              /\ (a + Len(Descent)) - 1 \in DOMAIN todo' /\ todo'[(a + Len(Descent)) - 1] = todo[a]
              /\ (a + Len(Descent)) - 1 \in Nat /\ (a + Len(Descent)) - 1 > Len(Descent)
  <1> DEFINE T == [what : {"node", "member", "part"}, node : Ids, scope : Int]
  <1>1. todo \in Seq(T) /\ todo # <<>>
    BY DEF SemanticTyped, Steps
  <1>2. PICK scope \in Int : todo' = Calls(DescentWhat, Descent, scope) \o Tail(todo)
    BY DEF Steps
  <1>3. Descent \in Seq(Ids)
    BY <1>1, DescentIs
  <1>4. DescentWhat \in {"node", "member", "part"}
    BY DEF DescentWhat
  <1> DEFINE new == Calls(DescentWhat, Descent, scope)
             n == Len(Descent)
  <1>5. n \in Nat /\ DOMAIN Descent = 1 .. n
    BY <1>3
  <1>6. /\ new \in Seq(T) /\ Len(new) = n /\ DOMAIN new = DOMAIN Descent
        /\ \A k \in DOMAIN Descent : new[k] = Call(DescentWhat, Descent[k], scope)
    <2>1. new = [k \in 1 .. n |-> Call(DescentWhat, Descent[k], scope)]
      BY <1>5 DEF Calls
    <2>2. \A k \in 1 .. n : Call(DescentWhat, Descent[k], scope) \in T
      BY <1>3, <1>4 DEF Call
    <2>3. new \in [1 .. n -> T]
      <3> HIDE DEF T, n
      <3> QED
        BY <2>1, <2>2
    <2> HIDE DEF T, new, n
    <2>4. new \in Seq(T) /\ Len(new) = n /\ DOMAIN new = 1 .. n
      BY <1>5, <2>3
    <2> QED
      BY <1>5, <2>1, <2>4
  <1> HIDE DEF T, new
  <1>7. /\ todo' \in Seq(T)
        /\ \A k \in DOMAIN new : k \in DOMAIN todo' /\ todo'[k] = new[k]
        /\ \A k \in DOMAIN todo' : \/ k \in DOMAIN new /\ todo'[k] = new[k]
                                   \/ /\ (k - n) + 1 \in DOMAIN todo /\ (k - n) + 1 > 1
                                      /\ k > n /\ todo'[k] = todo[(k - n) + 1]
        /\ \A a \in DOMAIN todo : a > 1 =>
              /\ (a + n) - 1 \in DOMAIN todo' /\ todo'[(a + n) - 1] = todo[a]
              /\ (a + n) - 1 \in Nat /\ (a + n) - 1 > n
    <2>1. todo' = new \o Tail(todo)
      BY <1>2 DEF new
    <2> HIDE DEF n
    <2>2. new \in Seq(T) /\ Len(new) = n
      BY <1>6
    <2>3. todo \in Seq(T) /\ todo # <<>>
      BY <1>1
    <2> QED
      BY <2>1, <2>2, <2>3, Replaced
  <1> HIDE DEF n
  <1>8. \A k \in DOMAIN todo' :
            \/ k \in DOMAIN Descent /\ todo'[k] = Call(DescentWhat, Descent[k], scope)
            \/ /\ (k - n) + 1 \in DOMAIN todo /\ (k - n) + 1 > 1
               /\ k > n /\ todo'[k] = todo[(k - n) + 1]
    BY <1>6, <1>7
  <1>9. \A k \in DOMAIN Descent :
            k \in DOMAIN todo' /\ todo'[k] = Call(DescentWhat, Descent[k], scope)
    BY <1>6, <1>7
  <1> QED
    BY <1>7, <1>8, <1>9 DEF T, n

-----------------------------------------------------------------------------
(* The steps of the three passes.                                          *)
Quiet ==
  /\ prog' = prog /\ todo' = todo /\ syms' = syms /\ bad' = bad /\ twice' = twice
  /\ at' \in Nat \ {0}
  /\ \/ pass' = pass /\ (at' = at \/ pass = "library")
     \/ pass' = "exited"
     \/ pass = "check" /\ todo = <<>> /\ pass' = "done"
Collects ==
  /\ pass = "collect" /\ at \in Ids /\ syms' = AddAllNew(syms, Made(at)) /\ at' = at + 1
  /\ UNCHANGED <<prog, pass, todo, bad, twice>>

(* There are no other steps.                                              *)
LEMMA NextIs ==
  ASSUME SemanticTyped, [SemanticNext]_semanticVars
  PROVE  Quiet \/ LibraryDone \/ Collects \/ CollectDone \/ (Steps /\ Reports)
  <1>1. CASE UNCHANGED semanticVars
    BY <1>1 DEF semanticVars, Quiet, SemanticTyped
  <1>2. CASE Exit
    BY <1>2 DEF Exit, Quiet, SemanticTyped
  <1>3. CASE Library /\ ~Exit
    BY <1>3 DEF Library, Quiet, SemanticTyped
  <1>4. CASE LibraryDone
    BY <1>4
  <1>5. CASE Collect /\ ~Exit
    BY <1>5 DEF Collect, Collects
  <1>6. CASE CollectDone
    BY <1>6
  <1>7. CASE Check
    BY <1>2, <1>7, CheckIs
  <1>8. CASE CheckDone
    BY <1>8 DEF CheckDone, Quiet, SemanticTyped
  <1> QED
    BY <1>1, <1>2, <1>3, <1>4, <1>5, <1>6, <1>7, <1>8 DEF SemanticNext

(* What the library and the headers provide.                               *)
Provided == NamesIn(Builtins) \cup (IF Enabled THEN ApiNames \cup {<<"Tensor">>} ELSE {})

LEMMA HoistedIs ==
  ASSUME NEW n
  PROVE  Hoisted(n) <=> n \in Provided \/ \E d \in Ids : n \in NamesIn(Made(d))
  BY DEF Hoisted, Provided, NamesIn

(* The table after the first pass.                                         *)
LEMMA LibraryNames ==
  ASSUME SemanticTyped, LibraryDone
  PROVE  Grown(syms, syms', Provided)
  <1>1. pass = "library" /\ syms = <<>>
    BY DEF LibraryDone, SemanticTyped
  <1>2. /\ Builtins \in Seq([name : Words, type : Words, scope : {Global}, const : BOOLEAN])
        /\ Api \in Seq([name : Words, result : Words, params : Seq(Words)])
        /\ MaxSymbols \in Nat
    BY SemanticAssumption DEF SemanticAssumption
  <1>3. IsList(Builtins)
    BY <1>2 DEF IsList
  <1> DEFINE tensor == [k \in DOMAIN Api |-> Symbol(Api[k].name, Api[k].result, Global)]
             first == <<Constant(<<"Tensor">>, <<"type">>)>>
             more == IF Enabled THEN TensorSymbols ELSE <<>>
  <1>4. IsList(first) /\ NamesIn(first) = {<<"Tensor">>}
    <2>1. first \in Seq({Constant(<<"Tensor">>, <<"type">>)})
      OBVIOUS
    <2>2. IsList(first)
      BY <2>1 DEF IsList
    <2>3. DOMAIN first = {1} /\ first[1].name = <<"Tensor">>
      BY DEF Constant
    <2> HIDE DEF first
    <2> QED
      BY <2>2, <2>3 DEF NamesIn
  <1>5. IsList(tensor) /\ NamesIn(tensor) = ApiNames
    <2>1. Len(Api) \in Nat /\ DOMAIN Api = 1 .. Len(Api)
      BY <1>2
    <2>2. tensor = [k \in 1 .. Len(Api) |-> tensor[k]]
      BY <2>1
    <2>3. DOMAIN tensor = DOMAIN Api /\ \A k \in DOMAIN Api : tensor[k].name = Api[k].name
      BY DEF Symbol
    <2> HIDE DEF tensor
    <2>4. IsList(tensor)
      BY <2>1, <2>2, ListFun
    <2>5. NamesIn(tensor) = {Api[k].name : k \in DOMAIN Api}
      BY <2>3 DEF NamesIn
    <2>6. ApiNames = {Api[k].name : k \in DOMAIN Api}
      BY DEF ApiNames, Range
    <2> QED
      BY <2>4, <2>5, <2>6
  <1>6. TensorSymbols = first \o tensor
    BY Zenon DEF TensorSymbols
  <1> HIDE DEF first, tensor
  <1>7. IsList(TensorSymbols) /\ NamesIn(TensorSymbols) = ApiNames \cup {<<"Tensor">>}
    <2>1. IsList(TensorSymbols)
      BY <1>4, <1>5, <1>6, NamesJoin
    <2>2. NamesIn(TensorSymbols) = NamesIn(first) \cup NamesIn(tensor)
      BY <1>4, <1>5, <1>6, NamesJoin
    <2> QED
      BY <1>4, <1>5, <2>1, <2>2
  <1>8. IsList(more) /\ NamesIn(more) = IF Enabled THEN ApiNames \cup {<<"Tensor">>} ELSE {}
    <2>1. <<>> \in Seq({}) /\ DOMAIN <<>> = {}
      OBVIOUS
    <2>2. IsList(<<>>) /\ NamesIn(<<>>) = {}
      BY <2>1 DEF IsList, NamesIn
    <2> QED
      BY <1>7, <2>2
  <1> DEFINE all == Builtins \o more
  <1>9. syms' = AddAll(<<>>, all)
    BY DEF LibraryDone
  <1> HIDE DEF more
  <1>10. IsList(all) /\ NamesIn(all) = NamesIn(Builtins) \cup NamesIn(more)
    <2>1. \E z : z = all
      OBVIOUS
    <2> QED
      BY <1>3, <1>8, <2>1, NamesJoin
  <1> HIDE DEF all
  <1>11. IsList(<<>>) /\ Len(<<>>) <= MaxSymbols
    <2>1. <<>> \in Seq({}) /\ Len(<<>>) = 0
      OBVIOUS
    <2> QED
      BY <1>2, <2>1 DEF IsList
  <1>12. Grown(<<>>, syms', NamesIn(all))
    BY <1>9, <1>10, <1>11, AddMany
  <1> QED
    BY <1>1, <1>8, <1>10, <1>12, Zenon DEF Provided

(* The types hold in the beginning, and after every step.                 *)
LEMMA TypedInit == SemanticInit => SemanticTyped
  <1> SUFFICES ASSUME SemanticInit PROVE SemanticTyped
    OBVIOUS
  <1>1. <<>> \in Seq({}) /\ Len(<<>>) = 0 /\ 0 <= MaxSymbols
    BY SemanticAssumption DEF SemanticAssumption
  <1>2. IsList(syms) /\ Len(syms) <= MaxSymbols
    BY <1>1 DEF SemanticInit, IsList
  <1> QED
    BY <1>2 DEF SemanticInit, SemanticTyped

LEMMA TypedStep ==
  ASSUME SemanticTyped, [SemanticNext]_semanticVars
  PROVE  SemanticTyped'
  <1>1. CASE Quiet
    BY <1>1, SameTree DEF Quiet, SemanticTyped
  <1>2. CASE LibraryDone
    <2>1. Grown(syms, syms', Provided)
      BY <1>2, LibraryNames
    <2> QED
      BY <1>2, <2>1, SameTree DEF LibraryDone, SemanticTyped, Grown
  <1>3. CASE Collects
    <2>1. IsList(Made(at))
      BY <1>3, MadeIs DEF Collects, SemanticTyped
    <2>2. Grown(syms, syms', NamesIn(Made(at)))
      BY <1>3, <2>1, AddManyNew DEF Collects, SemanticTyped
    <2> QED
      BY <1>3, <2>2, SameTree DEF Collects, SemanticTyped, Grown
  <1>4. CASE CollectDone
    <2>1. Call("node", 1, Global) \in [what : {"node", "member", "part"}, node : Ids, scope : Int]
      BY ProgramIs DEF Call, Global, SemanticTyped
    <2>2. todo' \in Seq([what : {"node", "member", "part"}, node : Ids, scope : Int])
      BY <1>4, <2>1 DEF CollectDone
    <2> QED
      BY <1>4, <2>2, SameTree DEF CollectDone, SemanticTyped
  <1>5. CASE Steps
    <2>1. todo' \in Seq([what : {"node", "member", "part"}, node : Ids, scope : Int])
      BY <1>5, NewTodo
    <2> QED
      BY <1>5, <2>1, SameTree DEF Steps, SemanticTyped, Grown
  <1> QED
    BY <1>1, <1>2, <1>3, <1>4, <1>5, NextIs

(* Every step adds to the table, and only names there is a reason for.     *)
Added == IF pass = "library" THEN Provided
         ELSE IF pass = "collect" THEN UNION {NamesIn(Made(d)) : d \in Ids}
         ELSE Entered

LEMMA TableGrows ==
  ASSUME SemanticTyped, [SemanticNext]_semanticVars
  PROVE  \E N : Grown(syms, syms', N) /\ N \subseteq Added
  <1>1. CASE Quiet
    <2>1. Grown(syms, syms', {})
      BY <1>1, GrownNone DEF Quiet, SemanticTyped
    <2> QED
      BY <2>1
  <1>2. CASE LibraryDone
    <2>1. Added = Provided
      BY <1>2 DEF LibraryDone, Added
    <2> QED
      BY <1>2, <2>1, LibraryNames
  <1>3. CASE Collects
    <2>1. IsList(Made(at))
      BY <1>3, MadeIs DEF Collects, SemanticTyped
    <2>2. Grown(syms, syms', NamesIn(Made(at)))
      BY <1>3, <2>1, AddManyNew DEF Collects, SemanticTyped
    <2>3. NamesIn(Made(at)) \subseteq Added
      BY <1>3 DEF Collects, Added
    <2> QED
      BY <2>2, <2>3
  <1>4. CASE CollectDone
    <2>1. Grown(syms, syms', {})
      BY <1>4, GrownNone DEF CollectDone, SemanticTyped
    <2> QED
      BY <2>1
  <1>5. CASE Steps
    <2>1. Grown(syms, syms', Entered) /\ Added = Entered
      BY <1>5 DEF Steps, Added
    <2> QED
      BY <2>1
  <1> QED
    BY <1>1, <1>2, <1>3, <1>4, <1>5, NextIs

(* What is known, as far as the table has room.                            *)
InForce(n) == Holds(syms, n) \/ Full

(* What is known stays known.                                             *)
LEMMA ForceStays ==
  ASSUME SemanticTyped, [SemanticNext]_semanticVars, NEW n, InForce(n)
  PROVE  InForce(n)'
  <1>1. PICK N : Grown(syms, syms', N)
    BY TableGrows
  <1>2. Holds(syms, n) => Holds(syms', n)
    BY <1>1, GrownKeeps
  <1>3. IsFull(syms) => IsFull(syms')
    BY <1>1, GrownKeeps
  <1> QED
    BY <1>2, <1>3 DEF InForce, Full, IsFull, Holds

LEMMA FullStays ==
  ASSUME SemanticTyped, [SemanticNext]_semanticVars, Full
  PROVE  Full'
  <1>1. PICK N : Grown(syms, syms', N)
    BY TableGrows
  <1>2. IsFull(syms) => IsFull(syms')
    BY <1>1, GrownKeeps
  <1> QED
    BY <1>2 DEF Full, IsFull

LEMMA GrownForces ==
  ASSUME NEW N, Grown(syms, syms', N), NEW n \in N
  PROVE  InForce(n)'
  BY DEF Grown, IsFull, InForce, Full, Holds

(* The passes before the check make known what may be used anywhere.       *)
Collected ==
  /\ pass \in {"collect", "check", "done"} => \A n \in Provided : InForce(n)
  /\ pass = "collect" =>
       \A d \in Ids : d < at => \A n \in NamesIn(Made(d)) : InForce(n)
  /\ pass \in {"check", "done"} =>
       \A d \in Ids : \A n \in NamesIn(Made(d)) : InForce(n)

(* The order of the passes is what makes it so.                           *)
LEMMA CollectedStep ==
  ASSUME SemanticTyped, Collected, [SemanticNext]_semanticVars
  PROVE  Collected'
  <1>1. Ids = 1 .. Len(prog) /\ Len(prog) \in Nat /\ at \in Nat \ {0}
    BY ProgramIs DEF SemanticTyped
  <1>2. /\ prog' = prog /\ Ids' = Ids /\ Provided' = Provided
        /\ \A d : NamesIn(Made(d))' = NamesIn(Made(d))
    <2>1. prog' = prog
      BY NextIs DEF Quiet, LibraryDone, Collects, CollectDone, Steps
    <2>2. Ids' = Ids /\ Enabled' = Enabled /\ \A d : Made(d)' = Made(d)
      BY <2>1, SameTree
    <2>3. Provided' = Provided
      BY <2>2 DEF Provided, NamesIn, ApiNames
    <2>4. \A d : NamesIn(Made(d))' = NamesIn(Made(d))
      BY <2>2 DEF NamesIn
    <2> QED
      BY <2>1, <2>2, <2>3, <2>4
  <1>3. \A n : InForce(n) => InForce(n)'
    BY ForceStays
  <1>4. CASE Quiet
    <2>1. /\ pass' \in {"collect", "check", "done"} => pass \in {"collect", "check", "done"}
          /\ pass' = "collect" => pass = "collect" /\ at' = at
          /\ pass' \in {"check", "done"} => pass \in {"check", "done"}
      BY <1>4 DEF Quiet, SemanticTyped
    <2> QED
      BY <1>2, <1>3, <2>1 DEF Collected
  <1>5. CASE LibraryDone
    <2>1. pass' = "collect" /\ at' = 1
      BY <1>5 DEF LibraryDone
    <2>2. \A n \in Provided : InForce(n)'
      BY <1>5, LibraryNames, GrownForces
    <2>3. \A d \in Ids : ~(d < at')
      BY <1>1, <2>1
    <2> QED
      BY <1>2, <2>1, <2>2, <2>3 DEF Collected
  <1>6. CASE Collects
    <2>1. pass = "collect" /\ pass' = "collect" /\ at' = at + 1 /\ at \in Ids
      BY <1>6 DEF Collects
    <2>2. \A n \in NamesIn(Made(at)) : InForce(n)'
      <3>1. IsList(Made(at))
        BY <2>1, MadeIs DEF SemanticTyped
      <3>2. Grown(syms, syms', NamesIn(Made(at)))
        BY <1>6, <3>1, AddManyNew DEF Collects, SemanticTyped
      <3> QED
        BY <3>2, GrownForces
    <2>3. \A d \in Ids : d < at' => d < at \/ d = at
      BY <1>1, <2>1
    <2>4. \A d \in Ids : d < at' => \A n \in NamesIn(Made(d)) : InForce(n)'
      BY <1>3, <2>1, <2>2, <2>3 DEF Collected
    <2>5. \A n \in Provided : InForce(n)'
      BY <1>3, <2>1 DEF Collected
    <2> QED
      BY <1>2, <2>1, <2>4, <2>5 DEF Collected
  <1>7. CASE CollectDone
    <2>1. pass = "collect" /\ pass' = "check" /\ at \notin Ids
      BY <1>7 DEF CollectDone
    <2>2. ASSUME NEW d \in Ids, ~(d < at) PROVE FALSE
      BY <1>1, <2>1, <2>2
    <2> QED
      BY <1>2, <1>3, <2>1, <2>2 DEF Collected
  <1>8. CASE Steps
    <2>1. pass = "check" /\ pass' = "check"
      BY <1>8 DEF Steps
    <2> QED
      BY <1>2, <1>3, <2>1 DEF Collected
  <1> QED
    BY <1>4, <1>5, <1>6, <1>7, <1>8, NextIs

(* The calls to come are in the order of the nodes, none below one before. *)
InOrder ==
  \A a, b \in DOMAIN todo : a < b => \A i \in Below(todo[a].node) : i < todo[b].node

LEMMA InOrderStep ==
  ASSUME SemanticTyped, InOrder, [SemanticNext]_semanticVars
  PROVE  InOrder'
  <1>1. CASE Quiet
    BY <1>1, SameTree DEF Quiet, InOrder
  <1>2. CASE LibraryDone \/ Collects
    BY <1>2, SameTree DEF LibraryDone, Collects, InOrder
  <1>3. CASE CollectDone
    <2>1. \A a, b \in DOMAIN todo' : ~(a < b)
      BY <1>3 DEF CollectDone
    <2> QED
      BY <2>1 DEF InOrder
  <1>4. CASE Steps
    <2> DEFINE n == Len(Descent)
    <2>1. prog' = prog /\ todo # <<>> /\ \A i : Below(i)' = Below(i)
      BY <1>4, SameTree DEF Steps
    <2>2. /\ Descent \in Seq(Ids)
          /\ \A k \in DOMAIN Descent : Below(Descent[k]) \subseteq Below(This)
          /\ \A k, l \in DOMAIN Descent : k < l => \A i \in Below(Descent[k]) : i < Descent[l]
      BY <2>1, DescentIs
    <2>3. n \in Nat /\ DOMAIN Descent = 1 .. n
      BY <2>2
    <2>4. todo' \in Seq([what : {"node", "member", "part"}, node : Ids, scope : Int])
      BY <1>4, NewTodo
    <2>5. \A k \in DOMAIN todo' :
            \/ k \in DOMAIN Descent /\ todo'[k].node = Descent[k]
            \/ /\ (k - n) + 1 \in DOMAIN todo /\ (k - n) + 1 > 1
               /\ k > n /\ todo'[k] = todo[(k - n) + 1]
      BY <1>4, NewTodo DEF Call
    <2>6. 1 \in DOMAIN todo /\ This = todo[1].node
      BY <2>1, HeadIs
    <2>7. \A k \in DOMAIN todo' : k \in Nat
      BY <2>4
    <2>8. \A k \in DOMAIN todo : k \in Nat
      BY DEF SemanticTyped
    <2> HIDE DEF n
    <2>9. ASSUME NEW a \in DOMAIN todo', NEW b \in DOMAIN todo', a < b,
                 NEW i \in Below(todo'[a].node)
          PROVE  i < todo'[b].node
      <3>1. CASE b \in DOMAIN Descent /\ todo'[b].node = Descent[b]
        <4>1. a \in DOMAIN Descent /\ todo'[a].node = Descent[a]
          BY <2>3, <2>5, <2>7, <2>9, <3>1
        <4> QED
          BY <2>2, <2>9, <3>1, <4>1
      <3>2. CASE /\ (b - n) + 1 \in DOMAIN todo /\ (b - n) + 1 > 1
                 /\ b > n /\ todo'[b] = todo[(b - n) + 1]
        <4>1. CASE a \in DOMAIN Descent /\ todo'[a].node = Descent[a]
          <5>1. i \in Below(This)
            BY <2>2, <4>1
          <5> QED
            BY <2>6, <3>2, <5>1 DEF InOrder
        <4>2. CASE /\ (a - n) + 1 \in DOMAIN todo /\ (a - n) + 1 > 1
                   /\ a > n /\ todo'[a] = todo[(a - n) + 1]
          <5>1. (a - n) + 1 < (b - n) + 1
            BY <2>3, <2>7, <2>9
          <5> QED
            BY <3>2, <4>2, <5>1 DEF InOrder
        <4> QED
          BY <2>5, <4>1, <4>2
      <3> QED
        BY <2>5, <3>1, <3>2
    <2> QED
      BY <2>1, <2>9 DEF InOrder
  <1> QED
    BY <1>1, <1>2, <1>3, <1>4, NextIs

(* Members are those of classes, and parts those of methods.               *)
Role(what, i) ==
  /\ what = "member" => i # 1 /\ Is(Parent(i), ClassLike)
  /\ what = "part" => i # 1 /\ Is(Parent(i), MethodLike)
  /\ what = "node" => i = 1 \/ ~Is(Parent(i), ClassLike)
Roles == \A a \in DOMAIN todo : Role(todo[a].what, todo[a].node)

LEMMA RolesStep ==
  ASSUME SemanticTyped, Roles, [SemanticNext]_semanticVars
  PROVE  Roles'
  <1>1. prog' = prog /\ \A w, i : Role(w, i)' <=> Role(w, i)
    <2>1. prog' = prog
      BY NextIs DEF Quiet, LibraryDone, Collects, CollectDone, Steps
    <2>2. \A i : Parent(i)' = Parent(i)
      BY <2>1, SameTree
    <2> QED
      BY <2>1, <2>2 DEF Role, Is
  <1>2. CASE todo' = todo
    BY <1>1, <1>2 DEF Roles
  <1>3. CASE CollectDone
    <2>1. \A a \in DOMAIN todo' : todo'[a].what = "node" /\ todo'[a].node = 1
      BY <1>3 DEF CollectDone, Call
    <2> QED
      BY <1>1, <2>1 DEF Roles, Role
  <1>4. CASE Steps
    <2>1. todo # <<>> /\ This \in Ids /\ Role(Head(todo).what, This) /\ prog \in Programs
          /\ Head(todo).what \in {"node", "member", "part"}
      BY <1>4, HeadIs DEF Steps, Roles, SemanticTyped
    <2>2. \A k \in DOMAIN Kids(This) : Kids(This)[k] # 1 /\ Parent(Kids(This)[k]) = This
      BY <2>1, KidsAre, ParentIs
    <2>3. \A k \in DOMAIN Descent : Role(DescentWhat, Descent[k])
      <3>1. CASE Head(todo).what = "node" /\ Is(This, ClassLike)
        <4>1. ~Is(This, Functions)
          BY <3>1 DEF Is, ClassLike, Functions
        <4> QED
          BY <2>2, <3>1, <4>1 DEF Descent, DescentWhat, Role
      <3>2. CASE Head(todo).what = "node" /\ ~Is(This, ClassLike) /\ ~Is(This, Functions)
        BY <2>2, <3>2 DEF Descent, DescentWhat, Role
      <3>3. CASE Head(todo).what = "node" /\ Is(This, Functions)
        <4>1. ~Is(This, ClassLike)
          BY <3>3 DEF Is, ClassLike, Functions
        <4>2. CASE Body(This) = <<>>
          BY <3>3, <4>2 DEF Descent
        <4>3. CASE Kids(This) # <<>> /\ Body(This) = <<Last(Kids(This))>>
          <5>1. Kids(This) \in Seq(Ids)
            BY <2>1, KidsAre
          <5>2. Len(Kids(This)) \in DOMAIN Kids(This)
            BY <4>3, <5>1
          <5>3. Last(Kids(This)) = Kids(This)[Len(Kids(This))]
            BY DEF Last
          <5>4. Role("node", Last(Kids(This)))
            BY <2>2, <4>1, <5>2, <5>3 DEF Role
          <5> QED
            BY <3>3, <4>1, <4>3, <5>4 DEF Descent, DescentWhat
        <4> QED
          BY <4>2, <4>3 DEF Body
      <3>4. CASE Head(todo).what = "member"
        <4>1. CASE Is(This, MethodLike)
          <5>1. Descent = Kids(This) /\ DescentWhat = "part"
            BY <3>4, <4>1 DEF Descent, DescentWhat
          <5> QED
            BY <2>2, <4>1, <5>1 DEF Role
        <4>2. CASE ~Is(This, MethodLike)
          BY <3>4, <4>2 DEF Descent
        <4> QED
          BY <4>1, <4>2
      <3>5. CASE Head(todo).what = "part"
        <4>1. Is(Parent(This), MethodLike)
          BY <2>1, <3>5 DEF Role
        <4>2. ~Is(Parent(This), ClassLike)
          BY <4>1 DEF Is, ClassLike, MethodLike
        <4>3. DescentWhat = "node" /\ (Descent = <<>> \/ Descent = <<This>>)
          BY <3>5 DEF Descent, DescentWhat
        <4> QED
          BY <4>2, <4>3 DEF Role
      <3> QED
        BY <2>1, <3>1, <3>2, <3>3, <3>4, <3>5
    <2>4. \A k \in DOMAIN todo' :
            \/ /\ k \in DOMAIN Descent
               /\ todo'[k].node = Descent[k] /\ todo'[k].what = DescentWhat
            \/ \E a \in DOMAIN todo : todo'[k] = todo[a]
      BY <1>4, NewTodo DEF Call
    <2> QED
      BY <1>1, <2>3, <2>4 DEF Roles
  <1> QED
    BY <1>2, <1>3, <1>4, NextIs DEF Quiet, LibraryDone, Collects

-----------------------------------------------------------------------------
(* A node that is checked is come to.                                      *)
Awaited(i) == \E a \in DOMAIN todo : i \in Below(todo[a].node)

(* What is around a checked node is checked.                              *)
LEMMA CheckedAbove ==
  ASSUME prog \in Programs, NEW i \in Ids, Checked(i), NEW j \in Around(i)
  PROVE  Checked(j)
  <1>1. Around(j) \subseteq Around(i)
    BY AroundTrans
  <1> QED
    BY <1>1 DEF Checked

(* Until its own call, a checked node is below a call to come.            *)
LEMMA StillAwaited ==
  ASSUME SemanticTyped, Roles, Steps, NEW i \in Ids, Awaited(i), Checked(i), ~Is(i, MethodLike)
  PROVE  Awaited(i)' \/ (Head(todo).what = "node" /\ This = i)
  <1>1. /\ prog' = prog /\ todo # <<>> /\ prog \in Programs /\ \A j : Below(j)' = Below(j)
        /\ This \in Ids /\ This = todo[1].node /\ Role(Head(todo).what, This)
        /\ Head(todo).what \in {"node", "member", "part"}
    <2>1. todo # <<>> /\ prog' = prog
      BY DEF Steps
    <2> QED
      BY <2>1, HeadIs, SameTree DEF Roles, SemanticTyped
  <1>2. \A k \in DOMAIN Descent : k \in DOMAIN todo' /\ todo'[k].node = Descent[k]
    <2>1. PICK scope : \A k \in DOMAIN Descent :
                          k \in DOMAIN todo' /\ todo'[k] = Call(DescentWhat, Descent[k], scope)
      BY NewTodo
    <2>2. \A k : Call(DescentWhat, Descent[k], scope).node = Descent[k]
      BY DEF Call
    <2> QED
      BY <2>1, <2>2
  <1>3. \A a \in DOMAIN todo : a > 1 => \E b \in DOMAIN todo' : todo'[b] = todo[a]
    BY NewTodo
  <1>4. ASSUME NEW k \in DOMAIN Descent, i \in Below(Descent[k]) PROVE Awaited(i)'
    BY <1>1, <1>2, <1>4 DEF Awaited
  <1>5. PICK a \in DOMAIN todo : i \in Below(todo[a].node)
    BY DEF Awaited
  <1>6. CASE a > 1
    BY <1>1, <1>3, <1>5, <1>6 DEF Awaited
  <1>7. CASE i \in Below(This)
    <2>1. i = This \/ This \in Around(i)
      BY <1>7 DEF Below
    <2>2. This # 1 => LET c == Parent(This)
                      IN  /\ Is(c, ClassLike) => Is(This, MethodLike)
                          /\ Is(c, MethodLike) => Is(This, {"program"})
      BY <2>1 DEF Checked
    <2>3. CASE This \in Around(i)
      <3>1. PICK k \in DOMAIN Kids(This) : i \in Below(Kids(This)[k])
        BY <1>1, <2>3, Toward
      <3>2. CASE Descent = Kids(This)
        BY <1>4, <3>1, <3>2
      <3>3. CASE Head(todo).what = "node" /\ Is(This, Functions)
        <4> DEFINE c == Kids(This)[k]
        <4>1. c \in Around(i) \cup {i} /\ c # 1 /\ Parent(c) = This
          BY <1>1, <3>1, KidsAre, ParentIs DEF Below
        <4>2. c = Last(Kids(This)) /\ Is(c, {"program"})
          BY <3>3, <4>1 DEF Checked
        <4>3. Kids(This) # <<>>
          BY <3>1
        <4>4. Descent = <<c>>
          BY <3>3, <4>2, <4>3 DEF Descent, Body
        <4>5. 1 \in DOMAIN Descent /\ Descent[1] = c
          BY <4>4
        <4> QED
          BY <1>4, <3>1, <4>5
      <3>4. CASE Head(todo).what = "node" /\ ~Is(This, Functions)
        BY <3>2, <3>4 DEF Descent
      <3>5. CASE Head(todo).what = "member"
        <4>1. Is(This, MethodLike)
          BY <1>1, <2>2, <3>5 DEF Role
        <4> QED
          BY <3>2, <3>5, <4>1 DEF Descent
      <3>6. CASE Head(todo).what = "part"
        <4>1. Is(This, {"program"})
          BY <1>1, <2>2, <3>6 DEF Role
        <4>2. Descent = <<This>>
          BY <3>6, <4>1 DEF Descent
        <4>3. 1 \in DOMAIN Descent /\ Descent[1] = This
          BY <4>2
        <4> QED
          BY <1>4, <1>7, <4>3
      <3> QED
        BY <1>1, <3>3, <3>4, <3>5, <3>6
    <2>4. CASE i = This
      <3>1. CASE Head(todo).what = "member"
        BY <1>1, <2>2, <2>4, <3>1 DEF Role
      <3>2. CASE Head(todo).what = "part"
        <4>1. Is(This, {"program"})
          BY <1>1, <2>2, <3>2 DEF Role
        <4>2. Descent = <<This>>
          BY <3>2, <4>1 DEF Descent
        <4>3. 1 \in DOMAIN Descent /\ Descent[1] = This
          BY <4>2
        <4> QED
          BY <1>4, <1>7, <4>3
      <3> QED
        BY <1>1, <2>4, <3>1, <3>2
    <2> QED
      BY <2>1, <2>3, <2>4
  <1>8. a = 1 \/ a > 1
    BY <1>5 DEF SemanticTyped
  <1> QED
    BY <1>1, <1>5, <1>6, <1>7, <1>8

(* What is in the table was declared in the text before all that is still  *)
(* to be checked.                                                          *)
Origin(d, n) ==
  Declares(d, n) \/ (Is(d, {"each"}) /\ Kids(d) # <<>> /\ prog[Kids(d)[1]].name = n)
Before(d) == \A a \in DOMAIN todo : d < todo[a].node
HasOrigin(n) == n = <<"this">> \/ \E d \in Ids : Origin(d, n) /\ Before(d)
Origins ==
  \A k \in DOMAIN syms :
    \/ Hoisted(syms[k].name)
    \/ pass \notin {"library", "collect"} /\ HasOrigin(syms[k].name)

(* What is entered was declared before the calls that are left.           *)
LEMMA BeforeNext ==
  ASSUME SemanticTyped, Steps, NEW d \in Ids, \A k \in DOMAIN Descent : d < Descent[k],
         \A a \in DOMAIN todo : a > 1 => d < todo[a].node
  PROVE  Before(d)'
  <1>1. \A k \in DOMAIN todo' :
          \/ k \in DOMAIN Descent /\ todo'[k].node = Descent[k]
          \/ \E a \in DOMAIN todo : a > 1 /\ todo'[k] = todo[a]
    BY NewTodo DEF Call
  <1> QED
    BY <1>1 DEF Before

LEMMA BeforeStays ==
  ASSUME SemanticTyped, Steps, NEW d \in Ids, Before(d)
  PROVE  Before(d)'
  <1>1. todo # <<>>
    BY DEF Steps
  <1>2. This \in Ids /\ 1 \in DOMAIN todo /\ This = todo[1].node /\ d < This
    BY <1>1, HeadIs DEF Before
  <1>3. Ids = 1 .. Len(prog) /\ Len(prog) \in Nat
    BY ProgramIs DEF SemanticTyped
  <1>4. \A k \in DOMAIN Descent : Descent[k] >= This /\ Descent[k] \in Ids
    BY <1>1, DescentIs
  <1>5. \A k \in DOMAIN Descent : d < Descent[k]
    BY <1>2, <1>3, <1>4
  <1> QED
    BY <1>5, BeforeNext DEF Before

LEMMA OriginSame ==
  ASSUME prog' = prog
  PROVE  \A d, n : Origin(d, n)' <=> Origin(d, n)
  <1>1. \A d : Kids(d)' = Kids(d)
    BY SameTree
  <1> QED
    BY <1>1 DEF Origin, Declares, Is

(* What a step enters is declared where it is, or collected.              *)
LEMMA EnteredOrigins ==
  ASSUME SemanticTyped, InOrder, Steps, NEW n \in Entered
  PROVE  Hoisted(n) \/ HasOrigin(n)'
  <1>1. prog' = prog /\ todo # <<>>
    BY DEF Steps
  <1>2. /\ This \in Ids /\ 1 \in DOMAIN todo /\ This = todo[1].node /\ prog \in Programs
        /\ Head(todo).what \in {"node", "member", "part"}
        /\ Ids = 1 .. Len(prog) /\ Len(prog) \in Nat
    BY <1>1, HeadIs, ProgramIs DEF SemanticTyped
  <1>3. ASSUME NEW d \in Below(This), Origin(d, n), \A k \in DOMAIN Descent : d < Descent[k]
        PROVE  HasOrigin(n)'
    <2>1. d \in Ids
      BY DEF Below
    <2>2. \A a \in DOMAIN todo : a > 1 => d < todo[a].node
      BY <1>2 DEF InOrder
    <2>3. Before(d)'
      BY <1>3, <2>1, <2>2, BeforeNext
    <2>4. Ids' = Ids /\ Origin(d, n)'
      BY <1>1, <1>3, OriginSame, SameTree
    <2> QED
      BY <2>1, <2>3, <2>4 DEF HasOrigin
  <1>4. This \in Below(This)
    BY <1>2 DEF Below
  <1>5. \A k \in DOMAIN Kids(This) : This < Kids(This)[k]
    BY <1>2, KidsAre
  <1>6. CASE Head(todo).what = "node" /\ Is(This, {"var", "ptr"})
    <2>1. ~Is(This, Functions)
      BY <1>6 DEF Is, Functions
    <2>2. n = prog[This].name /\ Descent = Kids(This)
      BY <1>6, <2>1 DEF Entered, Descent, Is
    <2>3. Origin(This, n)
      BY <1>6, <2>2 DEF Origin, Declares
    <2> QED
      BY <1>3, <1>4, <1>5, <2>2, <2>3
  <1>7. CASE Head(todo).what = "node" /\ Is(This, ClassLike)
    <2>1. n = prog[This].name
      BY <1>7 DEF Entered, Is
    <2>2. n \in NamesIn(Made(This))
      BY <1>2, <1>7, <2>1, MadeIs
    <2> QED
      BY <1>2, <2>2, HoistedIs
  <1>8. CASE Head(todo).what = "node" /\ Is(This, Functions)
    <2>1. ~Is(This, {"var", "ptr"} \cup ClassLike)
      BY <1>8 DEF Is, Functions, ClassLike
    <2>2. n \in Parameters(This) /\ Descent = Body(This)
      BY <1>8, <2>1 DEF Entered, Descent
    <2>3. PICK k \in DOMAIN Kids(This) :
            Is(Kids(This)[k], {"var"}) /\ n = prog[Kids(This)[k]].name
      BY <2>2 DEF Parameters
    <2> DEFINE d == Kids(This)[k]
    <2>4. d \in Below(This)
      <3>1. d \in Ids /\ d # 1 /\ Parent(d) = This
        BY <1>2, KidsAre, ParentIs
      <3> QED
        BY <1>2, <3>1, ParentOf DEF Below
    <2>5. Origin(d, n)
      BY <2>3 DEF Origin, Declares, Is
    <2>6. \A l \in DOMAIN Descent : d < Descent[l]
      <3>1. CASE Body(This) = <<>>
        BY <2>2, <3>1
      <3>2. CASE Body(This) = <<Last(Kids(This))>> /\ Is(Last(Kids(This)), {"program"})
        <4>1. Kids(This) \in Seq(Ids)
          BY <1>2, KidsAre
        <4>2. Last(Kids(This)) = Kids(This)[Len(Kids(This))]
          BY DEF Last
        <4>3. k # Len(Kids(This))
          BY <2>3, <3>2, <4>2 DEF Is
        <4>4. k < Len(Kids(This)) /\ Len(Kids(This)) \in DOMAIN Kids(This)
          BY <4>1, <4>3
        <4>5. d < Last(Kids(This))
          BY <1>2, <4>2, <4>4, KidsAre
        <4> HIDE DEF d
        <4> QED
          BY <2>2, <3>2, <4>5
      <3> QED
        BY <3>1, <3>2 DEF Body
    <2> QED
      BY <1>3, <2>4, <2>5, <2>6
  <1>9. CASE /\ Head(todo).what = "node"
             /\ ~Is(This, {"var", "ptr"} \cup ClassLike) /\ ~Is(This, Functions)
    <2>1. Is(This, {"each"}) /\ n = prog[Kids(This)[1]].name /\ Descent = Kids(This)
      BY <1>9 DEF Entered, Descent
    <2>2. Kids(This) # <<>>
      BY <1>2, <2>1, ProgramIs
    <2>3. Origin(This, n)
      BY <2>1, <2>2 DEF Origin
    <2> QED
      BY <1>3, <1>4, <1>5, <2>1, <2>3
  <1>10. CASE Head(todo).what # "node" /\ Is(This, {"var"})
    <2>1. n = prog[This].name
      BY <1>10 DEF Entered
    <2>2. ~Is(This, MethodLike) /\ ~Is(This, {"program"})
      BY <1>10 DEF Is, MethodLike
    <2>3. Descent = <<>>
      BY <1>10, <2>2 DEF Descent
    <2>4. Origin(This, n)
      BY <1>10, <2>1 DEF Origin, Declares, Is
    <2> QED
      BY <1>3, <1>4, <2>3, <2>4
  <1>11. CASE Head(todo).what # "node" /\ ~Is(This, {"var"})
    <2>1. n = <<"this">>
      BY <1>11 DEF Entered
    <2> QED
      BY <2>1 DEF HasOrigin
  <1>12. Is(This, {"var", "ptr"} \cup ClassLike) <=> Is(This, {"var", "ptr"}) \/ Is(This, ClassLike)
    BY DEF Is
  <1> QED
    BY <1>6, <1>7, <1>8, <1>9, <1>10, <1>11, <1>12

LEMMA OriginsStep ==
  ASSUME SemanticTyped, InOrder, Origins, [SemanticNext]_semanticVars
  PROVE  Origins'
  <1>1. prog' = prog
    BY NextIs DEF Quiet, LibraryDone, Collects, CollectDone, Steps
  <1>2. /\ Ids' = Ids /\ \A n : Hoisted(n)' <=> Hoisted(n)
        /\ \A d, n : Origin(d, n)' <=> Origin(d, n)
    BY <1>1, OriginSame, SameTree
  <1>3. CASE Quiet
    <2>1. \A n : HasOrigin(n) => HasOrigin(n)'
      BY <1>2, <1>3 DEF Quiet, HasOrigin, Before
    <2>2. pass \notin {"library", "collect"} => pass' \notin {"library", "collect"}
      BY <1>3 DEF Quiet
    <2>3. syms' = syms
      BY <1>3 DEF Quiet
    <2> QED
      BY <1>2, <2>1, <2>2, <2>3 DEF Origins
  <1>4. CASE pass \in {"library", "collect"} /\ ~Quiet
    <2>1. \A k \in DOMAIN syms : Hoisted(syms[k].name)
      BY <1>4 DEF Origins
    <2>2. PICK N : Grown(syms, syms', N) /\ N \subseteq Added
      BY TableGrows
    <2>3. \A n \in Added : Hoisted(n)
      <3>1. \A n \in Provided : Hoisted(n)
        BY HoistedIs
      <3>2. \A n \in UNION {NamesIn(Made(d)) : d \in Ids} : Hoisted(n)
        BY HoistedIs
      <3> QED
        BY <1>4, <3>1, <3>2 DEF Added
    <2>4. \A k \in DOMAIN syms' : Hoisted(syms'[k].name)
      BY <2>1, <2>2, <2>3 DEF Grown
    <2> QED
      BY <1>2, <2>4 DEF Origins
  <1>5. CASE Steps
    <2>1. Grown(syms, syms', Entered) /\ pass' = "check"
      BY <1>5 DEF Steps
    <2>2. \A n \in Entered : Hoisted(n) \/ HasOrigin(n)'
      BY <1>5, EnteredOrigins
    <2>3. \A n : HasOrigin(n) => HasOrigin(n)'
      BY <1>2, <1>5, BeforeStays DEF HasOrigin
    <2>4. ASSUME NEW k \in DOMAIN syms', NEW n, n = syms'[k].name
          PROVE  Hoisted(n) \/ HasOrigin(n)'
      <3>1. CASE k \in DOMAIN syms
        <4>1. n = syms[k].name
          BY <2>1, <2>4, <3>1 DEF Grown
        <4> QED
          BY <2>3, <3>1, <4>1 DEF Origins
      <3>2. CASE n \in Entered
        BY <2>2, <3>2
      <3> QED
        BY <2>1, <2>4, <3>1, <3>2 DEF Grown
    <2>5. \A k \in DOMAIN syms' : \E n : n = syms'[k].name /\ (Hoisted(n) \/ HasOrigin(n)')
      BY <2>4
    <2> QED
      BY <1>2, <2>1, <2>5 DEF Origins
  <1> QED
    BY <1>3, <1>4, <1>5, NextIs DEF LibraryDone, Collects, CollectDone

(* A name is looked up when its node is come to.                           *)
Known(i) ==
  LET n == prog[i].name
  IN  Hoisted(n) \/ n = <<"this">> \/ \E d \in 1 .. i - 1 : Origin(d, n)
Refuses ==
  pass \in {"check", "done"} /\ ~CHeaders =>
    \A i \in Ids : Looked(i) /\ Checked(i) => Awaited(i) \/ i \in bad \/ Known(i)

(* At its call a name is known from before, or reported.                  *)
LEMMA RefusesStep ==
  ASSUME SemanticTyped, Roles, Origins, Refuses, [SemanticNext]_semanticVars
  PROVE  Refuses'
  <1>1. prog' = prog
    BY NextIs DEF Quiet, LibraryDone, Collects, CollectDone, Steps
  <1>2. /\ Ids' = Ids /\ CHeaders' = CHeaders
        /\ \A i : Below(i)' = Below(i) /\ (Checked(i)' <=> Checked(i))
    BY <1>1, SameTree
  <1>3. \A i : (Looked(i)' <=> Looked(i)) /\ (Known(i)' <=> Known(i))
    <2>1. \A i : Looked(i)' <=> Looked(i)
      BY <1>1 DEF Looked, Is
    <2>2. \A i : Known(i)' <=> Known(i)
      BY <1>1, OriginSame, SameTree DEF Known
    <2> QED
      BY <2>1, <2>2
  <1>4. CASE Quiet
    <2>1. \A i : Awaited(i) => Awaited(i)'
      BY <1>2, <1>4 DEF Quiet, Awaited
    <2>2. bad' = bad /\ (pass' \in {"check", "done"} => pass \in {"check", "done"})
      BY <1>4 DEF Quiet
    <2> QED
      BY <1>2, <1>3, <2>1, <2>2 DEF Refuses
  <1>5. CASE LibraryDone \/ Collects
    BY <1>5 DEF LibraryDone, Collects, Refuses
  <1>6. CASE CollectDone
    <2>1. \A i \in Ids : i \in Below(1)
      BY AroundAll, ProgramIs DEF Below, SemanticTyped
    <2>2. 1 \in DOMAIN todo' /\ todo'[1].node = 1
      BY <1>6 DEF CollectDone, Call
    <2>3. \A i \in Ids : Awaited(i)'
      BY <1>2, <2>1, <2>2 DEF Awaited
    <2> QED
      BY <1>2, <2>3 DEF Refuses
  <1>7. CASE Steps /\ Reports
    <2> SUFFICES ASSUME ~CHeaders, NEW i \in Ids, Looked(i), Checked(i)
                 PROVE  Awaited(i)' \/ i \in bad' \/ Known(i)
      BY <1>2, <1>3 DEF Refuses
    <2>1. pass = "check" /\ bad \subseteq bad' /\ todo # <<>>
      BY <1>7 DEF Steps
    <2>2. Awaited(i) \/ i \in bad \/ Known(i)
      BY <2>1 DEF Refuses
    <2>3. ~Is(i, MethodLike)
      BY DEF Looked, Is, MethodLike
    <2>4. CASE Head(todo).what = "node" /\ This = i
      <3>1. CASE Holds(syms, prog[i].name)
        <4>1. PICK k \in DOMAIN syms : syms[k].name = prog[i].name
          BY <3>1 DEF Holds
        <4>2. Hoisted(prog[i].name) \/ HasOrigin(prog[i].name)
          BY <4>1 DEF Origins
        <4>3. ASSUME NEW d \in Ids, Before(d) PROVE d \in 1 .. i - 1
          <5>1. 1 \in DOMAIN todo /\ i = todo[1].node
            BY <2>1, <2>4, HeadIs
          <5>2. d < i
            BY <4>3, <5>1 DEF Before
          <5> QED
            BY <5>2, ProgramIs DEF SemanticTyped
        <4> QED
          BY <4>2, <4>3 DEF Known, HasOrigin
      <3>2. CASE ~Holds(syms, prog[i].name)
        BY <1>7, <2>4, <3>2 DEF Reports
      <3> QED
        BY <3>1, <3>2
    <2>5. CASE Awaited(i) /\ ~(Head(todo).what = "node" /\ This = i)
      BY <1>7, <2>3, <2>5, StillAwaited
    <2> QED
      BY <2>1, <2>2, <2>4, <2>5
  <1> QED
    BY <1>4, <1>5, <1>6, <1>7, NextIs

-----------------------------------------------------------------------------
(* Two declarations of a name in one list are come to one after the other, *)
(* with the same scope, and the first is in the table when the second is.  *)
Twins(d, e) ==
  /\ d # 1 /\ e # 1 /\ d < e /\ Checked(e) /\ Parent(d) = Parent(e)
  /\ ~Is(Parent(d), Functions \cup MethodLike \cup ClassLike)
  /\ \E name \in {prog[d].name} : Declares(d, name) /\ Declares(e, name)
Entry(name, scope) == \E k \in DOMAIN syms : syms[k].name = name /\ syms[k].scope = scope
Comes(d, e) ==
  \E b \in DOMAIN todo :
    /\ todo[b].node = e /\ todo[b].what = "node"
    /\ \/ \E a \in 1 .. b - 1 : todo[a] = Call("node", d, todo[b].scope)
       \/ Entry(prog[e].name, todo[b].scope)
Noticing(d, e) == Awaited(Parent(e)) \/ Comes(d, e) \/ e \in twice \/ Full
Notices ==
  pass \in {"check", "done"} => \A d, e \in Ids : Twins(d, e) => Noticing(d, e)

LEMMA TwinsAre ==
  ASSUME prog \in Programs, NEW d \in Ids, NEW e \in Ids, Twins(d, e)
  PROVE  /\ Parent(e) \in Ids /\ Checked(Parent(e)) /\ ~Is(Parent(e), MethodLike)
         /\ ~Is(Parent(e), Functions) /\ ~Is(Parent(e), ClassLike)
         /\ Is(d, {"var", "ptr"}) /\ Is(e, {"var", "ptr"}) /\ prog[d].name = prog[e].name
         /\ \E a, b \in DOMAIN Kids(Parent(e)) :
              a < b /\ Kids(Parent(e))[a] = d /\ Kids(Parent(e))[b] = e
  <1> DEFINE p == Parent(e)
  <1>1. p \in Ids /\ p \in Around(e) /\ Parent(d) = p /\ d < e
    BY ParentOf DEF Twins
  <1>2. Checked(p)
    BY <1>1, CheckedAbove DEF Twins
  <1>3. ~Is(p, MethodLike) /\ ~Is(p, Functions) /\ ~Is(p, ClassLike)
    BY <1>1 DEF Twins, Is
  <1>4. Is(d, {"var", "ptr"}) /\ Is(e, {"var", "ptr"}) /\ prog[d].name = prog[e].name
    BY DEF Twins, Declares
  <1>5. PICK a \in DOMAIN Kids(p) : Kids(p)[a] = d
    BY <1>1, ParentOf DEF Twins
  <1>6. PICK b \in DOMAIN Kids(p) : Kids(p)[b] = e
    BY ParentOf DEF Twins
  <1>7. a < b
    <2>1. /\ Kids(p) \in Seq(Nat)
          /\ \A k, l \in DOMAIN Kids(p) : k < l => Kids(p)[k] < Kids(p)[l]
      BY <1>1, KidsAre
    <2>2. CASE b < a
      <3>1. e < d
        BY <1>5, <1>6, <2>1, <2>2
      <3>2. d \in Nat /\ e \in Nat
        BY ProgramIs
      <3> QED
        BY <1>1, <3>1, <3>2
    <2>3. CASE a = b
      <3>1. d = e
        BY <1>5, <1>6, <2>3
      <3>2. d \in Nat
        BY ProgramIs
      <3> QED
        BY <1>1, <3>1, <3>2
    <2>4. a \in Nat /\ b \in Nat
      BY <2>1
    <2> QED
      BY <2>2, <2>3, <2>4
  <1> QED
    BY <1>1, <1>2, <1>3, <1>4, <1>5, <1>6, <1>7

(* The list is come to: both are among the calls to come.                  *)
LEMMA ListComes ==
  ASSUME SemanticTyped, Steps, NEW d \in Ids, NEW e \in Ids, Twins(d, e),
         Head(todo).what = "node", This = Parent(e)
  PROVE  Comes(d, e)'
  <1>1. prog \in Programs
    BY DEF SemanticTyped
  <1>2. ~Is(This, Functions) /\ ~Is(This, ClassLike)
    BY <1>1, TwinsAre
  <1>3. PICK a \in DOMAIN Kids(This), b \in DOMAIN Kids(This) :
          a < b /\ Kids(This)[a] = d /\ Kids(This)[b] = e
    BY <1>1, TwinsAre
  <1>4. Descent = Kids(This) /\ DescentWhat = "node"
    BY <1>2 DEF Descent, DescentWhat
  <1>5. PICK scope : \A k \in DOMAIN Descent :
                        k \in DOMAIN todo' /\ todo'[k] = Call("node", Descent[k], scope)
    BY <1>4, NewTodo
  <1>6. /\ a \in DOMAIN todo' /\ todo'[a] = Call("node", d, scope)
        /\ b \in DOMAIN todo' /\ todo'[b] = Call("node", e, scope)
    BY <1>3, <1>4, <1>5
  <1>7. todo'[b].node = e /\ todo'[b].what = "node" /\ todo'[b].scope = scope
    BY <1>6 DEF Call
  <1>8. a \in 1 .. b - 1
    <2>1. todo' \in Seq([what : {"node", "member", "part"}, node : Ids, scope : Int])
      BY NewTodo
    <2>2. a \in Nat /\ b \in Nat /\ a >= 1
      BY <1>6, <2>1
    <2> QED
      BY <1>3, <2>2
  <1>9. todo'[a] = Call("node", d, todo'[b].scope)
    BY <1>6, <1>7
  <1> QED
    BY <1>6, <1>7, <1>8, <1>9 DEF Comes, Call

(* Both are still to come, or the first is entered, or the second noticed. *)
LEMMA StillComes ==
  ASSUME SemanticTyped, Steps, Reports, NEW d \in Ids, NEW e \in Ids, Twins(d, e), Comes(d, e)
  PROVE  Comes(d, e)' \/ e \in twice' \/ Full'
  <1> DEFINE n == Len(Descent)
  <1>1. /\ todo # <<>> /\ 1 \in DOMAIN todo /\ Head(todo) = todo[1] /\ This = todo[1].node
        /\ Grown(syms, syms', Entered) /\ prog' = prog /\ prog \in Programs
    BY HeadIs DEF Steps, SemanticTyped
  <1>2. n \in Nat /\ \A a \in DOMAIN todo : a \in Nat /\ a >= 1
    <2>1. Descent \in Seq(Ids)
      BY <1>1, DescentIs
    <2>2. \A a \in DOMAIN todo : a \in Nat /\ a >= 1
      BY DEF SemanticTyped
    <2> QED
      BY <2>1, <2>2
  <1>3. \A a \in DOMAIN todo : a > 1 =>
          (a + n) - 1 \in DOMAIN todo' /\ todo'[(a + n) - 1] = todo[a]
    BY NewTodo
  <1> HIDE DEF n
  <1>4. Is(d, {"var", "ptr"}) /\ Is(e, {"var", "ptr"}) /\ prog[d].name = prog[e].name
    BY <1>1, TwinsAre
  <1>5. PICK b \in DOMAIN todo :
          /\ todo[b].node = e /\ todo[b].what = "node"
          /\ \/ \E a \in 1 .. b - 1 : todo[a] = Call("node", d, todo[b].scope)
             \/ Entry(prog[e].name, todo[b].scope)
    BY DEF Comes
  <1> DEFINE s == todo[b].scope
             c == (b + n) - 1
  <1>6. CASE b = 1
    <2>1. ~ \E a \in 1 .. b - 1 : todo[a] = Call("node", d, s)
      BY <1>6
    <2>2. Entry(prog[e].name, s)
      BY <1>5, <2>1
    <2>3. Head(todo).what = "node" /\ This = e /\ s = Scope
      BY <1>1, <1>5, <1>6 DEF Scope
    <2>4. Redeclared
      BY <2>2, <2>3 DEF Redeclared, Entry
    <2> QED
      BY <1>4, <2>3, <2>4 DEF Reports
  <1>7. CASE b > 1
    <2>1. c \in DOMAIN todo' /\ todo'[c] = todo[b]
      BY <1>3, <1>7
    <2>2. ASSUME NEW k \in DOMAIN syms', syms'[k].name = prog[e].name, syms'[k].scope = s
          PROVE  Comes(d, e)'
      <3>1. prog'[e].name = prog[e].name /\ todo'[c].scope = s
        BY <1>1, <2>1
      <3> HIDE DEF c
      <3> QED
        BY <1>5, <2>1, <2>2, <3>1 DEF Comes, Entry
    <2>3. CASE Entry(prog[e].name, s)
      <3>1. PICK k \in DOMAIN syms : syms[k].name = prog[e].name /\ syms[k].scope = s
        BY <2>3 DEF Entry
      <3>2. k \in DOMAIN syms' /\ syms'[k] = syms[k]
        BY <1>1, GrownKeeps DEF Grown
      <3> QED
        BY <2>2, <3>1, <3>2
    <2>4. CASE \E a \in 1 .. b - 1 : todo[a] = Call("node", d, s)
      <3>1. PICK a \in 1 .. b - 1 : todo[a] = Call("node", d, s)
        BY <2>4
      <3>2. a \in DOMAIN todo
        BY <1>2, <3>1 DEF SemanticTyped
      <3>3. CASE a = 1
        <4>1. Head(todo).what = "node" /\ This = d /\ Scope = s
          BY <1>1, <3>1, <3>3 DEF Scope, Call
        <4>2. CASE Len(syms') = MaxSymbols
          BY <4>2 DEF Full
        <4>3. CASE \E k \in DOMAIN syms' : syms'[k].name = prog[d].name /\ syms'[k].scope = s
          BY <1>4, <2>2, <4>3
        <4> QED
          BY <1>4, <4>1, <4>2, <4>3 DEF Reports
      <3>4. CASE a > 1
        <4> DEFINE f == (a + n) - 1
        <4>1. f \in DOMAIN todo' /\ todo'[f] = todo[a]
          BY <1>3, <3>2, <3>4
        <4>2. f \in 1 .. c - 1
          BY <1>2, <3>1, <3>2, <3>4
        <4>3. todo'[f] = Call("node", d, todo'[c].scope)
          BY <2>1, <3>1, <4>1
        <4> HIDE DEF c, f
        <4> QED
          BY <1>5, <2>1, <4>2, <4>3 DEF Comes, Call
      <3> QED
        BY <1>2, <3>2, <3>3, <3>4
    <2> QED
      BY <1>5, <2>3, <2>4
  <1> QED
    BY <1>2, <1>5, <1>6, <1>7

(* No step loses sight of a pair.                                         *)
LEMMA NoticesStep ==
  ASSUME SemanticTyped, Roles, Notices, [SemanticNext]_semanticVars
  PROVE  Notices'
  <1>1. prog' = prog /\ twice \subseteq twice'
    BY NextIs DEF Quiet, LibraryDone, Collects, CollectDone, Steps
  <1>2. /\ Ids' = Ids /\ prog \in Programs
        /\ \A i : Parent(i)' = Parent(i) /\ Below(i)' = Below(i) /\ (Checked(i)' <=> Checked(i))
    BY <1>1, SameTree DEF SemanticTyped
  <1>3. \A d, e : Twins(d, e)' <=> Twins(d, e)
    BY <1>1, <1>2 DEF Twins, Declares, Is
  <1>4. Full => Full'
    BY FullStays
  <1>5. CASE Quiet
    <2>1. \A i : Awaited(i) => Awaited(i)'
      BY <1>2, <1>5 DEF Quiet, Awaited
    <2>2. \A d, e : Comes(d, e) => Comes(d, e)'
      BY <1>5 DEF Quiet, Comes, Entry, Call
    <2>3. pass' \in {"check", "done"} => pass \in {"check", "done"}
      BY <1>5 DEF Quiet
    <2> QED
      BY <1>1, <1>2, <1>3, <1>4, <2>1, <2>2, <2>3 DEF Notices, Noticing
  <1>6. CASE LibraryDone \/ Collects
    BY <1>6 DEF LibraryDone, Collects, Notices
  <1>7. CASE CollectDone
    <2>1. \A i \in Ids : i \in Below(1)
      BY <1>2, AroundAll, ProgramIs DEF Below
    <2>2. 1 \in DOMAIN todo' /\ todo'[1].node = 1
      BY <1>7 DEF CollectDone, Call
    <2>3. \A i \in Ids : Awaited(i)'
      BY <1>2, <2>1, <2>2 DEF Awaited
    <2>4. \A d, e \in Ids : Twins(d, e) => Parent(e) \in Ids
      BY <1>2, TwinsAre
    <2> QED
      BY <1>2, <1>3, <2>3, <2>4 DEF Notices, Noticing
  <1>8. CASE Steps /\ Reports
    <2>1. ASSUME NEW d \in Ids, NEW e \in Ids, Twins(d, e)
          PROVE  Awaited(Parent(e))' \/ Comes(d, e)' \/ e \in twice' \/ Full'
      <3>1. Noticing(d, e)
        BY <1>8, <2>1 DEF Steps, Notices
      <3>2. CASE Awaited(Parent(e))
        <4>1. PICK p \in Ids : p = Parent(e) /\ Checked(p) /\ ~Is(p, MethodLike)
          BY <1>2, <2>1, TwinsAre
        <4>2. Awaited(p)' \/ (Head(todo).what = "node" /\ This = p)
          BY <1>8, <3>2, <4>1, StillAwaited
        <4>3. CASE Head(todo).what = "node" /\ This = p
          BY <1>8, <2>1, <4>1, <4>3, ListComes
        <4>4. Awaited(p)' => Awaited(Parent(e))'
          BY <1>2, <4>1 DEF Awaited
        <4> QED
          BY <4>2, <4>3, <4>4
      <3>3. CASE Comes(d, e)
        BY <1>8, <2>1, <3>3, StillComes
      <3> QED
        BY <1>1, <1>4, <3>1, <3>2, <3>3 DEF Noticing
    <2> QED
      BY <1>2, <1>3, <2>1 DEF Notices, Noticing
  <1> QED
    BY <1>5, <1>6, <1>7, <1>8, NextIs

-----------------------------------------------------------------------------
(* What a call to come may use is known, or a call before it enters it.    *)
Sees ==
  \A a \in DOMAIN todo :
    LET t == todo[a].node
    IN  /\ \A d \in Ids : d < t /\ Is(d, {"var", "ptr"}) /\ Parent(d) \in Around(t) =>
             \/ InForce(prog[d].name)
             \/ \E b \in DOMAIN todo : /\ b < a /\ todo[b].node = d
                                       /\ Is(d, {"ptr"}) => todo[b].what = "node"
        /\ \A d \in Around(t) : Is(d, {"each"}) => InForce(prog[Kids(d)[1]].name)
        /\ \A d \in Around(t) :
             Is(d, MethodLike) /\ Is(Parent(d), ClassLike) => InForce(<<"this">>)

(* The first call sees all it may use.                                     *)
LEMMA FirstSees ==
  ASSUME SemanticTyped, Sees, todo # <<>>
  PROVE  /\ \A d \in Ids : d < This /\ Is(d, {"var", "ptr"}) /\ Parent(d) \in Around(This) =>
              InForce(prog[d].name)
         /\ \A d \in Around(This) : Is(d, {"each"}) => InForce(prog[Kids(d)[1]].name)
         /\ \A d \in Around(This) :
              Is(d, MethodLike) /\ Is(Parent(d), ClassLike) => InForce(<<"this">>)
  <1>1. 1 \in DOMAIN todo /\ This = todo[1].node
    BY HeadIs
  <1>2. \A b \in DOMAIN todo : ~(b < 1)
    BY DEF SemanticTyped
  <1> QED
    BY <1>1, <1>2 DEF Sees

(* What is known after a step.                                             *)
Keeps(n) == Holds(syms', n) \/ IsFull(syms')

LEMMA KeepsIs ==
  ASSUME NEW n
  PROVE  InForce(n)' <=> Keeps(n)
  BY DEF InForce, Keeps, Full, IsFull, Holds

(* What a step enters is known after it, if the table has room.           *)
LEMMA EnteredKept ==
  ASSUME Steps, NEW n \in Entered
  PROVE  Keeps(n)
  BY DEF Steps, Grown, Keeps

(* The call of a declaration enters its name.                             *)
LEMMA EntersThis ==
  ASSUME SemanticTyped, Steps, Is(This, {"var", "ptr"}),
         Is(This, {"ptr"}) => Head(todo).what = "node"
  PROVE  Keeps(prog[This].name)
  <1>1. CASE Head(todo).what = "node"
    BY <1>1, EnteredKept DEF Entered, Is
  <1>2. CASE Head(todo).what # "node"
    <2>1. Is(This, {"var"})
      BY <1>2 DEF Is
    <2> QED
      BY <1>2, <2>1, EnteredKept DEF Entered
  <1> QED
    BY <1>1, <1>2

(* Where the calls that take the place of the first one lead.              *)
LEMMA DescentCases ==
  ASSUME SemanticTyped, todo # <<>>, NEW k \in DOMAIN Descent
  PROVE  \/ Descent[k] = This /\ Is(This, {"program"})
         \/ /\ Descent = Kids(This)
            /\ \/ Head(todo).what = "node" /\ ~Is(This, Functions)
               \/ Head(todo).what = "member" /\ Is(This, MethodLike)
         \/ /\ Head(todo).what = "node" /\ Is(This, Functions)
            /\ Len(Kids(This)) \in DOMAIN Kids(This)
            /\ Descent[k] = Kids(This)[Len(Kids(This))]
  <1>1. CASE Head(todo).what = "node" /\ ~Is(This, Functions)
    BY <1>1 DEF Descent
  <1>2. CASE Head(todo).what = "member"
    <2>1. CASE Is(This, MethodLike)
      BY <1>2, <2>1 DEF Descent
    <2>2. CASE ~Is(This, MethodLike)
      <3>1. Descent = <<>>
        BY <1>2, <2>2 DEF Descent
      <3> QED
        BY <3>1
    <2> QED
      BY <2>1, <2>2
  <1>3. CASE Head(todo).what = "part"
    <2>1. CASE Is(This, {"program"})
      <3>1. Descent = <<This>>
        BY <1>3, <2>1 DEF Descent
      <3> QED
        BY <2>1, <3>1
    <2>2. CASE ~Is(This, {"program"})
      <3>1. Descent = <<>>
        BY <1>3, <2>2 DEF Descent
      <3> QED
        BY <3>1
    <2> QED
      BY <2>1, <2>2
  <1>4. CASE Head(todo).what = "node" /\ Is(This, Functions)
    <2>1. Descent = Body(This)
      BY <1>4 DEF Descent
    <2>2. Descent # <<>>
      OBVIOUS
    <2>3. Kids(This) # <<>> /\ Descent = <<Last(Kids(This))>>
      BY <2>1, <2>2 DEF Body
    <2>4. Kids(This) \in Seq(Ids)
      BY HeadIs, KidsAre DEF SemanticTyped
    <2>5. Len(Kids(This)) \in DOMAIN Kids(This) /\ Last(Kids(This)) = Kids(This)[Len(Kids(This))]
      BY <2>3, <2>4 DEF Last
    <2>6. Descent[k] = Last(Kids(This))
      BY <2>3
    <2> QED
      BY <1>4, <2>5, <2>6
  <1> QED
    BY <1>1, <1>2, <1>3, <1>4, HeadIs

(* So do the calls that take its place: what is around them, and declared  *)
(* before them.                                                            *)
LEMMA NewSees ==
  ASSUME SemanticTyped, Roles, Sees, [SemanticNext]_semanticVars, Steps,
         NEW k \in DOMAIN Descent, NEW t, t = Descent[k]
  PROVE  /\ \A d \in Ids : d < t /\ Is(d, {"var", "ptr"}) /\ Parent(d) \in Around(t) =>
              \/ Keeps(prog[d].name)
              \/ /\ Is(d, {"ptr"}) => DescentWhat = "node"
                 /\ \E j \in DOMAIN Descent : j < k /\ Descent[j] = d
         /\ \A d \in Around(t) : Is(d, {"each"}) => Keeps(prog[Kids(d)[1]].name)
         /\ \A d \in Around(t) :
              Is(d, MethodLike) /\ Is(Parent(d), ClassLike) => Keeps(<<"this">>)
  <1>1. /\ todo # <<>> /\ prog \in Programs /\ This \in Ids /\ Role(Head(todo).what, This)
        /\ Head(todo).what \in {"node", "member", "part"}
        /\ Ids = 1 .. Len(prog) /\ Len(prog) \in Nat
    <2>1. todo # <<>>
      BY DEF Steps
    <2> QED
      BY <2>1, HeadIs, ProgramIs DEF SemanticTyped, Roles
  <1>2. \A n : InForce(n) => Keeps(n)
    BY ForceStays, KeepsIs
  <1>3. /\ \A d \in Ids : d < This /\ Is(d, {"var", "ptr"}) /\ Parent(d) \in Around(This) =>
             Keeps(prog[d].name)
        /\ \A d \in Around(This) : Is(d, {"each"}) => Keeps(prog[Kids(d)[1]].name)
        /\ \A d \in Around(This) :
             Is(d, MethodLike) /\ Is(Parent(d), ClassLike) => Keeps(<<"this">>)
    BY <1>1, <1>2, FirstSees
  <1>4. CASE t = This
    BY <1>3, <1>4
  <1>5. ASSUME NEW l \in DOMAIN Kids(This), t = Kids(This)[l],
               \/ Descent = Kids(This) /\ l = k
               \/ Head(todo).what = "node" /\ Is(This, Functions),
               \/ Head(todo).what = "node"
               \/ Head(todo).what = "member" /\ Is(This, MethodLike)
        PROVE  /\ \A d \in Ids : d < t /\ Is(d, {"var", "ptr"}) /\ Parent(d) \in Around(t) =>
                    \/ Keeps(prog[d].name)
                    \/ /\ Is(d, {"ptr"}) => DescentWhat = "node"
                       /\ \E j \in DOMAIN Descent : j < k /\ Descent[j] = d
               /\ \A d \in Around(t) : Is(d, {"each"}) => Keeps(prog[Kids(d)[1]].name)
               /\ \A d \in Around(t) :
                    Is(d, MethodLike) /\ Is(Parent(d), ClassLike) => Keeps(<<"this">>)
    <2>1. t \in Ids /\ t # 1 /\ Parent(t) = This
      BY <1>1, <1>5, KidsAre, ParentIs
    <2>2. \A d \in Around(t) : d = This \/ d \in Around(This)
      BY <1>1, <2>1, AroundKid
    <2>3. Is(This, {"each"}) => Keeps(prog[Kids(This)[1]].name)
      <3> SUFFICES ASSUME Is(This, {"each"}) PROVE Keeps(prog[Kids(This)[1]].name)
        OBVIOUS
      <3>1. Head(todo).what = "node"
        BY <1>5 DEF Is, MethodLike
      <3>2. ~Is(This, {"var", "ptr"} \cup ClassLike) /\ ~Is(This, Functions)
        BY DEF Is, ClassLike, Functions
      <3>3. Entered = {prog[Kids(This)[1]].name}
        BY <3>1, <3>2 DEF Entered
      <3> QED
        BY <3>3, EnteredKept
    <2>4. Is(This, MethodLike) /\ Is(Parent(This), ClassLike) => Keeps(<<"this">>)
      <3> SUFFICES ASSUME Is(This, MethodLike), Is(Parent(This), ClassLike)
                   PROVE  Keeps(<<"this">>)
        OBVIOUS
      <3>1. This # 1
        BY <1>1, ProgramIs DEF Is, MethodLike
      <3>2. Head(todo).what = "member"
        BY <1>1, <1>5, <3>1 DEF Role
      <3>3. ~Is(This, {"var"})
        BY DEF Is, MethodLike
      <3>4. Entered = {<<"this">>}
        BY <3>2, <3>3 DEF Entered
      <3> QED
        BY <3>4, EnteredKept
    <2>5. ASSUME NEW d \in Ids, d < t, Is(d, {"var", "ptr"}), Parent(d) \in Around(t)
          PROVE  \/ Keeps(prog[d].name)
                 \/ /\ Is(d, {"ptr"}) => DescentWhat = "node"
                    /\ \E j \in DOMAIN Descent : j < k /\ Descent[j] = d
      <3>1. CASE Parent(d) \in Around(This) /\ d < This
        BY <1>3, <2>5, <3>1
      <3>2. CASE d = This
        <4>1. Is(This, {"ptr"}) => Head(todo).what = "node"
          BY <1>5, <3>2, <2>5 DEF Is, MethodLike
        <4> QED
          BY <2>5, <3>2, <4>1, EntersThis
      <3>3. CASE Parent(d) \in Around(This) /\ d > This
        <4>1. This \in Around(t)
          BY <2>1, ParentOf, <1>1
        <4>2. d \in This + 1 .. t
          BY <1>1, <2>1, <2>5, <3>3
        <4>3. Parent(d) >= This
          BY <4>1, <4>2 DEF Around
        <4>4. Parent(d) < This /\ Parent(d) \in Ids
          BY <1>1, <3>3, AroundAll
        <4> QED
          BY <1>1, <4>3, <4>4
      <3>4. CASE Parent(d) = This
        <4>1. d # 1
          BY <1>1, <2>5, ProgramIs DEF Is
        <4>2. PICK m \in DOMAIN Kids(This) : Kids(This)[m] = d
          BY <1>1, <3>4, <4>1, ParentOf
        <4>3. m < l
          <5>1. m \in Nat /\ l \in Nat /\ d \in Nat /\ t \in Nat
            <6>1. Kids(This) \in Seq(Ids)
              BY <1>1, KidsAre
            <6>2. m \in Nat /\ l \in Nat
              BY <6>1
            <6> QED
              BY <1>1, <2>1, <2>5, <6>2
          <5>2. ~(l < m)
            <6>1. l < m => t < d
              BY <1>1, <1>5, <4>2, KidsAre
            <6> QED
              BY <2>5, <5>1, <6>1
          <5>3. l # m
            BY <1>5, <2>5, <4>2, <5>1
          <5> QED
            BY <5>1, <5>2, <5>3
        <4>4. Is(This, Functions \cup MethodLike \cup ClassLike) => ~Is(d, {"ptr"})
          BY <1>1, <4>2, ProgramIs
        <4>5. CASE Head(todo).what = "node" /\ Is(This, Functions)
          <5>1. ~Is(This, {"var", "ptr"} \cup ClassLike)
            BY <4>5 DEF Is, Functions, ClassLike
          <5>2. Is(d, {"var"})
            BY <2>5, <4>4, <4>5 DEF Is
          <5>3. prog[d].name \in Entered
            BY <4>2, <4>5, <5>1, <5>2 DEF Entered, Parameters
          <5> QED
            BY <5>3, EnteredKept
        <4>6. CASE /\ Descent = Kids(This) /\ l = k
                   /\ ~(Head(todo).what = "node" /\ Is(This, Functions))
          <5>1. Is(d, {"ptr"}) => DescentWhat = "node"
            BY <1>5, <4>4 DEF DescentWhat, Is
          <5> QED
            BY <4>2, <4>3, <4>6, <5>1
        <4> QED
          BY <1>5, <4>5, <4>6
      <3> QED
        <4>1. d < This \/ d = This \/ d > This
          BY <1>1
        <4> QED
          BY <2>2, <2>5, <3>1, <3>2, <3>3, <3>4, <4>1
    <2> QED
      BY <1>3, <2>2, <2>3, <2>4, <2>5
  <1>6. CASE Descent = Kids(This) /\ (\/ Head(todo).what = "node" /\ ~Is(This, Functions)
                                      \/ Head(todo).what = "member" /\ Is(This, MethodLike))
    BY <1>5, <1>6
  <1>7. CASE /\ Head(todo).what = "node" /\ Is(This, Functions)
             /\ Len(Kids(This)) \in DOMAIN Kids(This) /\ t = Kids(This)[Len(Kids(This))]
    BY <1>5, <1>7
  <1> QED
    BY <1>1, <1>4, <1>6, <1>7, DescentCases

(* What the call number c sees after a step.                               *)
LEMMA StepSees ==
  ASSUME SemanticTyped, Roles, Sees, [SemanticNext]_semanticVars, Steps,
         NEW c \in DOMAIN todo', NEW t, t = todo'[c].node
  PROVE  /\ \A d \in Ids : d < t /\ Is(d, {"var", "ptr"}) /\ Parent(d) \in Around(t) =>
              \/ Keeps(prog[d].name)
              \/ \E b \in DOMAIN todo' : /\ b < c /\ todo'[b].node = d
                                         /\ Is(d, {"ptr"}) => todo'[b].what = "node"
         /\ \A d \in Around(t) : Is(d, {"each"}) => Keeps(prog[Kids(d)[1]].name)
         /\ \A d \in Around(t) :
              Is(d, MethodLike) /\ Is(Parent(d), ClassLike) => Keeps(<<"this">>)
  <1>1. PICK scope \in Int :
          /\ \A k \in DOMAIN Descent :
               k \in DOMAIN todo' /\ todo'[k] = Call(DescentWhat, Descent[k], scope)
          /\ \A k \in DOMAIN todo' :
               \/ k \in DOMAIN Descent /\ todo'[k] = Call(DescentWhat, Descent[k], scope)
               \/ /\ (k - Len(Descent)) + 1 \in DOMAIN todo /\ (k - Len(Descent)) + 1 > 1
                  /\ k > Len(Descent) /\ todo'[k] = todo[(k - Len(Descent)) + 1]
    BY NewTodo
  <1>2. \A k \in DOMAIN Descent : /\ todo'[k].node = Descent[k]
                                  /\ todo'[k].what = DescentWhat
    <2>1. SUFFICES ASSUME NEW k \in DOMAIN Descent
                   PROVE  todo'[k].node = Descent[k] /\ todo'[k].what = DescentWhat
      OBVIOUS
    <2>2. todo'[k] = Call(DescentWhat, Descent[k], scope)
      BY <1>1
    <2> QED
      BY <2>2 DEF Call
  <1>3. CASE c \in DOMAIN Descent
    <2>1. t = Descent[c]
      BY <1>2, <1>3
    <2>2. /\ \A d \in Ids : d < t /\ Is(d, {"var", "ptr"}) /\ Parent(d) \in Around(t) =>
               \/ Keeps(prog[d].name)
               \/ /\ Is(d, {"ptr"}) => DescentWhat = "node"
                  /\ \E j \in DOMAIN Descent : j < c /\ Descent[j] = d
          /\ \A d \in Around(t) : Is(d, {"each"}) => Keeps(prog[Kids(d)[1]].name)
          /\ \A d \in Around(t) :
               Is(d, MethodLike) /\ Is(Parent(d), ClassLike) => Keeps(<<"this">>)
      BY <1>3, <2>1, NewSees
    <2>3. \A j \in DOMAIN Descent : j \in DOMAIN todo'
      BY <1>1
    <2> QED
      BY <1>2, <2>2, <2>3
  <1>4. CASE c \notin DOMAIN Descent
    <2>1. PICK a \in DOMAIN todo : /\ a > 1 /\ a = (c - Len(Descent)) + 1
                                   /\ t = todo[a].node
      BY <1>1, <1>4
    <2>2. \A n : InForce(n) => Keeps(n)
      BY ForceStays, KeepsIs
    <2>3. /\ \A d \in Ids : d < t /\ Is(d, {"var", "ptr"}) /\ Parent(d) \in Around(t) =>
               \/ InForce(prog[d].name)
               \/ \E b \in DOMAIN todo : /\ b < a /\ todo[b].node = d
                                         /\ Is(d, {"ptr"}) => todo[b].what = "node"
          /\ \A d \in Around(t) : Is(d, {"each"}) => InForce(prog[Kids(d)[1]].name)
          /\ \A d \in Around(t) :
               Is(d, MethodLike) /\ Is(Parent(d), ClassLike) => InForce(<<"this">>)
      BY <2>1 DEF Sees
    <2>4. ASSUME NEW d \in Ids, Is(d, {"var", "ptr"}),
                 NEW b \in DOMAIN todo, b < a, todo[b].node = d,
                 Is(d, {"ptr"}) => todo[b].what = "node"
          PROVE  \/ Keeps(prog[d].name)
                 \/ \E k \in DOMAIN todo' : /\ k < c /\ todo'[k].node = d
                                            /\ Is(d, {"ptr"}) => todo'[k].what = "node"
      <3>1. todo # <<>> /\ Head(todo) = todo[1] /\ This = todo[1].node
        BY HeadIs DEF Steps
      <3>2. CASE b = 1
        BY <2>4, <3>1, <3>2, EntersThis
      <3>3. CASE b > 1
        <4>1. /\ (b + Len(Descent)) - 1 \in DOMAIN todo'
              /\ todo'[(b + Len(Descent)) - 1] = todo[b]
          BY <3>3, NewTodo
        <4>2. Len(Descent) \in Nat /\ b \in Nat /\ a \in Nat /\ c \in Nat
          BY <3>1, DescentIs, NewTodo DEF SemanticTyped
        <4>3. (b + Len(Descent)) - 1 < c
          BY <2>1, <2>4, <4>2
        <4> QED
          BY <2>4, <4>1, <4>3
      <3>4. b \in Nat /\ b >= 1
        BY DEF SemanticTyped
      <3> QED
        BY <3>2, <3>3, <3>4
    <2> QED
      BY <2>2, <2>3, <2>4
  <1> QED
    BY <1>3, <1>4

(* This holds after every step.                                           *)
LEMMA SeesStep ==
  ASSUME SemanticTyped, Roles, Sees, [SemanticNext]_semanticVars
  PROVE  Sees'
  <1>1. CASE Quiet
    <2>1. prog' = prog /\ todo' = todo
      BY <1>1 DEF Quiet
    <2>2. \A n : InForce(n) => InForce(n)'
      BY ForceStays
    <2> QED
      BY <2>1, <2>2, SameTree DEF Sees, Is
  <1>2. CASE LibraryDone \/ Collects
    <2>1. todo = <<>> /\ todo' = todo
      BY <1>2 DEF SemanticTyped, LibraryDone, Collects
    <2> QED
      BY <2>1 DEF Sees
  <1>3. CASE CollectDone
    <2>1. prog' = prog /\ todo' = <<Call("node", 1, Global)>>
      BY <1>3 DEF CollectDone
    <2>2. \A a \in DOMAIN todo' : todo'[a].node = 1
      BY <2>1 DEF Call
    <2>3. Ids \subseteq Nat \ {0} /\ Around(1) = {} /\ 1 \in Ids
      BY ProgramIs, AroundAll DEF SemanticTyped
    <2>4. \A d \in Ids : ~(d < 1)
      BY <2>3
    <2> QED
      BY <2>1, <2>2, <2>3, <2>4, SameTree DEF Sees
  <1>4. CASE Steps
    <2>1. prog' = prog
      BY <1>4 DEF Steps
    <2>2. SUFFICES ASSUME NEW c \in DOMAIN todo', NEW t, t = todo'[c].node
          PROVE  /\ \A d \in Ids : d < t /\ Is(d, {"var", "ptr"}) /\ Parent(d) \in Around(t) =>
                      \/ Keeps(prog[d].name)
                      \/ \E b \in DOMAIN todo' : /\ b < c /\ todo'[b].node = d
                                                 /\ Is(d, {"ptr"}) => todo'[b].what = "node"
                 /\ \A d \in Around(t) : Is(d, {"each"}) => Keeps(prog[Kids(d)[1]].name)
                 /\ \A d \in Around(t) :
                      Is(d, MethodLike) /\ Is(Parent(d), ClassLike) => Keeps(<<"this">>)
      BY <2>1, KeepsIs, SameTree DEF Sees, Is
    <2> QED
      BY <1>4, <2>2, StepSees, Zenon
  <1> QED
    BY <1>1, <1>2, <1>3, <1>4, NextIs

-----------------------------------------------------------------------------
(* What stands in its scope is in the table when it is looked up.          *)
LEMMA InScopeKnown ==
  ASSUME SemanticTyped, Collected, Sees, pass = "check", todo # <<>>, NEW n,
         Hoisted(n) \/ InScope(This, n)
  PROVE  InForce(n)
  <1>1. prog \in Programs /\ This \in Ids /\ This \in Nat /\ Ids = 1 .. Len(prog)
    BY HeadIs, ProgramIs DEF SemanticTyped
  <1>2. CASE Hoisted(n)
    BY <1>2, HoistedIs DEF Collected
  <1>3. ASSUME NEW d \in 1 .. This - 1, Declares(d, n), Parent(d) \in Around(This)
        PROVE  InForce(n)
    <2>1. d \in Ids /\ d < This /\ Is(d, {"var", "ptr"}) /\ prog[d].name = n
      BY <1>1, <1>3, ProgramIs DEF Declares
    <2> QED
      BY <1>3, <2>1, FirstSees
  <1>4. ASSUME NEW d \in Around(This), Is(d, {"each"}), prog[Kids(d)[1]].name = n
        PROVE  InForce(n)
    BY <1>4, FirstSees
  <1>5. ASSUME NEW d \in Around(This), Is(d, MethodLike), Is(Parent(d), ClassLike),
               n = <<"this">>
        PROVE  InForce(n)
    BY <1>5, FirstSees
  <1> QED
    BY <1>2, <1>3, <1>4, <1>5 DEF InScope

(* So a name in its scope is not reported.                                *)
LEMMA AcceptedStep ==
  ASSUME SemanticTyped, Collected, Sees, NamesAccepted, [SemanticNext]_semanticVars
  PROVE  NamesAccepted'
  <1>1. Full => Full'
    BY FullStays
  <1>2. ASSUME prog' = prog
        PROVE  \A i : Hoisted(prog[i].name)' \/ InScope(i, prog[i].name)'
                        => Hoisted(prog[i].name) \/ InScope(i, prog[i].name)
    BY <1>2, SameTree DEF InScope, Declares, Is
  <1>3. CASE prog' = prog /\ bad' = bad
    BY <1>1, <1>2, <1>3 DEF NamesAccepted
  <1>4. CASE Steps /\ Reports
    <2>1. prog' = prog /\ pass = "check" /\ todo # <<>>
      BY <1>4 DEF Steps
    <2>2. SUFFICES ASSUME NEW i \in bad',
                          Hoisted(prog[i].name) \/ InScope(i, prog[i].name)
                   PROVE  Full'
      BY <1>2, <2>1 DEF NamesAccepted
    <2>3. i \in bad \/ (i = This /\ ~Holds(syms, prog[This].name))
      BY <1>4 DEF Reports
    <2>4. CASE i \in bad
      BY <1>1, <2>2, <2>4 DEF NamesAccepted
    <2>5. CASE i = This /\ ~Holds(syms, prog[This].name)
      BY <1>1, <2>1, <2>2, <2>5, InScopeKnown DEF InForce
    <2> QED
      BY <2>3, <2>4, <2>5
  <1>5. Quiet \/ LibraryDone \/ Collects \/ CollectDone => prog' = prog /\ bad' = bad
    BY DEF Quiet, LibraryDone, Collects, CollectDone
  <1> QED
    BY <1>3, <1>4, <1>5, NextIs

-----------------------------------------------------------------------------
(* What holds in every state.                                              *)
SemanticInv ==
  /\ SemanticTyped /\ Collected /\ InOrder /\ Roles
  /\ Origins /\ Refuses /\ Notices /\ Sees /\ NamesAccepted

(* It holds in the beginning, and after every step.                       *)
LEMMA InvInit == SemanticInit => SemanticInv
  <1> SUFFICES ASSUME SemanticInit PROVE SemanticInv
    OBVIOUS
  <1>1. pass = "library" /\ todo = <<>> /\ syms = <<>> /\ bad = {} /\ at = 1
    BY DEF SemanticInit
  <1>2. Collected
    BY <1>1 DEF Collected
  <1>3. InOrder /\ Roles /\ Sees
    BY <1>1 DEF InOrder, Roles, Sees
  <1>4. Origins
    BY <1>1 DEF Origins
  <1>5. Refuses /\ Notices
    BY <1>1 DEF Refuses, Notices
  <1>6. NamesAccepted
    BY <1>1 DEF NamesAccepted
  <1> QED
    BY <1>2, <1>3, <1>4, <1>5, <1>6, TypedInit DEF SemanticInv

LEMMA InvStep ==
  ASSUME SemanticInv, [SemanticNext]_semanticVars
  PROVE  SemanticInv'
  <1>1. /\ SemanticTyped /\ Collected /\ InOrder /\ Roles
        /\ Origins /\ Refuses /\ Notices /\ Sees /\ NamesAccepted
    BY DEF SemanticInv
  <1>2. SemanticTyped' /\ Collected' /\ InOrder' /\ Roles'
    BY <1>1, TypedStep, CollectedStep, InOrderStep, RolesStep
  <1>3. Origins' /\ Refuses' /\ Notices'
    BY <1>1, OriginsStep, RefusesStep, NoticesStep
  <1>4. Sees' /\ NamesAccepted'
    BY <1>1, SeesStep, AcceptedStep
  <1> QED
    BY <1>2, <1>3, <1>4 DEF SemanticInv

(* The check keeps a table of at most SYM_MAX symbols, a list of calls to  *)
(* come that are nodes of the tree, and no call and no error before it     *)
(* begins: with it, all of SemanticInv.                                    *)
THEOREM SemanticInvariant == SemanticSpec => [](SemanticInv)
  <1>1. SemanticInv /\ [SemanticNext]_semanticVars => SemanticInv'
    BY InvStep
  <1> QED
    BY <1>1, InvInit, PTL DEF SemanticSpec

(* NamesAccepted: no name in its scope is reported, in any program whose   *)
(* tree is one the parser makes, while the table has room.                 *)
THEOREM LegalNamesAccepted == SemanticSpec => []NamesAccepted
  <1>1. SemanticInv => NamesAccepted
    BY DEF SemanticInv
  <1> QED
    BY <1>1, SemanticInvariant, PTL

(* DuplicatesNoticed: when the check ends, every second declaration of a   *)
(* name in one list of statements has been noticed.                        *)
THEOREM TwinsNoticed == SemanticSpec => []DuplicatesNoticed
  <1>1. SemanticInv => DuplicatesNoticed
    <2> SUFFICES ASSUME SemanticInv, pass = "done",
                        NEW d \in Ids \ {1}, NEW e \in Ids \ {1},
                        d < e, Checked(e), Parent(d) = Parent(e),
                        ~Is(Parent(d), Functions \cup MethodLike \cup ClassLike),
                        \E name \in {prog[d].name} : Declares(d, name) /\ Declares(e, name)
                 PROVE  e \in twice \/ Full
      BY DEF DuplicatesNoticed
    <2>1. todo = <<>>
      BY DEF SemanticInv, SemanticTyped
    <2>2. Twins(d, e)
      BY DEF Twins
    <2>3. Noticing(d, e)
      BY <2>2 DEF SemanticInv, Notices
    <2>4. DOMAIN todo = {}
      BY <2>1
    <2>5. ~Awaited(Parent(e)) /\ ~Comes(d, e)
      BY <2>4 DEF Awaited, Comes
    <2> QED
      BY <2>3, <2>5 DEF Noticing
  <1> QED
    BY <1>1, SemanticInvariant, PTL

(* UndeclaredRefused: a program that passes without C headers uses no name *)
(* that nothing declares before the use.                                   *)
THEOREM UndeclaredNamesRefused == SemanticSpec => []UndeclaredRefused
  <1>1. SemanticInv => UndeclaredRefused
    <2> SUFFICES ASSUME SemanticInv, pass = "done", bad = {}, ~CHeaders,
                        NEW i \in Ids, Looked(i), Checked(i),
                        NEW n, n = prog[i].name
                 PROVE  \/ Hoisted(n) \/ n = <<"this">>
                        \/ \E d \in 1 .. i - 1 : Declares(d, n)
                        \/ \E d \in 1 .. i - 1 : /\ Is(d, {"each"}) /\ Kids(d) # <<>>
                                                 /\ prog[Kids(d)[1]].name = n
      BY DEF UndeclaredRefused
    <2>1. DOMAIN todo = {}
      BY DEF SemanticInv, SemanticTyped
    <2>2. ~Awaited(i)
      BY <2>1 DEF Awaited
    <2>3. Known(i)
      BY <2>2 DEF SemanticInv, Refuses
    <2> QED
      BY <2>3 DEF Known, Origin
  <1> QED
    BY <1>1, SemanticInvariant, PTL

=============================================================================
