----------------------------- MODULE CTryProofs -----------------------------
(***************************************************************************)
(* Theorems about CTry: types, that the chain of contexts is that of the   *)
(* bodies that are running, which clause runs, what is thrown again, and   *)
(* that Finally is passed.                                                 *)
(***************************************************************************)
EXTENDS CTry, TLAPS

----------------------------------------------------------------------------
\* Chains over any sequence of blocks.

Chained(s, c) ==
  /\ IsTop(s, Len(s), c)
  /\ \A i \in Bodies(s, Len(s)) : IsTop(s, i - 1, s[i].prev)

\* s and t have the same bodies at the same places up to n.
Agree(s, t, n) ==
  \A k \in 1..n :
    /\ InBody(t[k]) <=> InBody(s[k])
    /\ InBody(s[k]) => t[k].id = s[k].id /\ t[k].prev = s[k].prev

NoBody(s, from) == \A k \in from..Len(s) : ~InBody(s[k])

LEMMA BodiesUpTo ==
  ASSUME NEW s, NEW t, NEW n \in Nat, Agree(s, t, n)
  PROVE  /\ Bodies(t, n) = Bodies(s, n)
         /\ \A m \in 0..n : Bodies(t, m) = Bodies(s, m)
         /\ \A m \in 0..n : \A c : IsTop(s, m, c) => IsTop(t, m, c)
  <1>1. \A m \in 0..n : Bodies(t, m) = Bodies(s, m)
    BY DEF Bodies, Agree
  <1>2. ASSUME NEW m \in 0..n, NEW c, IsTop(s, m, c) PROVE IsTop(t, m, c)
    <2>1. CASE Bodies(s, m) = {} /\ c = NoTry
      BY <2>1, <1>1 DEF IsTop
    <2>2. CASE \E k \in Bodies(s, m) :
                 c = s[k].id /\ \A j \in Bodies(s, m) : j <= k
      <3>1. PICK k \in Bodies(s, m) :
                   c = s[k].id /\ \A j \in Bodies(s, m) : j <= k
        BY <2>2
      <3>2. t[k].id = s[k].id
        BY <3>1 DEF Bodies, Agree
      <3> QED
        BY <3>1, <3>2, <1>1 DEF IsTop
    <2> QED
      BY <1>2, <2>1, <2>2 DEF IsTop
  <1> QED
    BY <1>1, <1>2

\* Blocks that are no running bodies do not count.
LEMMA TopOfMore ==
  ASSUME NEW s, NEW m \in Nat, NEW n \in Nat, m <= n, NEW c,
         \A k \in (m + 1)..n : ~InBody(s[k])
  PROVE  /\ Bodies(s, n) = Bodies(s, m)
         /\ IsTop(s, m, c) <=> IsTop(s, n, c)
  <1>1. Bodies(s, n) = Bodies(s, m)
    BY DEF Bodies
  <1> QED
    BY <1>1 DEF IsTop

\* The blocks above m change, none of them a running body before or after.
LEMMA ChainKept ==
  ASSUME NEW S, NEW s \in Seq(S), NEW T, NEW t \in Seq(T), NEW m \in Nat,
         m <= Len(s), m <= Len(t), Agree(s, t, m),
         NoBody(s, m + 1), NoBody(t, m + 1),
         NEW c, Chained(s, c)
  PROVE  Chained(t, c)
  <1>0. Len(s) \in Nat /\ Len(t) \in Nat
    OBVIOUS
  <1>1. /\ Bodies(s, Len(s)) = Bodies(s, m)
        /\ IsTop(s, m, c)
    BY <1>0, TopOfMore DEF NoBody, Chained
  <1>2. /\ Bodies(t, m) = Bodies(s, m)
        /\ IsTop(t, m, c)
    BY <1>1, BodiesUpTo
  <1>3. /\ Bodies(t, Len(t)) = Bodies(t, m)
        /\ IsTop(t, Len(t), c)
    BY <1>0, <1>2, TopOfMore DEF NoBody
  <1>4. ASSUME NEW i \in Bodies(t, Len(t)) PROVE IsTop(t, i - 1, t[i].prev)
    <2>1. i \in Bodies(s, Len(s)) /\ i \in 1..m /\ InBody(s[i])
      BY <1>1, <1>2, <1>3 DEF Bodies
    <2>2. IsTop(s, i - 1, s[i].prev) /\ t[i].prev = s[i].prev
      BY <2>1 DEF Chained, Agree
    <2> QED
      BY <2>1, <2>2, BodiesUpTo
  <1> QED
    BY <1>3, <1>4 DEF Chained

\* The innermost running body and all above it give way to blocks that are no
\* bodies: the chain goes on with the context that was under it.
LEMMA ChainPopped ==
  ASSUME NEW S, NEW s \in Seq(S), NEW T, NEW t \in Seq(T),
         NEW i \in Bodies(s, Len(s)), NoBody(s, i + 1), i - 1 <= Len(t),
         Agree(s, t, i - 1), NoBody(t, i),
         NEW c, Chained(s, c)
  PROVE  Chained(t, s[i].prev)
  <1>0. Len(s) \in Nat /\ Len(t) \in Nat /\ i \in 1..Len(s) /\ i - 1 \in Nat
    BY DEF Bodies
  <1>1. IsTop(s, i - 1, s[i].prev)
    BY DEF Chained
  <1>2. /\ Bodies(t, i - 1) = Bodies(s, i - 1)
        /\ IsTop(t, i - 1, s[i].prev)
    BY <1>0, <1>1, BodiesUpTo
  <1>3. \A k \in ((i - 1) + 1)..Len(t) : ~InBody(t[k])
    BY <1>0 DEF NoBody
  <1>4. /\ Bodies(t, Len(t)) = Bodies(t, i - 1)
        /\ IsTop(t, Len(t), s[i].prev)
    BY <1>0, <1>2, <1>3, TopOfMore
  <1>5. ASSUME NEW j \in Bodies(t, Len(t)) PROVE IsTop(t, j - 1, t[j].prev)
    <2>1. j \in Bodies(s, i - 1) /\ j \in 1..(i - 1) /\ InBody(s[j])
      BY <1>2, <1>4, <1>5 DEF Bodies
    <2>2. j \in Bodies(s, Len(s))
      BY <2>1, <1>0 DEF Bodies
    <2>3. IsTop(s, j - 1, s[j].prev) /\ t[j].prev = s[j].prev
      BY <2>1, <2>2 DEF Chained, Agree
    <2> QED
      BY <1>0, <2>1, <2>3, BodiesUpTo
  <1> QED
    BY <1>4, <1>5 DEF Chained

\* A body is entered: its context is put on top.
LEMMA ChainPushed ==
  ASSUME NEW S, NEW s \in Seq(S), NEW b, InBody(b), NEW c, Chained(s, c),
         b.prev = c
  PROVE  Chained(Append(s, b), b.id)
  <1> DEFINE t == Append(s, b)
  <1>0. Len(s) \in Nat /\ Len(t) = Len(s) + 1 /\ t[Len(s) + 1] = b
        /\ \A k \in 1..Len(s) : t[k] = s[k]
    OBVIOUS
  <1> HIDE DEF t
  <1>1. Agree(s, t, Len(s))
    BY <1>0 DEF Agree
  <1>2. IsTop(t, Len(s), c)
    BY <1>0, <1>1, BodiesUpTo DEF Chained
  <1>3. Len(t) \in Bodies(t, Len(t)) /\ \A j \in Bodies(t, Len(t)) : j <= Len(t)
    BY <1>0 DEF Bodies
  <1>4. IsTop(t, Len(t), b.id)
    BY <1>0, <1>3 DEF IsTop
  <1>5. ASSUME NEW j \in Bodies(t, Len(t)) PROVE IsTop(t, j - 1, t[j].prev)
    <2>1. CASE j = Len(t)
      BY <2>1, <1>0, <1>2
    <2>2. CASE j # Len(t)
      <3>1. j \in Bodies(s, Len(s)) /\ j \in 1..Len(s) /\ InBody(s[j])
        BY <1>0, <1>5, <2>2 DEF Bodies
      <3>2. IsTop(s, j - 1, s[j].prev) /\ t[j].prev = s[j].prev
        BY <1>0, <3>1 DEF Chained
      <3> QED
        BY <1>0, <1>1, <3>1, <3>2, BodiesUpTo
    <2> QED
      BY <2>1, <2>2
  <1> QED
    BY <1>4, <1>5 DEF Chained, t
----------------------------------------------------------------------------
\* The invariant.

Blocks == {Function, Loop} \cup TryBlocks

\* A context belongs to one block.
Ids ==
  \A i \in 1..Len(open) :
    open[i].kind = "try" =>
      /\ open[i].id <= tries
      /\ \A k \in 1..Len(open) :
           open[k].kind = "try" /\ open[k].id = open[i].id => k = i

\* Only the innermost Try can be between two of its parts.
PartsInside ==
  \A i \in 1..(Len(open) - 1) :
    open[i].kind = "try" => open[i].stage \in {"body", "catch", "finally"}

ChainInv == Running /\ ~escaped => Chained(open, chain)

IInv == TypeOK /\ Ids /\ PartsInside /\ HandlersLive

LEMMA HandlersAsChain == HandlersLive <=> (phase = "wild" => escaped) /\ ChainInv
  BY DEF HandlersLive, ChainInv, Chained

LEMMA BlockKinds ==
  /\ Function.kind = "fn" /\ Loop.kind = "loop"
  /\ \A b \in TryBlocks : b.kind = "try" /\ b \notin {Function, Loop}
  /\ \A b \in Blocks : b.kind = "try" => b \in TryBlocks
  BY DEF Function, Loop, TryBlocks, Blocks

LEMMA HereFacts ==
  ASSUME TypeOK, Running
  PROVE  /\ Len(open) \in Nat \ {0} /\ open \in Seq(Blocks) /\ Here \in Blocks
         /\ Len(open) \in 1..Len(open)
         /\ open[1] = Function
         /\ Here.kind = "try" => Here \in TryBlocks /\ Len(open) > 1
  <1>1. open \in Seq(Blocks) /\ open # <<>> /\ open[1] = Function
    BY DEF TypeOK, Blocks
  <1>2. Len(open) \in Nat \ {0}
    BY <1>1
  <1>3. Here \in Blocks
    BY <1>1, <1>2 DEF Here
  <1> QED
    BY <1>1, <1>2, <1>3, BlockKinds DEF Here

\* A part of the innermost Try ends: its block changes, the others do not.
LEMMA HereReplaced ==
  ASSUME TypeOK, Ids, PartsInside, Running, Here.kind = "try",
         NEW b \in TryBlocks, b.id = Here.id, b.prev = Here.prev,
         open' = [open EXCEPT ![Len(open)] = b], tries' = tries
  PROVE  /\ open' \in Seq(Blocks) /\ Len(open') = Len(open)
         /\ open' # <<>> /\ open'[1] = Function
         /\ open'[Len(open)] = b
         /\ \A k \in 1..(Len(open) - 1) : open'[k] = open[k]
         /\ Ids' /\ PartsInside'
         /\ Agree(open, open', Len(open) - 1)
  <1>1. /\ Len(open) \in Nat /\ Len(open) > 1 /\ open \in Seq(Blocks)
        /\ Here \in TryBlocks /\ open[1] = Function
    BY HereFacts
  <1>2. b \in Blocks
    BY DEF Blocks
  <1>len. Len(open') = Len(open)
    BY <1>1, <1>2
  <1>3. /\ open' \in Seq(Blocks) /\ Len(open') = Len(open)
        /\ open'[Len(open)] = b
        /\ \A k \in 1..(Len(open) - 1) : open'[k] = open[k]
    BY <1>1, <1>2
  <1>4. open' # <<>> /\ open'[1] = Function
    <2>1. 1 \in 1..(Len(open) - 1)
      BY <1>1
    <2>0. Len(open) > 1
      BY <1>1
    <2>2. Len(open') > 1
      BY <1>len, <2>0
    <2>3. open' # <<>>
      BY <2>2
    <2> QED
      BY <1>1, <1>3, <2>1, <2>3
  <1>5. b.kind = "try"
    BY BlockKinds
  <1>6. \A k \in 1..Len(open) :
           /\ open'[k].kind = "try" <=> open[k].kind = "try"
           /\ open[k].kind = "try" => open'[k].id = open[k].id
    <2> SUFFICES ASSUME NEW k \in 1..Len(open)
                 PROVE  /\ open'[k].kind = "try" <=> open[k].kind = "try"
                        /\ open[k].kind = "try" => open'[k].id = open[k].id
      OBVIOUS
    <2>1. CASE k = Len(open)
      BY <2>1, <1>3, <1>5 DEF Here
    <2>2. CASE k # Len(open)
      <3>1. k \in 1..(Len(open) - 1)
        BY <1>1, <2>2
      <3> QED
        BY <3>1, <1>3
    <2> QED
      BY <2>1, <2>2
  <1>7. Ids'
    BY <1>3, <1>6 DEF Ids
  <1>8. PartsInside'
    BY <1>1, <1>3 DEF PartsInside
  <1>9. Agree(open, open', Len(open) - 1)
    BY <1>1, <1>3 DEF Agree
  <1> QED
    BY <1>3, <1>4, <1>7, <1>8, <1>9

\* Such a step keeps the chain unless it ends a body.
LEMMA ReplacedKeepsChain ==
  ASSUME TypeOK, Ids, PartsInside, Running, Here.kind = "try",
         NEW b \in TryBlocks, b.id = Here.id, b.prev = Here.prev,
         open' = [open EXCEPT ![Len(open)] = b], tries' = tries,
         ~InBody(Here), ~InBody(b), HandlersLive, UNCHANGED <<chain, phase, escaped>>
  PROVE  HandlersLive'
  <1>1. /\ Len(open) \in Nat /\ Len(open) > 1 /\ open \in Seq(Blocks)
    BY HereFacts
  <1>2. /\ open' \in Seq(Blocks) /\ Len(open') = Len(open)
        /\ open'[Len(open)] = b
        /\ Agree(open, open', Len(open) - 1)
    BY HereReplaced
  <1>3. NoBody(open, (Len(open) - 1) + 1) /\ NoBody(open', (Len(open) - 1) + 1)
    <2>1. \A k \in ((Len(open) - 1) + 1)..Len(open) : k = Len(open)
      BY <1>1
    <2> QED
      BY <1>2, <2>1 DEF NoBody, Here
  <1>4. ASSUME ~escaped PROVE Chained(open', chain)
    <2>1. Chained(open, chain)
      BY <1>4, HandlersAsChain DEF ChainInv
    <2>2. Len(open) - 1 \in Nat /\ Len(open) - 1 <= Len(open)
      BY <1>1
    <2> HIDE DEF HandlersLive
    <2> QED
      BY <1>1, <1>2, <1>3, <2>1, <2>2, ChainKept
  <1>5. ChainInv'
    BY <1>4 DEF ChainInv, Running
  <1>6. (phase = "wild" => escaped)'
    BY HandlersAsChain
  <1> QED
    BY <1>5, <1>6, HandlersAsChain DEF HandlersLive, ChainInv, Chained
----------------------------------------------------------------------------
\* A block is entered.
LEMMA BlockAdded ==
  ASSUME IInv, InBlock, NEW b \in Blocks, open' = Append(open, b)
  PROVE  /\ open' \in Seq(Blocks) /\ open' # <<>> /\ open'[1] = Function
         /\ Len(open') = Len(open) + 1 /\ open'[Len(open) + 1] = b
         /\ \A k \in 1..Len(open) : open'[k] = open[k]
         /\ PartsInside'
  <1>1. Running
    BY DEF InBlock
  <1>2. /\ Len(open) \in Nat \ {0} /\ open \in Seq(Blocks) /\ open[1] = Function
        /\ Len(open) \in 1..Len(open)
    BY <1>1, HereFacts DEF IInv
  <1>3. /\ open' \in Seq(Blocks)
        /\ Len(open') = Len(open) + 1 /\ open'[Len(open) + 1] = b
        /\ \A k \in 1..Len(open) : open'[k] = open[k]
    BY <1>2
  <1>4. 1 \in 1..Len(open)
    BY <1>2
  <1>5. open'[1] = Function
    BY <1>2, <1>3, <1>4
  <1>6. open' # <<>>
    <2>1. Len(open) \in Nat /\ Len(open') = Len(open) + 1
      BY <1>2, <1>3
    <2>2. Len(open') # 0
      BY <2>1
    <2> QED
      BY <2>2
  <1>7. ASSUME NEW k \in 1..(Len(open') - 1), open'[k].kind = "try"
        PROVE  open'[k].stage \in {"body", "catch", "finally"}
    <2>1. k \in 1..Len(open) /\ open'[k] = open[k]
      BY <1>2, <1>3
    <2>2. CASE k = Len(open)
      BY <1>7, <2>1, <2>2 DEF InBlock, Here
    <2>3. CASE k # Len(open)
      <3>1. k \in 1..(Len(open) - 1)
        BY <1>2, <2>1, <2>3
      <3> QED
        BY <1>7, <2>1, <3>1 DEF IInv, PartsInside
    <2> QED
      BY <2>2, <2>3
  <1>8. PartsInside'
    BY <1>7 DEF PartsInside
  <1> QED
    BY <1>3, <1>5, <1>6, <1>8

LEMMA EnterTryInv ==
  ASSUME IInv, NEW names \in Clauses, NEW finally \in BOOLEAN,
         EnterTry(names, finally)
  PROVE  IInv'
  <1> DEFINE b == TryBlock(names, finally)
  <1>1. TypeOK /\ Running /\ InBlock /\ tries' = tries + 1 /\ chain' = tries + 1
        /\ open' = Append(open, b) /\ UNCHANGED <<code, phase, escaped>>
        /\ tries \in 0..MaxTries /\ tries < MaxTries /\ MaxTries \in Nat
    BY TryAssumption DEF EnterTry, InBlock, IInv, TypeOK
  <1>2. tries + 1 \in 1..MaxTries /\ tries \in Nat
    BY <1>1
  <1>3. b \in TryBlocks
    BY <1>1, <1>2 DEF TryBlock, TryBlocks, TypeOK, Stages
  <1>4. b.kind = "try" /\ b.id = tries + 1 /\ b.prev = chain /\ b.stage = "body"
    BY DEF TryBlock
  <1> HIDE DEF b
  <1>5. b \in Blocks
    BY <1>3 DEF Blocks
  <1>6. /\ open' \in Seq(Blocks) /\ open' # <<>> /\ open'[1] = Function
        /\ Len(open') = Len(open) + 1 /\ open'[Len(open) + 1] = b
        /\ \A k \in 1..Len(open) : open'[k] = open[k]
        /\ PartsInside'
    BY <1>1, <1>5, BlockAdded
  <1>7. Len(open) \in Nat /\ open \in Seq(Blocks)
    BY <1>1, HereFacts
  <1>8. TypeOK'
    BY <1>1, <1>2, <1>6 DEF TypeOK, Blocks, Running
  <1>9. ASSUME NEW i \in 1..Len(open'), open'[i].kind = "try"
        PROVE  /\ open'[i].id <= tries'
               /\ \A k \in 1..Len(open') :
                    open'[k].kind = "try" /\ open'[k].id = open'[i].id => k = i
    <2>1. \A k \in 1..Len(open) :
            open[k].kind = "try" => open[k].id \in Nat /\ open[k].id <= tries
      <3> SUFFICES ASSUME NEW k \in 1..Len(open), open[k].kind = "try"
                   PROVE  open[k].id \in Nat /\ open[k].id <= tries
        OBVIOUS
      <3>1. open[k] \in TryBlocks
        BY <1>7, BlockKinds
      <3> QED
        BY <3>1 DEF TryBlocks, IInv, Ids
    <2>2. \A k \in 1..Len(open') : k \in 1..Len(open) \/ k = Len(open) + 1
      BY <1>6, <1>7
    <2>3. CASE i = Len(open) + 1
      <3>1. \A k \in 1..Len(open) : open[k].kind = "try" => open[k].id # tries + 1
        BY <1>2, <2>1
      <3> QED
        BY <1>1, <1>2, <1>4, <1>6, <2>2, <2>3, <3>1
    <2>4. CASE i \in 1..Len(open)
      <3>1. open[i].kind = "try" /\ open[i].id <= tries /\ open[i].id \in Nat
        BY <1>6, <1>9, <2>1, <2>4
      <3>2. open[i].id # tries + 1 /\ open[i].id <= tries + 1
        BY <1>2, <3>1
      <3>3. \A k \in 1..Len(open) :
              open[k].kind = "try" /\ open[k].id = open[i].id => k = i
        BY <2>4, <3>1 DEF IInv, Ids
      <3> QED
        BY <1>1, <1>4, <1>6, <2>2, <2>4, <3>2, <3>3
    <2> QED
      BY <2>2, <2>3, <2>4
  <1>10. Ids'
    BY <1>9 DEF Ids
  <1>11. ChainInv'
    <2>1. ASSUME ~escaped PROVE Chained(open, chain)
      BY <1>1, <2>1, HandlersAsChain DEF ChainInv, IInv
    <2>2. InBody(b)
      BY <1>4 DEF InBody
    <2>3. ASSUME ~escaped PROVE Chained(Append(open, b), b.id)
      BY <1>4, <1>7, <2>1, <2>2, <2>3, ChainPushed
    <2> QED
      BY <1>1, <1>4, <2>3 DEF ChainInv
  <1>12. HandlersLive'
    <2>1. (phase = "wild" => escaped)'
      BY <1>1 DEF Running
    <2> QED
      BY <1>11, <2>1 DEF HandlersLive, ChainInv, Chained
  <1> QED
    BY <1>6, <1>8, <1>10, <1>12 DEF IInv

LEMMA EnterInv ==
  ASSUME IInv, NEW b \in {Function, Loop}, Enter(b)
  PROVE  IInv'
  <1>1. /\ TypeOK /\ Running /\ InBlock /\ open' = Append(open, b)
        /\ UNCHANGED <<chain, code, phase, tries, escaped>>
    BY DEF Enter, InBlock, IInv
  <1>2. b \in Blocks
    BY DEF Blocks
  <1>3. /\ open' \in Seq(Blocks) /\ open' # <<>> /\ open'[1] = Function
        /\ Len(open') = Len(open) + 1 /\ open'[Len(open) + 1] = b
        /\ \A k \in 1..Len(open) : open'[k] = open[k]
        /\ PartsInside'
    BY <1>1, <1>2, BlockAdded
  <1>4. Len(open) \in Nat /\ open \in Seq(Blocks)
    BY <1>1, HereFacts
  <1>5. TypeOK'
    BY <1>1, <1>3 DEF TypeOK, Blocks, Running
  <1>6. b.kind # "try"
    BY BlockKinds
  <1>7. ASSUME NEW k \in 1..Len(open'), open'[k].kind = "try"
        PROVE  k \in 1..Len(open) /\ open'[k] = open[k]
    <2>1. k \in 1..Len(open) \/ k = Len(open) + 1
      BY <1>3, <1>4
    <2> QED
      BY <1>3, <1>6, <1>7, <2>1
  <1>8. Ids'
    BY <1>1, <1>7 DEF Ids, IInv
  <1>9. ASSUME ~escaped PROVE Chained(open', chain)
    <2>1. Chained(open, chain)
      BY <1>1, <1>9, HandlersAsChain DEF ChainInv, IInv
    <2>2. Agree(open, open', Len(open))
      BY <1>3 DEF Agree
    <2>3. NoBody(open, Len(open) + 1) /\ NoBody(open', Len(open) + 1)
      <3>1. \A k \in (Len(open) + 1)..Len(open) : FALSE
        BY <1>4
      <3>2. \A k \in (Len(open) + 1)..Len(open') : k = Len(open) + 1
        BY <1>3, <1>4
      <3> QED
        BY <1>3, <1>6, <3>1, <3>2 DEF NoBody, InBody
    <2>4. Len(open) <= Len(open) /\ Len(open) <= Len(open')
      BY <1>3, <1>4
    <2> QED
      BY <1>3, <1>4, <2>1, <2>2, <2>3, <2>4, ChainKept
  <1>10. HandlersLive'
    BY <1>1, <1>9 DEF HandlersLive, Chained, Running
  <1> QED
    BY <1>3, <1>5, <1>8, <1>10 DEF IInv

\* Blocks are left from the inside up to the n-th.
LEMMA BlocksLeft ==
  ASSUME IInv, Running, NEW n \in 1..Len(open), open' = SubSeq(open, 1, n),
         UNCHANGED <<chain, code, phase, tries>>, escaped' \in BOOLEAN,
         escaped' \/ (~escaped /\ NoBody(open, n + 1))
  PROVE  IInv'
  <1>1. /\ TypeOK /\ Len(open) \in Nat \ {0} /\ open \in Seq(Blocks)
        /\ open[1] = Function
    BY HereFacts DEF IInv
  <1>2. /\ open' \in Seq(Blocks) /\ Len(open') = n
        /\ \A k \in 1..n : open'[k] = open[k]
    BY <1>1
  <1>3. open' # <<>> /\ open'[1] = Function
    BY <1>1, <1>2
  <1>4. TypeOK'
    BY <1>1, <1>2, <1>3 DEF TypeOK, Blocks, Running
  <1>5. 1..n \subseteq 1..Len(open) /\ 1..(n - 1) \subseteq 1..(Len(open) - 1)
    BY <1>1
  <1>6. Ids'
    BY <1>2, <1>5 DEF Ids, IInv
  <1>7. PartsInside'
    <2>1. \A k \in 1..(n - 1) : k \in 1..n
      OBVIOUS
    <2> QED
      BY <1>2, <1>5, <2>1 DEF PartsInside, IInv
  <1>8. ASSUME ~escaped' PROVE Chained(open', chain)
    <2>1. ~escaped /\ NoBody(open, n + 1)
      BY <1>8
    <2>2. Chained(open, chain)
      BY <2>1, HandlersAsChain DEF ChainInv, IInv
    <2>3. Agree(open, open', n)
      BY <1>2 DEF Agree
    <2>4. NoBody(open', n + 1)
      BY <1>2 DEF NoBody
    <2>5. n \in Nat /\ n <= Len(open) /\ n <= Len(open')
      BY <1>2
    <2> QED
      BY <1>1, <1>2, <2>1, <2>2, <2>3, <2>4, <2>5, ChainKept
  <1>9. HandlersLive'
    BY <1>8 DEF HandlersLive, Chained, Running
  <1> QED
    BY <1>4, <1>6, <1>7, <1>9 DEF IInv

\* A jump leaves the blocks from the i-th on.
LEMMA JumpInv ==
  ASSUME IInv, NEW i \in 2..(Len(open) + 1), JumpOut(i), UNCHANGED phase
  PROVE  IInv'
  <1>1. /\ TypeOK /\ Running /\ open' = SubSeq(open, 1, i - 1)
        /\ UNCHANGED <<chain, code, phase, tries>> /\ escaped \in BOOLEAN
        /\ escaped' = (escaped \/ \E k \in i..Len(open) : InBody(open[k]))
    BY DEF JumpOut, InBlock, Outer, IInv, TypeOK
  <1>2. Len(open) \in Nat
    BY <1>1, HereFacts
  <1>3. i - 1 \in 1..Len(open) /\ (i - 1) + 1 = i
    BY <1>2
  <1>4. escaped' \in BOOLEAN
    BY <1>1
  <1>5. escaped' \/ (~escaped /\ NoBody(open, (i - 1) + 1))
    BY <1>1, <1>3 DEF NoBody
  <1> QED
    BY <1>1, <1>3, <1>4, <1>5, BlocksLeft

LEMMA ReturnInv == ASSUME IInv, Return PROVE IInv'
  <1>1. PICK i \in InnermostFunction :
               JumpOut(i) /\ phase' = IF i = 1 THEN "end" ELSE "run"
    BY DEF Return
  <1>2. /\ TypeOK /\ phase = "run" /\ Running /\ open' = SubSeq(open, 1, i - 1)
        /\ UNCHANGED <<chain, code, tries>> /\ escaped \in BOOLEAN
        /\ escaped' = (escaped \/ \E k \in i..Len(open) : InBody(open[k]))
    BY <1>1 DEF JumpOut, InBlock, Outer, IInv, TypeOK, Running
  <1>3. Len(open) \in Nat /\ open \in Seq(Blocks)
    BY <1>2, HereFacts
  <1>4. i \in 1..Len(open)
    BY DEF InnermostFunction
  <1>5. CASE i = 1
    <2>1. open' = <<>> /\ phase' = "end"
      BY <1>1, <1>2, <1>3, <1>5
    <2>2. open' \in Seq({Function, Loop} \cup TryBlocks) /\ Len(open') = 0
      BY <2>1
    <2>3. TypeOK'
      BY <1>2, <2>1, <2>2 DEF TypeOK, Running
    <2>4. Ids' /\ PartsInside'
      BY <2>2 DEF Ids, PartsInside
    <2>5. HandlersLive'
      BY <2>1 DEF HandlersLive, Running
    <2> QED
      BY <2>3, <2>4, <2>5 DEF IInv
  <1>6. CASE i # 1
    <2>1. i \in 2..(Len(open) + 1)
      BY <1>3, <1>4, <1>6
    <2>2. UNCHANGED phase
      BY <1>1, <1>2, <1>6
    <2> QED
      BY <1>1, <2>1, <2>2, JumpInv
  <1> QED
    BY <1>5, <1>6

LEMMA LoopJumpInv == ASSUME IInv, Break \/ Continue PROVE IInv'
  <1>1. PICK i \in InnermostLoop : (JumpOut(i) \/ JumpOut(i + 1)) /\ UNCHANGED phase
    BY DEF Break, Continue
  <1>2. TypeOK /\ Running
    BY <1>1 DEF JumpOut, InBlock, IInv
  <1>3. Len(open) \in Nat /\ open[1] = Function
    BY <1>2, HereFacts
  <1>4. i \in 1..Len(open) /\ open[i].kind = "loop"
    BY DEF InnermostLoop
  <1>5. i # 1
    BY <1>3, <1>4, BlockKinds
  <1>6. i \in 2..(Len(open) + 1) /\ i + 1 \in 2..(Len(open) + 1)
    BY <1>3, <1>4, <1>5
  <1> QED
    BY <1>1, <1>6, JumpInv

\* A Try that is left is no body any more.
LEMMA LeftInv ==
  ASSUME IInv, AtStage("leave"), open' = Outer(Len(open) - 1),
         UNCHANGED <<chain, code, phase, tries, escaped>>
  PROVE  IInv'
  <1>1. /\ TypeOK /\ Running /\ Here.kind = "try" /\ Here.stage = "leave"
        /\ open' = SubSeq(open, 1, Len(open) - 1) /\ escaped \in BOOLEAN
    BY DEF AtStage, Outer, IInv, TypeOK
  <1>2. Len(open) \in Nat /\ Len(open) > 1
    BY <1>1, HereFacts
  <1>3. Len(open) - 1 \in 1..Len(open)
    BY <1>2
  <1>4. NoBody(open, (Len(open) - 1) + 1)
    <2>1. \A k \in ((Len(open) - 1) + 1)..Len(open) : k = Len(open)
      BY <1>2
    <2> QED
      BY <1>1, <2>1 DEF NoBody, InBody, Here
  <1>5. escaped' \/ (~escaped /\ NoBody(open, (Len(open) - 1) + 1))
    BY <1>1, <1>4
  <1> QED
    BY <1>1, <1>3, <1>5, BlocksLeft

\* The next part of the innermost Try, not from or to its body.
LEMMA PartInv ==
  ASSUME IInv, Running, Here.kind = "try", ~InBody(Here),
         NEW b \in TryBlocks, b.id = Here.id, b.prev = Here.prev, ~InBody(b),
         open' = [open EXCEPT ![Len(open)] = b],
         UNCHANGED <<chain, code, phase, tries, escaped>>
  PROVE  IInv'
  <1>1. TypeOK /\ Ids /\ PartsInside /\ HandlersLive
    BY DEF IInv
  <1>2. /\ open' \in Seq(Blocks) /\ open' # <<>> /\ open'[1] = Function
        /\ Ids' /\ PartsInside'
    BY <1>1, HereReplaced
  <1>3. HandlersLive'
    BY <1>1, ReplacedKeepsChain
  <1>4. TypeOK'
    BY <1>1, <1>2 DEF TypeOK, Blocks, Running
  <1> QED
    BY <1>2, <1>3, <1>4 DEF IInv

LEMMA ToIsReplaced ==
  ASSUME TypeOK, Running, Here.kind = "try", NEW st \in Stages, To(st)
  PROVE  LET b == [Here EXCEPT !.stage = st]
         IN  /\ open' = [open EXCEPT ![Len(open)] = b]
             /\ b \in TryBlocks /\ b.id = Here.id /\ b.prev = Here.prev
             /\ b.kind = "try" /\ b.stage = st
  <1>1. Here \in TryBlocks
    BY HereFacts
  <1> QED
    BY <1>1 DEF To, Here, TryBlocks

LEMMA ClauseReplaced ==
  ASSUME TypeOK, TryClause
  PROVE  \E b \in TryBlocks :
           /\ open' = [open EXCEPT ![Len(open)] = b]
           /\ b.id = Here.id /\ b.prev = Here.prev
           /\ b.stage \in {"catch", "select"}
  <1>1. Running /\ Here.kind = "try" /\ Here.stage = "select"
    BY DEF TryClause, AtStage
  <1>2. Here \in TryBlocks
    BY <1>1, HereFacts
  <1>3. PICK b : b = IF Matches(Here)
                       THEN [Here EXCEPT !.stage = "catch", !.handled = TRUE,
                                         !.ran = @ \cup {Here.next},
                                         !.next = @ + 1]
                       ELSE [Here EXCEPT !.next = @ + 1]
    OBVIOUS
  <1>4. open' = [open EXCEPT ![Len(open)] = b]
    BY <1>3 DEF TryClause
  <1>5. /\ b \in TryBlocks /\ b.id = Here.id /\ b.prev = Here.prev
        /\ b.stage \in {"catch", "select"}
    <2>1. Here.next + 1 \in Nat \ {0} /\ Here.ran \cup {Here.next} \in SUBSET Nat
      BY <1>2 DEF TryBlocks
    <2>2. CASE Matches(Here)
      BY <1>2, <1>3, <2>1, <2>2 DEF TryBlocks, Stages
    <2>3. CASE ~Matches(Here)
      BY <1>1, <1>2, <1>3, <2>1, <2>3 DEF TryBlocks, Stages
    <2> QED
      BY <2>2, <2>3
  <1> QED
    BY <1>4, <1>5

LEMMA PartsInv ==
  ASSUME IInv, TryClause \/ EndCatch \/ EnterFinally \/ EndFinally
  PROVE  IInv'
  <1>1. TypeOK
    BY DEF IInv
  <1>2. CASE TryClause
    <2>1. /\ Running /\ Here.kind = "try" /\ Here.stage = "select"
          /\ UNCHANGED <<chain, code, phase, tries, escaped>>
      BY <1>2 DEF TryClause, AtStage
    <2>2. PICK b \in TryBlocks :
                 /\ open' = [open EXCEPT ![Len(open)] = b]
                 /\ b.id = Here.id /\ b.prev = Here.prev
                 /\ b.stage \in {"catch", "select"}
      BY <1>1, <1>2, ClauseReplaced
    <2>3. ~InBody(Here) /\ ~InBody(b)
      BY <2>1, <2>2 DEF InBody
    <2> QED
      BY <2>1, <2>2, <2>3, PartInv
  <1>3. ASSUME NEW from, from # "body", NEW to \in Stages, to # "body",
               AtStage(from), To(to),
               UNCHANGED <<chain, code, phase, tries, escaped>>
        PROVE  IInv'
    <2>1. Running /\ Here.kind = "try" /\ Here.stage = from
      BY <1>3 DEF AtStage
    <2>2. PICK b : b = [Here EXCEPT !.stage = to]
      OBVIOUS
    <2>3. /\ open' = [open EXCEPT ![Len(open)] = b]
          /\ b \in TryBlocks /\ b.id = Here.id /\ b.prev = Here.prev
          /\ b.kind = "try" /\ b.stage = to
      BY <1>1, <1>3, <2>1, <2>2, ToIsReplaced
    <2>4. ~InBody(Here) /\ ~InBody(b)
      BY <1>3, <2>1, <2>3 DEF InBody
    <2> QED
      BY <1>3, <2>1, <2>3, <2>4, PartInv
  <1>4. CASE EndCatch
    BY <1>3, <1>4 DEF EndCatch, Stages
  <1>5. CASE EnterFinally
    <2>1. CASE Here.finally
      BY <1>3, <1>5, <2>1 DEF EnterFinally, Stages
    <2>2. CASE ~Here.finally
      BY <1>3, <1>5, <2>2 DEF EnterFinally, Stages
    <2> QED
      BY <2>1, <2>2
  <1>6. CASE EndFinally
    BY <1>3, <1>6 DEF EndFinally, Stages
  <1> QED
    BY <1>2, <1>4, <1>5, <1>6

LEMMA EndBodyInv == ASSUME IInv, EndBody PROVE IInv'
  <1>1. /\ TypeOK /\ Ids /\ PartsInside /\ HandlersLive
        /\ Running /\ Here.kind = "try" /\ Here.stage = "body" /\ To("select")
        /\ chain' = Here.prev /\ UNCHANGED <<code, phase, tries, escaped>>
    BY DEF EndBody, AtStage, IInv
  <1>2. /\ Len(open) \in Nat /\ Len(open) > 1 /\ open \in Seq(Blocks)
        /\ Here \in TryBlocks
    BY <1>1, HereFacts
  <1>3. PICK b : b = [Here EXCEPT !.stage = "select"]
    OBVIOUS
  <1>4. /\ open' = [open EXCEPT ![Len(open)] = b]
        /\ b \in TryBlocks /\ b.id = Here.id /\ b.prev = Here.prev
        /\ b.kind = "try" /\ b.stage = "select"
    BY <1>1, <1>3, ToIsReplaced DEF Stages
  <1>5. /\ open' \in Seq(Blocks) /\ Len(open') = Len(open)
        /\ open' # <<>> /\ open'[1] = Function
        /\ open'[Len(open)] = b
        /\ Ids' /\ PartsInside'
        /\ Agree(open, open', Len(open) - 1)
    BY <1>1, <1>4, HereReplaced
  <1>6. TypeOK'
    BY <1>1, <1>2, <1>5 DEF TypeOK, Blocks, Running, TryBlocks
  <1>7. ASSUME ~escaped PROVE Chained(open', Here.prev)
    <2>1. Chained(open, chain)
      BY <1>1, <1>7, HandlersAsChain DEF ChainInv
    <2>2. Len(open) \in Bodies(open, Len(open))
      BY <1>1, <1>2 DEF Bodies, InBody, Here
    <2>3. NoBody(open, Len(open) + 1)
      <3>1. \A k \in (Len(open) + 1)..Len(open) : FALSE
        BY <1>2
      <3> QED
        BY <3>1 DEF NoBody
    <2>4. NoBody(open', Len(open))
      <3>1. \A k \in Len(open)..Len(open) : k = Len(open)
        BY <1>2
      <3> QED
        BY <1>4, <1>5, <3>1 DEF NoBody, InBody
    <2>5. Len(open) - 1 <= Len(open')
      BY <1>2, <1>5
    <2> QED
      BY <1>2, <1>5, <2>1, <2>2, <2>3, <2>4, <2>5, ChainPopped DEF Here
  <1>8. HandlersLive'
    BY <1>1, <1>7 DEF HandlersLive, Chained, Running
  <1> QED
    BY <1>5, <1>6, <1>8 DEF IInv

LEMMA NestedFacts ==
  ASSUME NEW b \in Blocks
  PROVE  /\ Nested(b) \in Blocks /\ Nested(b).kind = b.kind
         /\ b.kind = "try" => /\ Nested(b).stage = b.stage
                              /\ Nested(b).id = b.id /\ Nested(b).prev = b.prev
         /\ b = Function => Nested(b) = b
  <1>1. CASE b.kind = "try" /\ b.stage = "finally"
    <2>1. b \in TryBlocks
      BY <1>1, BlockKinds
    <2>2. /\ Nested(b) \in TryBlocks /\ Nested(b).kind = b.kind
          /\ Nested(b).stage = b.stage
          /\ Nested(b).id = b.id /\ Nested(b).prev = b.prev
      BY <1>1, <2>1 DEF Nested, TryBlocks
    <2> QED
      BY <1>1, <2>2, BlockKinds DEF Blocks
  <1>2. CASE ~(b.kind = "try" /\ b.stage = "finally")
    BY <1>2 DEF Nested
  <1> QED
    BY <1>1, <1>2

\* A throw lands in the innermost running body, if there is one.
LEMMA LandsInTop ==
  ASSUME IInv, Running, ~escaped
  PROVE  /\ chain # NoTry => Live(chain) # {}
         /\ \A i \in Live(chain) : i \in Bodies(open, Len(open)) /\ NoBody(open, i + 1)
  <1>1. Chained(open, chain) /\ TypeOK
    BY HandlersAsChain DEF ChainInv, IInv
  <1>2. Len(open) \in Nat /\ open \in Seq(Blocks)
    BY <1>1, HereFacts
  <1>3. \A i \in 1..Len(open) : InBody(open[i]) => open[i].id \in Nat
    <2> SUFFICES ASSUME NEW i \in 1..Len(open), InBody(open[i])
                 PROVE  open[i].id \in Nat
      OBVIOUS
    <2>1. open[i] \in TryBlocks
      BY <1>2, BlockKinds DEF InBody
    <2> QED
      BY <2>1 DEF TryBlocks
  <1>4. CASE Bodies(open, Len(open)) = {} /\ chain = NoTry
    BY <1>4 DEF Live, Bodies
  <1>5. CASE \E k \in Bodies(open, Len(open)) :
               chain = open[k].id /\ \A j \in Bodies(open, Len(open)) : j <= k
    <2>1. PICK k \in Bodies(open, Len(open)) :
                 chain = open[k].id /\ \A j \in Bodies(open, Len(open)) : j <= k
      BY <1>5
    <2>2. k \in Live(chain) /\ k \in 1..Len(open) /\ InBody(open[k])
      BY <2>1 DEF Live, Bodies
    <2>3. ASSUME NEW i \in Live(chain) PROVE i = k
      <3>1. i \in 1..Len(open) /\ open[i].kind = "try" /\ open[i].id = open[k].id
        BY <2>1 DEF Live, InBody
      <3>2. open[k].kind = "try"
        BY <2>2 DEF InBody
      <3> QED
        BY <2>2, <3>1, <3>2 DEF IInv, Ids
    <2>4. NoBody(open, k + 1)
      <3>1. \A j \in (k + 1)..Len(open) : j \in 1..Len(open) /\ ~(j <= k)
        BY <1>2, <2>2
      <3> QED
        BY <2>1, <3>1 DEF NoBody, Bodies
    <2> QED
      BY <2>1, <2>2, <2>3, <2>4
  <1> QED
    BY <1>1, <1>4, <1>5 DEF Chained, IsTop

LEMMA CaughtInv ==
  ASSUME IInv, Running, NEW c \in Codes \cup {NoCode}, NEW i \in Live(chain),
         Caught(i, c), code' = c, UNCHANGED <<tries, escaped>>
  PROVE  IInv'
  <1>1. /\ TypeOK /\ Ids /\ PartsInside /\ HandlersLive
        /\ UNCHANGED <<phase, tries, escaped>> /\ chain' = open[i].prev
    BY DEF IInv, Caught
  <1>2. /\ Len(open) \in Nat \ {0} /\ open \in Seq(Blocks) /\ open[1] = Function
        /\ i \in 1..Len(open) /\ InBody(open[i])
    BY <1>1, HereFacts DEF Live
  <1>3. open[i] \in TryBlocks
    BY <1>2, BlockKinds DEF InBody
  <1>4. PICK b : b = [open[i] EXCEPT !.stage = "select", !.state = TRUE,
                                     !.threw = c]
    OBVIOUS
  <1>5. /\ b \in TryBlocks /\ b.kind = "try" /\ b.stage = "select"
        /\ b.id = open[i].id /\ b.prev = open[i].prev
    BY <1>3, <1>4 DEF TryBlocks, Stages
  <1>6. open' = [k \in 1..i |-> IF k < i THEN Nested(open[k]) ELSE b]
    BY <1>4 DEF Caught
  <1>7. \A k \in 1..(i - 1) : k \in 1..Len(open) /\ k < i /\ k \in 1..i
    BY <1>2
  <1>8. /\ open'[i] = b
        /\ \A k \in 1..(i - 1) : open'[k] = Nested(open[k])
    BY <1>2, <1>6, <1>7
  <1>9. \A k \in 1..(i - 1) :
          /\ open'[k] \in Blocks /\ open'[k].kind = open[k].kind
          /\ open[k].kind = "try" => /\ open'[k].stage = open[k].stage
                                     /\ open'[k].id = open[k].id
                                     /\ open'[k].prev = open[k].prev
    BY <1>2, <1>7, <1>8, NestedFacts
  <1>10. \A k \in 1..i : k = i \/ k \in 1..(i - 1)
    BY <1>2
  <1>11. open' \in Seq(Blocks) /\ Len(open') = i
    <2>1. \A k \in 1..i : (IF k < i THEN Nested(open[k]) ELSE b) \in Blocks
      BY <1>2, <1>5, <1>7, <1>10, NestedFacts DEF Blocks
    <2>2. i \in Nat
      BY <1>2
    <2> QED
      BY <1>6, <2>1, <2>2
  <1>12. open' # <<>> /\ open'[1] = Function
    <2>1. i # 1
      BY <1>2, BlockKinds DEF InBody
    <2>2. 1 \in 1..(i - 1)
      BY <1>2, <2>1
    <2>3. Len(open') # 0
      BY <1>2, <1>11
    <2>4. open' # <<>>
      BY <2>3
    <2> QED
      BY <1>2, <1>8, <2>2, <2>4, NestedFacts DEF Blocks
  <1>13. TypeOK'
    BY <1>1, <1>3, <1>11, <1>12 DEF TypeOK, Blocks, Running, TryBlocks
  <1>14. \A k \in 1..i :
           /\ k \in 1..Len(open)
           /\ open'[k].kind = "try" => open[k].kind = "try" /\ open'[k].id = open[k].id
    BY <1>2, <1>3, <1>5, <1>7, <1>8, <1>9, <1>10, BlockKinds
  <1>15. Ids'
    BY <1>1, <1>11, <1>14 DEF Ids
  <1>16. PartsInside'
    <2>1. \A k \in 1..(i - 1) : k \in 1..(Len(open) - 1)
      BY <1>2
    <2> QED
      BY <1>1, <1>9, <1>11, <2>1 DEF PartsInside
  <1>17. ASSUME ~escaped PROVE Chained(open', open[i].prev)
    <2>1. Chained(open, chain)
      BY <1>1, <1>17, HandlersAsChain DEF ChainInv
    <2>2. i \in Bodies(open, Len(open)) /\ NoBody(open, i + 1)
      BY <1>17, LandsInTop
    <2>3. Agree(open, open', i - 1)
      BY <1>9 DEF Agree, InBody
    <2>4. NoBody(open', i)
      <3>1. \A k \in i..Len(open') : k = i
        BY <1>2, <1>11
      <3> QED
        BY <1>5, <1>8, <3>1 DEF NoBody, InBody
    <2>5. i - 1 <= Len(open')
      BY <1>2, <1>11
    <2> QED
      BY <1>2, <1>11, <2>1, <2>2, <2>3, <2>4, <2>5, ChainPopped
  <1>18. HandlersLive'
    BY <1>1, <1>17 DEF HandlersLive, Chained, Running
  <1> QED
    BY <1>13, <1>15, <1>16, <1>18 DEF IInv

LEMMA ThrowInv ==
  ASSUME IInv, Running, NEW c \in Codes \cup {NoCode}, LuThrow(c)
  PROVE  IInv'
  <1>1. TypeOK /\ code' = c /\ UNCHANGED <<tries, escaped>>
    BY DEF IInv, LuThrow
  <1>2. ASSUME phase' \in {"exit", "wild"}, UNCHANGED <<open, chain>>,
               phase' = "wild" => escaped
        PROVE  IInv'
    <2>1. TypeOK'
      BY <1>1, <1>2 DEF TypeOK, Running
    <2>2. Ids' /\ PartsInside'
      BY <1>1, <1>2 DEF IInv, Ids, PartsInside
    <2>3. HandlersLive'
      BY <1>1, <1>2 DEF HandlersLive, Running
    <2> QED
      BY <2>1, <2>2, <2>3 DEF IInv
  <1>3. CASE chain = NoTry /\ phase' = "exit" /\ UNCHANGED <<open, chain>>
    BY <1>2, <1>3
  <1>4. CASE \E i \in Live(chain) : Caught(i, c)
    BY <1>1, <1>4, CaughtInv
  <1>5. CASE chain # NoTry /\ Live(chain) = {} /\ phase' = "wild"
             /\ UNCHANGED <<open, chain>>
    <2>1. escaped
      BY <1>5, LandsInTop
    <2> QED
      BY <1>2, <1>5, <2>1
  <1> QED
    BY <1>3, <1>4, <1>5 DEF LuThrow
----------------------------------------------------------------------------
LEMMA InitInv == Init => IInv
  <1> SUFFICES ASSUME Init PROVE IInv
    OBVIOUS
  <1>1. /\ open = <<Function>> /\ chain = NoTry /\ code = NoCode
        /\ phase = "run" /\ tries = 0 /\ escaped = FALSE
    BY DEF Init
  <1>2. open \in Seq(Blocks) /\ Len(open) = 1 /\ open[1] = Function /\ open # <<>>
    BY <1>1 DEF Blocks
  <1>3. TypeOK
    <2>1. tries \in 0..MaxTries
      BY <1>1, TryAssumption
    <2>2. Running => open # <<>> /\ open[1] = Function
      BY <1>2
    <2>3. open \in Seq({Function, Loop} \cup TryBlocks)
      BY <1>2 DEF Blocks
    <2> QED
      BY <1>1, <2>1, <2>2, <2>3 DEF TypeOK
  <1>4. \A k \in 1..1 : k = 1
    OBVIOUS
  <1>5. Ids /\ PartsInside
    BY <1>2, <1>4, BlockKinds DEF Ids, PartsInside
  <1>6. Bodies(open, Len(open)) = {}
    BY <1>2, <1>4, BlockKinds DEF Bodies, InBody
  <1>7. HandlersLive
    BY <1>1, <1>6 DEF HandlersLive, IsTop
  <1> QED
    BY <1>3, <1>5, <1>7 DEF IInv

LEMMA StutterInv == ASSUME IInv, UNCHANGED vars PROVE IInv'
  <1>1. TypeOK'
    BY DEF IInv, TypeOK, vars, Running
  <1>2. Ids' /\ PartsInside'
    BY DEF IInv, Ids, PartsInside, vars
  <1>3. HandlersLive'
    BY DEF IInv, HandlersLive, vars, Running
  <1> QED
    BY <1>1, <1>2, <1>3 DEF IInv

LEMMA NextInv == ASSUME IInv, Next PROVE IInv'
  <1>1. CASE \E names \in Clauses, finally \in BOOLEAN : EnterTry(names, finally)
    BY <1>1, EnterTryInv
  <1>2. CASE \E c \in Codes : Throw(c)
    BY <1>2, ThrowInv DEF Throw, InBlock
  <1>3. CASE EndBody
    BY <1>3, EndBodyInv
  <1>4. CASE TryClause \/ EndCatch \/ EnterFinally \/ EndFinally
    BY <1>4, PartsInv
  <1>5. CASE LeaveTry
    <2>1. AtStage("leave") /\ Running /\ code \in Codes \cup {NoCode}
      BY <1>5 DEF LeaveTry, AtStage, IInv, TypeOK
    <2>2. CASE LuThrow(code)
      BY <2>1, <2>2, ThrowInv
    <2>3. CASE /\ open' = Outer(Len(open) - 1)
               /\ UNCHANGED <<chain, code, phase, tries, escaped>>
      BY <2>1, <2>3, LeftInv
    <2> QED
      BY <1>5, <2>2, <2>3 DEF LeaveTry
  <1>6. CASE Call \/ EnterLoop
    BY <1>6, EnterInv DEF Call, EnterLoop
  <1>7. CASE Return
    BY <1>7, ReturnInv
  <1>8. CASE Break \/ Continue
    BY <1>8, LoopJumpInv
  <1> QED
    BY <1>1, <1>2, <1>3, <1>4, <1>5, <1>6, <1>7, <1>8 DEF Next

THEOREM Invariance == Spec => []IInv
  <1>1. IInv /\ [Next]_vars => IInv'
    BY NextInv, StutterInv
  <1> QED
    BY InitInv, <1>1, PTL DEF Spec

\* The blocks, the chain and the variables of the run time keep to their types
\* (gen_node(), NODE_TRY, and lu_throw()).
THEOREM TypeCorrect == Spec => []TypeOK
  <1>1. IInv => TypeOK
    BY DEF IInv
  <1> QED
    BY Invariance, <1>1, PTL

\* A throw always lands in the innermost body that is running, as long as no
\* body has been left by return, break or continue (gen_node(), NODE_TRY and
\* NODE_RETURN, and lu_throw()).
THEOREM ThrowsLand == Spec => []HandlersLive
  <1>1. IInv => HandlersLive
    BY DEF IInv
  <1> QED
    BY Invariance, <1>1, PTL
----------------------------------------------------------------------------
\* Clauses.

\* The clauses of a Try that take what its body threw.
Takes(b) == {k \in 1..Len(b.names) : b.state /\ b.names[k] \in {Any, b.threw}}

ClauseInv(b) ==
  /\ b.stage = "body" => ~b.state /\ ~b.handled /\ b.next = 1
  /\ b.stage = "catch" => b.handled
  /\ b.handled => \E k \in Takes(b) :
                    b.ran = {k} /\ k < b.next /\ \A j \in Takes(b) : k <= j
  /\ ~b.handled => b.ran = {} /\ \A k \in Takes(b) : ~(k < b.next)
  /\ b.stage \in {"body", "select", "catch"} => ~b.nested

CodeKept(b, c) == Pending(b) => c = b.threw \/ b.nested

ClausesInv ==
  \A i \in 1..Len(open) : open[i].kind = "try" => ClauseInv(open[i])
CodesInv ==
  Running => \A i \in 1..Len(open) : open[i].kind = "try" => CodeKept(open[i], code)

CInv == IInv /\ ClausesInv /\ CodesInv

\* A step that leaves __lu_exc_code alone has to keep the blocks it changes.
LEMMA BlocksKept ==
  ASSUME CInv, Running, UNCHANGED code,
         \A k \in 1..Len(open') :
           open'[k].kind = "try" =>
             \/ k \in 1..Len(open) /\ open'[k] = open[k]
             \/ ClauseInv(open'[k]) /\ CodeKept(open'[k], code)
  PROVE  ClausesInv' /\ CodesInv'
  BY DEF CInv, ClausesInv, CodesInv

LEMMA HereKept ==
  ASSUME CInv, Running, Here.kind = "try", NEW b \in TryBlocks,
         b.id = Here.id, b.prev = Here.prev, ClauseInv(b), CodeKept(b, code),
         open' = [open EXCEPT ![Len(open)] = b],
         UNCHANGED <<code, tries>>
  PROVE  ClausesInv' /\ CodesInv'
  <1>1. TypeOK /\ Ids /\ PartsInside
    BY DEF CInv, IInv
  <1>2. /\ Len(open') = Len(open) /\ open'[Len(open)] = b
        /\ \A k \in 1..(Len(open) - 1) : open'[k] = open[k]
    BY <1>1, HereReplaced
  <1>3. Len(open) \in Nat
    BY <1>1, HereFacts
  <1>4. \A k \in 1..Len(open') : k = Len(open) \/ k \in 1..(Len(open) - 1)
    <2>1. Len(open') = Len(open)
      BY <1>2
    <2>2. \A k \in 1..Len(open) : k = Len(open) \/ k \in 1..(Len(open) - 1)
      BY <1>3
    <2> QED
      BY <2>1, <2>2
  <1>5. \A k \in 1..(Len(open) - 1) : k \in 1..Len(open)
    BY <1>3
  <1> QED
    BY <1>2, <1>4, <1>5, BlocksKept

LEMMA HereClauses ==
  ASSUME CInv, Running, Here.kind = "try"
  PROVE  Here \in TryBlocks /\ ClauseInv(Here) /\ CodeKept(Here, code)
  <1>1. TypeOK
    BY DEF CInv, IInv
  <1>2. Len(open) \in 1..Len(open) /\ Here \in TryBlocks
    BY <1>1, HereFacts
  <1> QED
    BY <1>2 DEF CInv, ClausesInv, CodesInv, Here

\* The stage of a Try alone says nothing new of its clauses.
LEMMA StageOnly ==
  ASSUME NEW b \in TryBlocks, ClauseInv(b), NEW st \in Stages, NEW c,
         CodeKept(b, c), st \in {"select", "finally", "leave"},
         st = "select" => ~b.nested
  PROVE  LET d == [b EXCEPT !.stage = st] IN ClauseInv(d) /\ CodeKept(d, c)
  <1> DEFINE d == [b EXCEPT !.stage = st]
  <1>1. /\ d.stage = st /\ d.state = b.state /\ d.handled = b.handled
        /\ d.next = b.next /\ d.ran = b.ran /\ d.names = b.names
        /\ d.threw = b.threw /\ d.nested = b.nested
    BY DEF TryBlocks
  <1> HIDE DEF d
  <1>2. Takes(d) = Takes(b)
    BY <1>1 DEF Takes
  <1>3. ClauseInv(d)
    BY <1>1, <1>2 DEF ClauseInv
  <1>4. CodeKept(d, c)
    BY <1>1 DEF CodeKept, Pending
  <1> QED
    BY <1>3, <1>4 DEF d

LEMMA StageClauses ==
  ASSUME CInv, NEW from \in {"body", "select", "catch", "finally"}, AtStage(from),
         NEW to \in {"select", "finally", "leave"}, To(to),
         from = "finally" => to = "leave", UNCHANGED <<code, tries>>
  PROVE  ClausesInv' /\ CodesInv'
  <1>1. TypeOK /\ Running /\ Here.kind = "try" /\ Here.stage = from
    BY DEF CInv, IInv, AtStage
  <1>2. Here \in TryBlocks /\ ClauseInv(Here) /\ CodeKept(Here, code)
    BY <1>1, HereClauses
  <1>3. PICK b : b = [Here EXCEPT !.stage = to]
    OBVIOUS
  <1>4. to \in Stages
    BY DEF Stages
  <1>5. /\ open' = [open EXCEPT ![Len(open)] = b]
        /\ b \in TryBlocks /\ b.id = Here.id /\ b.prev = Here.prev
    BY <1>1, <1>3, <1>4, ToIsReplaced
  <1>6. to = "select" => ~Here.nested
    BY <1>1, <1>2 DEF ClauseInv
  <1>7. ClauseInv(b) /\ CodeKept(b, code)
    BY <1>2, <1>3, <1>4, <1>6, StageOnly
  <1> QED
    BY <1>1, <1>5, <1>7, HereKept

LEMMA EnterTryClauses ==
  ASSUME CInv, NEW names \in Clauses, NEW finally \in BOOLEAN,
         EnterTry(names, finally)
  PROVE  ClausesInv' /\ CodesInv'
  <1> DEFINE b == TryBlock(names, finally)
  <1>1. /\ IInv /\ InBlock /\ Running /\ open' = Append(open, b) /\ UNCHANGED code
        /\ TypeOK
    BY DEF EnterTry, InBlock, CInv, IInv
  <1>2. Len(open) \in Nat /\ open \in Seq(Blocks)
    BY <1>1, HereFacts
  <1>3. /\ Len(open') = Len(open) + 1 /\ open'[Len(open) + 1] = b
        /\ \A k \in 1..Len(open) : open'[k] = open[k]
    BY <1>1, <1>2
  <1>4. ClauseInv(b) /\ CodeKept(b, code)
    BY DEF ClauseInv, CodeKept, Pending, Takes, TryBlock
  <1> HIDE DEF b
  <1>5. \A k \in 1..Len(open') : k \in 1..Len(open) \/ k = Len(open) + 1
    BY <1>2, <1>3
  <1> QED
    BY <1>1, <1>3, <1>4, <1>5, BlocksKept

LEMMA EnterClauses ==
  ASSUME CInv, NEW b \in {Function, Loop}, Enter(b)
  PROVE  ClausesInv' /\ CodesInv'
  <1>1. /\ Running /\ open' = Append(open, b) /\ UNCHANGED code /\ TypeOK
    BY DEF Enter, InBlock, CInv, IInv
  <1>2. Len(open) \in Nat /\ open \in Seq(Blocks)
    BY <1>1, HereFacts
  <1>3. /\ Len(open') = Len(open) + 1 /\ open'[Len(open) + 1] = b
        /\ \A k \in 1..Len(open) : open'[k] = open[k]
    BY <1>1, <1>2
  <1>4. b.kind # "try"
    BY BlockKinds
  <1>5. \A k \in 1..Len(open') : k \in 1..Len(open) \/ k = Len(open) + 1
    BY <1>2, <1>3
  <1> QED
    BY <1>1, <1>3, <1>4, <1>5, BlocksKept

LEMMA LeftClauses ==
  ASSUME CInv, Running, NEW n \in 0..Len(open), open' = SubSeq(open, 1, n),
         UNCHANGED code
  PROVE  ClausesInv' /\ CodesInv'
  <1>1. Len(open) \in Nat /\ open \in Seq(Blocks)
    BY HereFacts DEF CInv, IInv
  <1>2. Len(open') = n /\ \A k \in 1..n : k \in 1..Len(open) /\ open'[k] = open[k]
    BY <1>1
  <1> QED
    BY <1>2, BlocksKept

LEMMA TryClauseClauses == ASSUME CInv, TryClause PROVE ClausesInv' /\ CodesInv'
  <1>1. /\ Running /\ Here.kind = "try" /\ Here.stage = "select"
        /\ Here.next <= Len(Here.names) /\ UNCHANGED <<code, tries>>
    BY DEF TryClause, AtStage
  <1>2. Here \in TryBlocks /\ ClauseInv(Here) /\ CodeKept(Here, code)
    BY <1>1, HereClauses
  <1>3. PICK b : b = IF Matches(Here)
                       THEN [Here EXCEPT !.stage = "catch", !.handled = TRUE,
                                         !.ran = @ \cup {Here.next},
                                         !.next = @ + 1]
                       ELSE [Here EXCEPT !.next = @ + 1]
    OBVIOUS
  <1>4. open' = [open EXCEPT ![Len(open)] = b]
    BY <1>3 DEF TryClause
  <1>5. /\ Here.next \in Nat \ {0} /\ Here.ran \in SUBSET Nat
        /\ Here.names \in Clauses
    BY <1>2 DEF TryBlocks
  <1>6. Here.names \in Seq(Codes \cup {Any}) /\ Len(Here.names) \in Nat
    BY <1>5, TryAssumption
  <1>7. Here.next \in 1..Len(Here.names)
    BY <1>1, <1>5, <1>6
  <1>8. \A k \in Takes(Here) : k \in Nat
    BY <1>6 DEF Takes
  <1>9. Pending(Here) => code = Here.threw
    BY <1>1, <1>2 DEF ClauseInv, CodeKept
  <1>10. CASE Matches(Here)
    <2>1. b = [Here EXCEPT !.stage = "catch", !.handled = TRUE,
                           !.ran = @ \cup {Here.next}, !.next = @ + 1]
      BY <1>3, <1>10
    <2>2. /\ b \in TryBlocks /\ b.id = Here.id /\ b.prev = Here.prev
          /\ b.stage = "catch" /\ b.handled = TRUE /\ b.state = Here.state
          /\ b.names = Here.names /\ b.threw = Here.threw
          /\ b.nested = Here.nested
          /\ b.ran = Here.ran \cup {Here.next} /\ b.next = Here.next + 1
      <3>1. Here.next + 1 \in Nat \ {0} /\ Here.ran \cup {Here.next} \in SUBSET Nat
        BY <1>5
      <3>2. b \in TryBlocks
        BY <1>2, <2>1, <3>1 DEF TryBlocks, Stages
      <3> QED
        BY <1>2, <2>1, <3>2 DEF TryBlocks
    <2>3. Takes(b) = Takes(Here)
      BY <2>2 DEF Takes
    <2>4. Here.state /\ ~Here.handled /\ Here.names[Here.next] \in {Any, code}
      BY <1>10 DEF Matches
    <2>5. code = Here.threw
      BY <1>9, <2>4 DEF Pending
    <2>6. Here.next \in Takes(Here)
      BY <1>7, <2>4, <2>5 DEF Takes
    <2>7. Here.ran = {} /\ \A j \in Takes(Here) : ~(j < Here.next)
      BY <1>2, <2>4 DEF ClauseInv
    <2>8. \A j \in Takes(Here) : Here.next <= j
      BY <1>5, <1>8, <2>7
    <2>9. Here.next < Here.next + 1
      BY <1>5
    <2>10. ClauseInv(b)
      BY <1>1, <1>2, <2>2, <2>3, <2>6, <2>7, <2>8, <2>9 DEF ClauseInv
    <2>11. CodeKept(b, code)
      BY <2>2 DEF CodeKept, Pending
    <2> QED
      BY <1>1, <1>4, <2>2, <2>10, <2>11, HereKept
  <1>11. CASE ~Matches(Here)
    <2>1. b = [Here EXCEPT !.next = @ + 1]
      BY <1>3, <1>11
    <2>2. /\ b \in TryBlocks /\ b.id = Here.id /\ b.prev = Here.prev
          /\ b.stage = "select" /\ b.handled = Here.handled
          /\ b.state = Here.state
          /\ b.names = Here.names /\ b.threw = Here.threw
          /\ b.nested = Here.nested
          /\ b.ran = Here.ran /\ b.next = Here.next + 1
      BY <1>1, <1>2, <1>5, <2>1 DEF TryBlocks, Stages
    <2>3. Takes(b) = Takes(Here)
      BY <2>2 DEF Takes
    <2>4. ~Here.handled => Here.next \notin Takes(Here)
      BY <1>9, <1>11 DEF Matches, Takes, Pending
    <2>5. ~Here.handled => \A k \in Takes(Here) : ~(k < Here.next + 1)
      <3>1. ~Here.handled => \A k \in Takes(Here) : ~(k < Here.next) /\ k # Here.next
        BY <1>2, <2>4 DEF ClauseInv
      <3> QED
        BY <1>5, <1>8, <3>1
    <2>6. \A k \in Takes(Here) : k < Here.next => k < Here.next + 1
      BY <1>5, <1>8
    <2>7. ClauseInv(b)
      BY <1>1, <1>2, <2>2, <2>3, <2>5, <2>6 DEF ClauseInv
    <2>8. CodeKept(b, code)
      BY <1>2, <2>2 DEF CodeKept, Pending
    <2> QED
      BY <1>1, <1>4, <2>2, <2>7, <2>8, HereKept
  <1> QED
    BY <1>10, <1>11

LEMMA NestedClauses ==
  ASSUME NEW b \in TryBlocks, ClauseInv(b), NEW c,
         b.stage \in {"body", "catch", "finally"}
  PROVE  ClauseInv(Nested(b)) /\ CodeKept(Nested(b), c)
  <1>0. b.kind = "try"
    BY BlockKinds
  <1>1. CASE b.stage = "finally"
    <2>1. PICK d : d = [b EXCEPT !.nested = TRUE]
      OBVIOUS
    <2>2. /\ d.stage = "finally" /\ d.state = b.state /\ d.handled = b.handled
          /\ d.next = b.next /\ d.ran = b.ran /\ d.names = b.names
          /\ d.threw = b.threw /\ d.nested = TRUE
      BY <1>1, <2>1 DEF TryBlocks
    <2>3. Takes(d) = Takes(b)
      BY <2>2 DEF Takes
    <2>4. ClauseInv(d) /\ CodeKept(d, c)
      BY <2>2, <2>3 DEF ClauseInv, CodeKept
    <2> QED
      BY <1>0, <1>1, <2>1, <2>4 DEF Nested
  <1>2. CASE b.stage # "finally"
    <2>1. Nested(b) = b
      BY <1>2 DEF Nested
    <2> QED
      BY <1>2, <2>1 DEF ClauseInv, CodeKept, Pending
  <1> QED
    BY <1>1, <1>2

LEMMA CaughtClauses ==
  ASSUME CInv, Running, NEW c \in Codes \cup {NoCode}, NEW i \in Live(chain),
         Caught(i, c), code' = c
  PROVE  ClausesInv' /\ CodesInv'
  <1>1. /\ TypeOK /\ PartsInside /\ ClausesInv
    BY DEF CInv, IInv
  <1>2. /\ Len(open) \in Nat \ {0} /\ open \in Seq(Blocks)
        /\ i \in 1..Len(open) /\ InBody(open[i])
    BY <1>1, HereFacts DEF Live
  <1>3. open[i] \in TryBlocks /\ open[i].stage = "body" /\ ClauseInv(open[i])
    BY <1>1, <1>2, BlockKinds DEF InBody, ClausesInv
  <1>4. PICK b : b = [open[i] EXCEPT !.stage = "select", !.state = TRUE,
                                     !.threw = c]
    OBVIOUS
  <1>5. /\ b.stage = "select" /\ b.state = TRUE /\ b.threw = c
        /\ b.handled = open[i].handled /\ b.next = open[i].next
        /\ b.ran = open[i].ran /\ b.nested = open[i].nested
    BY <1>3, <1>4 DEF TryBlocks
  <1>6. ~b.handled /\ b.next = 1 /\ b.ran = {} /\ ~b.nested
    BY <1>3, <1>5 DEF ClauseInv
  <1>7. \A k \in Takes(b) : ~(k < 1)
    BY DEF Takes
  <1>8. ClauseInv(b) /\ CodeKept(b, c)
    BY <1>5, <1>6, <1>7 DEF ClauseInv, CodeKept
  <1>9. open' = [k \in 1..i |-> IF k < i THEN Nested(open[k]) ELSE b]
    BY <1>4 DEF Caught
  <1>10. Len(open') = i
    <2>1. i \in Nat /\ DOMAIN open' = 1..i
      BY <1>2, <1>9
    <2>2. \A k \in 1..i : (IF k < i THEN Nested(open[k]) ELSE b) \in
                            {Nested(open[j]) : j \in 1..i} \cup {b}
      OBVIOUS
    <2> QED
      BY <1>9, <2>1, <2>2
  <1>11. ASSUME NEW k \in 1..Len(open'), open'[k].kind = "try"
         PROVE  ClauseInv(open'[k]) /\ CodeKept(open'[k], c)
    <2>1. CASE k = i
      BY <1>2, <1>8, <1>9, <2>1
    <2>2. CASE k # i
      <3>1. /\ k \in 1..i /\ k < i /\ k \in 1..Len(open)
            /\ k \in 1..(Len(open) - 1)
        BY <1>2, <1>10, <2>2
      <3>2. open'[k] = Nested(open[k])
        BY <1>9, <3>1
      <3>3. open[k].kind = "try" /\ open[k] \in TryBlocks
        BY <1>2, <1>11, <3>1, <3>2, NestedFacts, BlockKinds
      <3>4. ClauseInv(open[k]) /\ open[k].stage \in {"body", "catch", "finally"}
        BY <1>1, <3>1, <3>3 DEF ClausesInv, PartsInside
      <3> QED
        BY <3>2, <3>3, <3>4, NestedClauses
    <2> QED
      BY <2>1, <2>2
  <1> QED
    BY <1>11 DEF ClausesInv, CodesInv

LEMMA ThrowClauses ==
  ASSUME CInv, Running, NEW c \in Codes \cup {NoCode}, LuThrow(c)
  PROVE  ClausesInv' /\ CodesInv'
  <1>1. CASE phase' \in {"exit", "wild"} /\ UNCHANGED open
    BY <1>1 DEF CInv, ClausesInv, CodesInv, Running
  <1>2. CASE \E i \in Live(chain) : Caught(i, c)
    BY <1>2, CaughtClauses DEF LuThrow
  <1> QED
    BY <1>1, <1>2 DEF LuThrow

LEMMA NextClauses == ASSUME CInv, Next PROVE CInv'
  <1>0. IInv /\ IInv' /\ TypeOK
    BY NextInv DEF CInv, IInv
  <1>1. CASE \E names \in Clauses, finally \in BOOLEAN : EnterTry(names, finally)
    BY <1>0, <1>1, EnterTryClauses DEF CInv
  <1>2. CASE \E c \in Codes : Throw(c)
    BY <1>0, <1>2, ThrowClauses DEF Throw, InBlock, CInv
  <1>3. CASE EndBody
    <2>1. AtStage("body") /\ To("select") /\ UNCHANGED <<code, tries>>
      BY <1>3 DEF EndBody
    <2> QED
      BY <1>0, <2>1, StageClauses DEF CInv
  <1>4. CASE TryClause
    BY <1>0, <1>4, TryClauseClauses DEF CInv
  <1>5. CASE EndCatch
    <2>1. AtStage("catch") /\ To("select") /\ UNCHANGED <<code, tries>>
      BY <1>5 DEF EndCatch
    <2> QED
      BY <1>0, <2>1, StageClauses DEF CInv
  <1>6. CASE EnterFinally
    <2>1. AtStage("select") /\ UNCHANGED <<code, tries>>
          /\ (To("finally") \/ To("leave"))
      BY <1>6 DEF EnterFinally
    <2> QED
      BY <1>0, <2>1, StageClauses DEF CInv
  <1>7. CASE EndFinally
    <2>1. AtStage("finally") /\ To("leave") /\ UNCHANGED <<code, tries>>
      BY <1>7 DEF EndFinally
    <2> QED
      BY <1>0, <2>1, StageClauses DEF CInv
  <1>8. CASE LeaveTry
    <2>1. AtStage("leave") /\ Running /\ code \in Codes \cup {NoCode}
      BY <1>0, <1>8 DEF LeaveTry, AtStage, TypeOK
    <2>2. CASE LuThrow(code)
      BY <1>0, <2>1, <2>2, ThrowClauses DEF CInv
    <2>3. CASE open' = Outer(Len(open) - 1) /\ UNCHANGED code
      <3>1. Len(open) - 1 \in 0..Len(open)
        BY <1>0, <2>1, HereFacts
      <3> QED
        BY <1>0, <2>1, <2>3, <3>1, LeftClauses DEF Outer, CInv
    <2> QED
      BY <1>8, <2>2, <2>3 DEF LeaveTry
  <1>9. CASE Call \/ EnterLoop
    BY <1>0, <1>9, EnterClauses DEF Call, EnterLoop, CInv
  <1>10. CASE Return \/ Break \/ Continue
    <2>1. PICK i \in 1..(Len(open) + 1) : JumpOut(i)
      <3>1. Running
        BY <1>10 DEF Return, Break, Continue, JumpOut, InBlock
      <3>2. Len(open) \in Nat
        BY <1>0, <3>1, HereFacts
      <3>3. \A i \in 1..Len(open) : i \in 1..(Len(open) + 1) /\ i + 1 \in 1..(Len(open) + 1)
        BY <3>2
      <3> QED
        BY <1>10, <3>3 DEF Return, Break, Continue, InnermostFunction, InnermostLoop
    <2>2. Running /\ open' = SubSeq(open, 1, i - 1) /\ UNCHANGED code
      BY <2>1 DEF JumpOut, InBlock, Outer
    <2>3. Len(open) \in Nat
      BY <1>0, <2>2, HereFacts
    <2>4. i - 1 \in 0..Len(open)
      BY <2>3
    <2> QED
      BY <1>0, <2>2, <2>4, LeftClauses DEF CInv
  <1> QED
    BY <1>1, <1>2, <1>3, <1>4, <1>5, <1>6, <1>7, <1>8, <1>9, <1>10 DEF Next

LEMMA InitClauses == Init => CInv
  <1> SUFFICES ASSUME Init PROVE CInv
    OBVIOUS
  <1>1. open = <<Function>> /\ IInv
    BY InitInv DEF Init
  <1>2. Len(open) = 1 /\ open[1].kind # "try"
    BY <1>1, BlockKinds
  <1>3. \A k \in 1..1 : k = 1
    OBVIOUS
  <1> QED
    BY <1>1, <1>2, <1>3 DEF CInv, ClausesInv, CodesInv

LEMMA StutterClauses == ASSUME CInv, UNCHANGED vars PROVE CInv'
  <1>1. IInv'
    BY StutterInv DEF CInv
  <1>2. ClausesInv' /\ CodesInv'
    BY DEF CInv, ClausesInv, CodesInv, vars, Running
  <1> QED
    BY <1>1, <1>2 DEF CInv

THEOREM ClausesInvariance == Spec => []CInv
  <1>1. CInv /\ [Next]_vars => CInv'
    BY NextClauses, StutterClauses
  <1> QED
    BY InitClauses, <1>1, PTL DEF Spec

\* Of the clauses of a Try only the first that takes what the body threw is
\* ever run (the conditions that gen_node() puts in front of the clauses).
THEOREM FirstClauseOnly == Spec => []FirstMatchingClause
  <1>1. CInv => FirstMatchingClause
    <2> SUFFICES ASSUME CInv, NEW i \in 1..Len(open), open[i].kind = "try"
                 PROVE  LET b == open[i]
                            takes == {k \in 1..Len(b.names) :
                                        b.state /\ b.names[k] \in {Any, b.threw}}
                            first == {k \in takes : \A j \in takes : k <= j}
                        IN  b.ran = {k \in first : k < b.next}
      BY DEF FirstMatchingClause
    <2>1. PICK b : b = open[i]
      OBVIOUS
    <2>2. ClauseInv(b)
      BY <2>1 DEF CInv, ClausesInv
    <2>3. \A k, j \in Takes(b) : k <= j /\ j <= k => k = j
      BY DEF Takes
    <2>4. b.ran = {k \in Takes(b) : (\A j \in Takes(b) : k <= j) /\ k < b.next}
      <3>1. CASE b.handled
        <4>1. PICK k \in Takes(b) :
                     b.ran = {k} /\ k < b.next /\ \A j \in Takes(b) : k <= j
          BY <2>2, <3>1 DEF ClauseInv
        <4> QED
          BY <2>3, <4>1
      <3>2. CASE ~b.handled
        BY <2>2, <3>2 DEF ClauseInv
      <3> QED
        BY <3>1, <3>2
    <2> QED
      BY <2>1, <2>4 DEF Takes
  <1> QED
    BY ClausesInvariance, <1>1, PTL

\* What no clause took is what is thrown again, unless the Finally has caught
\* something itself (gen_node(), the end of NODE_TRY).
THEOREM ThrownAgainAsItWas == Spec => []ExceptionKept
  <1>1. CInv => ExceptionKept
    <2> SUFFICES ASSUME CInv, AtStage("leave"), Pending(Here)
                 PROVE  code = Here.threw \/ Here.nested
      BY DEF ExceptionKept
    <2>1. CodeKept(Here, code)
      BY HereClauses DEF AtStage
    <2> QED
      BY <2>1 DEF CodeKept
  <1> QED
    BY ClausesInvariance, <1>1, PTL
----------------------------------------------------------------------------
\* Finally.

Unfinished(b) == b.kind = "try" /\ b.finally /\ b.stage \in {"body", "select"}

\* The innermost Try goes on to another part than its end.
LEMMA InsideHere ==
  ASSUME IInv, Running, Here.kind = "try", NEW b \in TryBlocks,
         b.id = Here.id, b.prev = Here.prev,
         open' = [open EXCEPT ![Len(open)] = b], tries' = tries,
         Unfinished(Here) => b.stage # "leave",
         NEW i \in 1..Len(open), Unfinished(open[i])
  PROVE  StillInside(i)
  <1>1. TypeOK /\ Ids /\ PartsInside
    BY DEF IInv
  <1>2. /\ Len(open') = Len(open) /\ open'[Len(open)] = b
        /\ \A k \in 1..(Len(open) - 1) : open'[k] = open[k]
    BY <1>1, HereReplaced
  <1>3. Len(open) \in Nat
    BY <1>1, HereFacts
  <1>4. Len(open') >= i
    <2>1. Len(open') = Len(open)
      BY <1>2
    <2> QED
      BY <1>3, <2>1
  <1>5. CASE i = Len(open)
    BY <1>2, <1>4, <1>5, BlockKinds DEF StillInside, Here
  <1>6. CASE i # Len(open)
    <2>0. i \in 1..(Len(open) - 1)
      BY <1>3, <1>6
    <2>1. open'[i] = open[i]
      BY <1>2, <2>0
    <2> QED
      BY <1>4, <2>1 DEF StillInside, Unfinished
  <1> QED
    BY <1>5, <1>6

LEMMA InsideStage ==
  ASSUME IInv, NEW from, AtStage(from), NEW to \in Stages, To(to), tries' = tries,
         to = "leave" => ~Unfinished(Here),
         NEW i \in 1..Len(open), Unfinished(open[i])
  PROVE  StillInside(i)
  <1>1. TypeOK /\ Running /\ Here.kind = "try"
    BY DEF IInv, AtStage
  <1>2. PICK b : b = [Here EXCEPT !.stage = to]
    OBVIOUS
  <1>3. /\ open' = [open EXCEPT ![Len(open)] = b]
        /\ b \in TryBlocks /\ b.id = Here.id /\ b.prev = Here.prev
        /\ b.stage = to
    BY <1>1, <1>2, ToIsReplaced
  <1> QED
    BY <1>1, <1>3, InsideHere

LEMMA InsideAppend ==
  ASSUME IInv, InBlock, NEW b \in Blocks, open' = Append(open, b),
         NEW i \in 1..Len(open), Unfinished(open[i])
  PROVE  StillInside(i)
  <1>1. Len(open') = Len(open) + 1 /\ open'[i] = open[i]
    BY BlockAdded
  <1>2. Len(open) \in Nat
    BY HereFacts DEF IInv, InBlock
  <1>3. Len(open') >= i
    BY <1>1, <1>2
  <1> QED
    BY <1>1, <1>3 DEF StillInside, Unfinished

\* An unfinished Try that is not the innermost has a running body.
LEMMA UnfinishedIsBody ==
  ASSUME IInv, Running, InBlock \/ AtStage("leave"),
         NEW i \in 1..Len(open), Unfinished(open[i])
  PROVE  InBody(open[i])
  <1>1. Len(open) \in Nat
    BY HereFacts DEF IInv
  <1>2. CASE i = Len(open)
    BY <1>2 DEF Here, InBlock, AtStage, Unfinished, InBody
  <1>3. CASE i # Len(open)
    <2>1. i \in 1..(Len(open) - 1)
      BY <1>1, <1>3
    <2> QED
      BY <2>1 DEF IInv, PartsInside, Unfinished, InBody
  <1> QED
    BY <1>2, <1>3

LEMMA InsideThrow ==
  ASSUME IInv, Running, InBlock \/ AtStage("leave"),
         NEW c \in Codes \cup {NoCode}, LuThrow(c), phase' = "run",
         NEW i \in 1..Len(open), Unfinished(open[i])
  PROVE  StillInside(i) \/ escaped'
  <1>1. PICK j \in Live(chain) : Caught(j, c)
    BY DEF LuThrow
  <1>2. /\ Len(open) \in Nat /\ open \in Seq(Blocks) /\ j \in 1..Len(open)
        /\ InBody(open[i])
    BY UnfinishedIsBody, HereFacts DEF IInv, Live
  <1>3. SUFFICES ASSUME ~escaped PROVE StillInside(i)
    BY DEF LuThrow
  <1>4. i <= j
    <2>1. NoBody(open, j + 1)
      BY <1>3, LandsInTop
    <2>2. ~(i \in (j + 1)..Len(open))
      BY <1>2, <2>1 DEF NoBody
    <2> QED
      BY <1>2, <2>2
  <1>5. PICK b : b = [open[j] EXCEPT !.stage = "select", !.state = TRUE,
                                     !.threw = c]
    OBVIOUS
  <1>6. open' = [k \in 1..j |-> IF k < j THEN Nested(open[k]) ELSE b]
    BY <1>1, <1>5 DEF Caught
  <1>7. Len(open') = j
    <2>1. j \in Nat /\ DOMAIN open' = 1..j
      BY <1>2, <1>6
    <2> QED
      BY <1>6, <2>1
  <1>8. Len(open') >= i
    BY <1>2, <1>4, <1>7
  <1>9. i \in 1..j
    BY <1>2, <1>4
  <1>10. CASE i = j
    <2>1. open[j] \in TryBlocks
      BY <1>2, <1>10, BlockKinds DEF InBody
    <2>2. b.kind = "try" /\ b.id = open[j].id /\ b.stage = "select"
      BY <1>5, <2>1 DEF TryBlocks
    <2>3. open'[i] = b
      BY <1>2, <1>6, <1>9, <1>10
    <2> QED
      BY <1>8, <1>10, <2>2, <2>3 DEF StillInside
  <1>11. CASE i # j
    <2>1. open'[i] = Nested(open[i])
      BY <1>2, <1>4, <1>6, <1>9, <1>11
    <2>2. open[i] \in Blocks /\ open[i].kind = "try" /\ open[i].stage = "body"
      BY <1>2 DEF InBody
    <2> QED
      BY <1>8, <2>1, <2>2, NestedFacts DEF StillInside
  <1> QED
    BY <1>10, <1>11

LEMMA InsideJump ==
  ASSUME IInv, Running, InBlock \/ AtStage("leave"),
         NEW n \in 0..Len(open), open' = SubSeq(open, 1, n),
         escaped' \/ NoBody(open, n + 1),
         NEW i \in 1..Len(open), Unfinished(open[i])
  PROVE  StillInside(i) \/ escaped'
  <1>1. SUFFICES ASSUME NoBody(open, n + 1) PROVE StillInside(i)
    OBVIOUS
  <1>2. Len(open) \in Nat /\ open \in Seq(Blocks) /\ InBody(open[i])
    BY UnfinishedIsBody, HereFacts DEF IInv
  <1>3. i <= n
    <2>1. ~(i \in (n + 1)..Len(open))
      BY <1>1, <1>2 DEF NoBody
    <2> QED
      BY <1>2, <2>1
  <1>4. Len(open') = n /\ open'[i] = open[i]
    BY <1>2, <1>3
  <1>5. Len(open') >= i
    BY <1>2, <1>3, <1>4
  <1> QED
    BY <1>4, <1>5 DEF StillInside, Unfinished

FinallyStep ==
  \A i \in 1..Len(open) :
    Unfinished(open[i]) /\ phase' = "run" => StillInside(i) \/ escaped'

LEMMA NextInside == ASSUME IInv, Next PROVE FinallyStep
  <1> SUFFICES ASSUME NEW i \in 1..Len(open), Unfinished(open[i]), phase' = "run"
               PROVE  StillInside(i) \/ escaped'
    BY DEF FinallyStep
  <1>0. TypeOK
    BY DEF IInv
  <1>1. CASE \E names \in Clauses, finally \in BOOLEAN : EnterTry(names, finally)
    <2>1. PICK names \in Clauses, finally \in BOOLEAN : EnterTry(names, finally)
      BY <1>1
    <2>2. TryBlock(names, finally) \in Blocks
      <3>1. tries + 1 \in 1..MaxTries
        BY <1>0, <2>1, TryAssumption DEF EnterTry, TypeOK
      <3> QED
        BY <1>0, <3>1 DEF TryBlock, TryBlocks, TypeOK, Stages, Blocks
    <2> QED
      BY <2>1, <2>2, InsideAppend DEF EnterTry
  <1>2. CASE \E c \in Codes : Throw(c)
    BY <1>2, InsideThrow DEF Throw, InBlock
  <1>3. CASE EndBody
    <2>1. AtStage("body") /\ To("select") /\ tries' = tries /\ "select" \in Stages
      BY <1>3 DEF EndBody, Stages
    <2> QED
      BY <2>1, InsideStage
  <1>4. CASE TryClause
    <2>1. Running /\ Here.kind = "try" /\ tries' = tries
      BY <1>4 DEF TryClause, AtStage
    <2>2. PICK b \in TryBlocks :
                 /\ open' = [open EXCEPT ![Len(open)] = b]
                 /\ b.id = Here.id /\ b.prev = Here.prev
                 /\ b.stage \in {"catch", "select"}
      BY <1>0, <1>4, ClauseReplaced
    <2>3. b.stage # "leave"
      BY <2>2
    <2> QED
      BY <2>1, <2>2, <2>3, InsideHere
  <1>5. CASE EndCatch
    <2>1. AtStage("catch") /\ To("select") /\ tries' = tries /\ "select" \in Stages
      BY <1>5 DEF EndCatch, Stages
    <2> QED
      BY <2>1, InsideStage
  <1>6. CASE EnterFinally
    <2>1. AtStage("select") /\ tries' = tries /\ {"finally", "leave"} \subseteq Stages
          /\ To(IF Here.finally THEN "finally" ELSE "leave")
      BY <1>6 DEF EnterFinally, Stages
    <2>2. CASE Here.finally
      BY <2>1, <2>2, InsideStage
    <2>3. CASE ~Here.finally
      <3>1. ~Unfinished(Here)
        BY <2>3 DEF Unfinished
      <3> QED
        BY <2>1, <2>3, <3>1, InsideStage
    <2> QED
      BY <2>2, <2>3
  <1>7. CASE EndFinally
    <2>1. /\ AtStage("finally") /\ To("leave") /\ tries' = tries /\ "leave" \in Stages
          /\ ~Unfinished(Here)
      BY <1>7 DEF EndFinally, Stages, AtStage, Unfinished
    <2> QED
      BY <2>1, InsideStage
  <1>8. CASE LeaveTry
    <2>1. AtStage("leave") /\ Running /\ code \in Codes \cup {NoCode}
      BY <1>0, <1>8 DEF LeaveTry, AtStage, TypeOK
    <2>2. CASE LuThrow(code)
      BY <2>1, <2>2, InsideThrow
    <2>3. CASE open' = Outer(Len(open) - 1)
      <3>1. Len(open) \in Nat \ {0}
        BY <1>0, <2>1, HereFacts
      <3>2. Len(open) - 1 \in 0..Len(open)
        BY <3>1
      <3>3. NoBody(open, (Len(open) - 1) + 1)
        <4>1. \A k \in ((Len(open) - 1) + 1)..Len(open) : k = Len(open)
          BY <3>1
        <4> QED
          BY <2>1, <4>1 DEF NoBody, InBody, Here, AtStage
      <3> QED
        BY <2>1, <2>3, <3>2, <3>3, InsideJump DEF Outer
    <2> QED
      BY <1>8, <2>2, <2>3 DEF LeaveTry
  <1>9. CASE Call \/ EnterLoop
    <2>1. PICK b \in {Function, Loop} : Enter(b)
      BY <1>9 DEF Call, EnterLoop
    <2>2. b \in Blocks /\ InBlock /\ open' = Append(open, b)
      BY <2>1 DEF Enter, Blocks
    <2> QED
      BY <2>2, InsideAppend
  <1>10. CASE Return \/ Break \/ Continue
    <2>1. PICK j \in 1..(Len(open) + 1) : JumpOut(j)
      <3>1. Running
        BY <1>10 DEF Return, Break, Continue, JumpOut, InBlock
      <3>2. Len(open) \in Nat
        BY <1>0, <3>1, HereFacts
      <3>3. \A j \in 1..Len(open) : j \in 1..(Len(open) + 1) /\ j + 1 \in 1..(Len(open) + 1)
        BY <3>2
      <3> QED
        BY <1>10, <3>3 DEF Return, Break, Continue, InnermostFunction, InnermostLoop
    <2>2. /\ Running /\ InBlock /\ open' = SubSeq(open, 1, j - 1)
          /\ escaped' = (escaped \/ \E k \in j..Len(open) : InBody(open[k]))
      BY <2>1 DEF JumpOut, InBlock, Outer
    <2>3. Len(open) \in Nat
      BY <1>0, <2>2, HereFacts
    <2>4. j - 1 \in 0..Len(open) /\ (j - 1) + 1 = j
      BY <2>3
    <2>5. escaped' \/ NoBody(open, (j - 1) + 1)
      BY <2>2, <2>4 DEF NoBody
    <2> QED
      BY <2>2, <2>4, <2>5, InsideJump
  <1> QED
    BY <1>1, <1>2, <1>3, <1>4, <1>5, <1>6, <1>7, <1>8, <1>9, <1>10 DEF Next

\* A Try that has a Finally is not left from its body or between its clauses,
\* unless a body has been left by a jump (gen_node(), NODE_TRY).
THEOREM FinallyRuns == Spec => FinallyBeforeLeaving
  <1>1. IInv /\ [Next]_vars =>
          [\A i \in 1..Len(open) :
             open[i].kind = "try" /\ open[i].finally
               /\ open[i].stage \in {"body", "select"} /\ phase' = "run"
             => StillInside(i) \/ escaped']_vars
    BY NextInside DEF FinallyStep, Unfinished
  <1> QED
    BY Invariance, <1>1, PTL DEF Spec, FinallyBeforeLeaving
=============================================================================
