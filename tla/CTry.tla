-------------------------------- MODULE CTry --------------------------------
(***************************************************************************)
(* Try, Catch, Finally and Throw in the C back end (src/codegen.c,         *)
(* gen_node() and the run time it emits).                                  *)
(*                                                                         *)
(* A Try puts a context with a jmp_buf on the chain __lu_exc_stack while   *)
(* its body runs; lu_throw() jumps to the context on top.  Contexts are    *)
(* locals of the block they stand in, return and break leave that block as *)
(* in any C program, and nothing takes the context off the chain then.     *)
(*                                                                         *)
(* The program is not fixed in advance: at each point any statement may be *)
(* the next one, so that the behaviours are those of all programs.         *)
(***************************************************************************)
EXTENDS Naturals, Sequences

CONSTANTS
  Codes,     \* the ERR_ codes that are thrown
  Any,       \* the name in a Catch that takes every code
  Clauses,   \* the sequences of names that a Try's Catch clauses have
  NoTry,     \* the empty chain
  NoCode,
  MaxTries,  \* how many Try statements are entered
  MaxOpen    \* how deep blocks are nested

ASSUME TryAssumption ==
  /\ Any \notin Codes
  /\ NoCode \notin Codes
  /\ Clauses \subseteq Seq(Codes \cup {Any})
  /\ NoTry \notin Nat
  /\ MaxTries \in Nat
  /\ MaxOpen \in Nat \ {0}

VARIABLES
  open,    \* the blocks that have been entered, the innermost last
  chain,   \* __lu_exc_stack
  code,    \* __lu_exc_code
  phase,   \* "run", "exit" after an uncaught throw, "end", or "wild" when
           \* lu_throw() has jumped to a context that no longer exists
  tries,   \* Try statements entered so far
  escaped  \* return, break or continue has left a Try's body: history

vars == <<open, chain, code, phase, tries, escaped>>

Stages == {"body", "select", "catch", "finally", "leave"}
Function == [kind |-> "fn"]
Loop == [kind |-> "loop"]

\* A Try: prev of its context, _lu_state and _lu_handled, its clauses and the
\* position of the next one.  What its body threw, which clauses have run and
\* whether its Finally has caught an exception of its own are history.
TryBlock(names, finally) ==
  [kind |-> "try", id |-> tries + 1, stage |-> "body", prev |-> chain,
   state |-> FALSE, handled |-> FALSE, names |-> names, next |-> 1,
   finally |-> finally, threw |-> NoCode, ran |-> {}, nested |-> FALSE]

Here == open[Len(open)]
Running == phase = "run"
AtStage(s) == Running /\ Here.kind = "try" /\ Here.stage = s
To(s) == open' = [open EXCEPT ![Len(open)].stage = s]
Outer(i) == SubSeq(open, 1, i)

\* A statement can stand in any block but between the parts of a Try.
InBlock == Running /\ (Here.kind = "try" => Here.stage \in {"body", "catch", "finally"})

InBody(b) == b.kind = "try" /\ b.stage = "body"
Live(id) == {i \in 1..Len(open) : InBody(open[i]) /\ open[i].id = id}

----------------------------------------------------------------------------
Init ==
  /\ open = <<Function>>
  /\ chain = NoTry
  /\ code = NoCode
  /\ phase = "run"
  /\ tries = 0
  /\ escaped = FALSE

EnterTry(names, finally) ==
  /\ InBlock
  /\ Len(open) < MaxOpen
  /\ tries < MaxTries
  /\ open' = Append(open, TryBlock(names, finally))
  /\ chain' = tries + 1
  /\ tries' = tries + 1
  /\ UNCHANGED <<code, phase, escaped>>

\* A pending exception of an outer Try whose Finally is running gives way to
\* the one that is thrown inside.
Nested(b) == IF b.kind = "try" /\ b.stage = "finally"
               THEN [b EXCEPT !.nested = TRUE] ELSE b

\* longjmp() to the context: the blocks inside are gone, setjmp() returns 1,
\* and the context is taken off the chain.
Caught(i, c) ==
  /\ open' = [k \in 1..i |->
                IF k < i THEN Nested(open[k])
                ELSE [open[i] EXCEPT !.stage = "select", !.state = TRUE,
                                     !.threw = c]]
  /\ chain' = open[i].prev
  /\ UNCHANGED phase

\* lu_throw()
LuThrow(c) ==
  /\ code' = c
  /\ \/ /\ chain = NoTry
        /\ phase' = "exit"
        /\ UNCHANGED <<open, chain>>
     \/ \E i \in Live(chain) : Caught(i, c)
     \/ /\ chain # NoTry
        /\ Live(chain) = {}
        /\ phase' = "wild"
        /\ UNCHANGED <<open, chain>>
  /\ UNCHANGED <<tries, escaped>>

Throw(c) == InBlock /\ LuThrow(c)

\* Mutated form: the chain is left as it is.
EndBodyKeepsContext ==
  /\ AtStage("body")
  /\ To("select")
  /\ UNCHANGED <<chain, code, phase, tries, escaped>>

\* The body ends without an exception.
EndBody ==
  /\ AtStage("body")
  /\ To("select")
  /\ chain' = Here.prev
  /\ UNCHANGED <<code, phase, tries, escaped>>

\* Mutated form: a clause does not look whether another one has run.
MatchesTwice(b) ==
  /\ b.state
  /\ b.names[b.next] \in {Any, code}

\* The condition in front of a clause's block.
Matches(b) ==
  /\ b.state
  /\ ~b.handled
  /\ b.names[b.next] \in {Any, code}

\* Mutated form: _lu_handled is not set.
ClauseForgets ==
  /\ AtStage("select")
  /\ Here.next <= Len(Here.names)
  /\ open' = [open EXCEPT ![Len(open)] =
                IF Matches(Here)
                  THEN [Here EXCEPT !.stage = "catch",
                                    !.ran = @ \cup {Here.next},
                                    !.next = @ + 1]
                  ELSE [Here EXCEPT !.next = @ + 1]]
  /\ UNCHANGED <<chain, code, phase, tries, escaped>>

\* Each clause is tried in its turn; what has passed them all goes on.
TryClause ==
  /\ AtStage("select")
  /\ Here.next <= Len(Here.names)
  /\ open' = [open EXCEPT ![Len(open)] =
                IF Matches(Here)
                  THEN [Here EXCEPT !.stage = "catch", !.handled = TRUE,
                                    !.ran = @ \cup {Here.next},
                                    !.next = @ + 1]
                  ELSE [Here EXCEPT !.next = @ + 1]]
  /\ UNCHANGED <<chain, code, phase, tries, escaped>>

EndCatch ==
  /\ AtStage("catch")
  /\ To("select")
  /\ UNCHANGED <<chain, code, phase, tries, escaped>>

\* Mutated form: an exception that no clause took is thrown again first.
FinallyWhenHandled ==
  /\ AtStage("select")
  /\ Here.next > Len(Here.names)
  /\ To(IF Here.finally /\ (Here.state => Here.handled)
          THEN "finally" ELSE "leave")
  /\ UNCHANGED <<chain, code, phase, tries, escaped>>

EnterFinally ==
  /\ AtStage("select")
  /\ Here.next > Len(Here.names)
  /\ To(IF Here.finally THEN "finally" ELSE "leave")
  /\ UNCHANGED <<chain, code, phase, tries, escaped>>

EndFinally ==
  /\ AtStage("finally")
  /\ To("leave")
  /\ UNCHANGED <<chain, code, phase, tries, escaped>>

Pending(b) == b.state /\ ~b.handled

\* The end of the statement: what no clause took is thrown again.
LeaveTry ==
  /\ AtStage("leave")
  /\ \/ Pending(Here) /\ LuThrow(code)
     \/ /\ ~Pending(Here)
        /\ open' = Outer(Len(open) - 1)
        /\ UNCHANGED <<chain, code, phase, tries, escaped>>

----------------------------------------------------------------------------
\* Functions, loops and jumps.

Enter(b) ==
  /\ InBlock
  /\ Len(open) < MaxOpen
  /\ open' = Append(open, b)
  /\ UNCHANGED <<chain, code, phase, tries, escaped>>

Call == Enter(Function)
EnterLoop == Enter(Loop)

\* The innermost block of a kind; break and continue stay in their function.
InnermostFunction ==
  {i \in 1..Len(open) :
     open[i].kind = "fn" /\ \A k \in (i + 1)..Len(open) : open[k].kind # "fn"}
InnermostLoop ==
  {i \in 1..Len(open) :
     open[i].kind = "loop" /\ \A k \in (i + 1)..Len(open) : open[k].kind = "try"}

\* The blocks from i on are left, and the chain is not looked at.
JumpOut(i) ==
  /\ InBlock
  /\ open' = Outer(i - 1)
  /\ escaped' = (escaped \/ \E k \in i..Len(open) : InBody(open[k]))
  /\ UNCHANGED <<chain, code, tries>>

Return ==
  \E i \in InnermostFunction :
    JumpOut(i) /\ phase' = IF i = 1 THEN "end" ELSE "run"

\* A loop that ends, or that goes on, leaves the same blocks.
Break == \E i \in InnermostLoop : JumpOut(i) /\ UNCHANGED phase
Continue == \E i \in InnermostLoop : JumpOut(i + 1) /\ UNCHANGED phase

Next ==
  \/ \E names \in Clauses, finally \in BOOLEAN : EnterTry(names, finally)
  \/ \E c \in Codes : Throw(c)
  \/ EndBody \/ TryClause \/ EndCatch \/ EnterFinally \/ EndFinally \/ LeaveTry
  \/ Call \/ EnterLoop \/ Return \/ Break \/ Continue

Spec == Init /\ [][Next]_vars
----------------------------------------------------------------------------
\* Properties.

TryBlocks ==
  [kind : {"try"}, id : 1..MaxTries, stage : Stages,
   prev : 1..MaxTries \cup {NoTry}, state : BOOLEAN, handled : BOOLEAN,
   names : Clauses, next : Nat \ {0}, finally : BOOLEAN,
   threw : Codes \cup {NoCode}, ran : SUBSET Nat, nested : BOOLEAN]

TypeOK ==
  /\ open \in Seq({Function, Loop} \cup TryBlocks)
  /\ Running => open # <<>> /\ open[1] = Function
  /\ phase \in {"run", "exit", "end", "wild"}
  /\ chain \in 1..MaxTries \cup {NoTry}
  /\ code \in Codes \cup {NoCode}
  /\ tries \in 0..MaxTries
  /\ escaped \in BOOLEAN

\* The Try statements among the first n blocks of s whose bodies are running,
\* and whether c is the innermost of their contexts.
Bodies(s, n) == {k \in 1..n : InBody(s[k])}
IsTop(s, n, c) ==
  \/ Bodies(s, n) = {} /\ c = NoTry
  \/ \E k \in Bodies(s, n) : c = s[k].id /\ \A j \in Bodies(s, n) : j <= k

\* The chain of contexts is that of the Try statements whose bodies are
\* running, the innermost first, whatever has been thrown, caught and thrown
\* again in between; so a throw lands in the innermost body and never in a
\* block that is gone.  The one exception is a program that has left a body by
\* return, break or continue (gen_node(), NODE_TRY and NODE_RETURN).
HandlersLive ==
  /\ phase = "wild" => escaped
  /\ Running /\ ~escaped =>
       /\ IsTop(open, Len(open), chain)
       /\ \A i \in Bodies(open, Len(open)) : IsTop(open, i - 1, open[i].prev)

StillInside(i) ==
  /\ Len(open') >= i
  /\ open'[i].kind = "try"
  /\ open'[i].id = open[i].id
  /\ open'[i].stage # "leave"

\* A Try that has a Finally is not left before that has run, be it that the
\* body ends, that a clause takes the exception or that none does.  (A body
\* that is left by a jump, and a clause that throws itself, do skip it:
\* GUIDE.md promises more than the code does.)
FinallyBeforeLeaving ==
  [][\A i \in 1..Len(open) :
       open[i].kind = "try" /\ open[i].finally
         /\ open[i].stage \in {"body", "select"} /\ phase' = "run"
       => StillInside(i) \/ escaped']_vars

\* The clause that runs is the first that takes what the body threw, and no
\* other runs, even if that one catches an exception of its own, which changes
\* __lu_exc_code.
FirstMatchingClause ==
  \A i \in 1..Len(open) :
    open[i].kind = "try" =>
      LET b == open[i]
          takes == {k \in 1..Len(b.names) : b.state /\ b.names[k] \in {Any, b.threw}}
          first == {k \in takes : \A j \in takes : k <= j}
      IN  b.ran = {k \in first : k < b.next}

\* What no clause took is thrown again as it was, unless the Finally has thrown
\* and caught another exception in between: __lu_exc_code is not kept.
ExceptionKept ==
  AtStage("leave") /\ Pending(Here) => code = Here.threw \/ Here.nested
=============================================================================
