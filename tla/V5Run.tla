------------------------------- MODULE V5Run -------------------------------
(***************************************************************************)
(* The accepted bodies of V5Statements, run: the emitted Classic text as   *)
(* the back ends compile it (gen_if and gen_loop_* of src/x86.c, the if    *)
(* and loop cases of gen_node in src/codegen.c).  A condition may go       *)
(* either way each time it is tested; a range and the first value of a     *)
(* variable are chosen from small sets.                                    *)
(***************************************************************************)
EXTENDS V5Statements

CONSTANTS
  Backend,    \* "native" or "C"
  Starts,     \* the a of a range a..b
  Counts      \* how many numbers a range has, and first values of variables

ASSUME RunAssumption ==
  /\ Backend \in {"native", "C"}
  /\ Starts \subseteq Nat
  /\ Counts \subseteq Nat

VARIABLES
  pc,       \* the emitted line to run
  active,   \* the entered blocks, the innermost last
  num,      \* the numbers held by names
  heap,     \* what the pointers point to: "none", "live", "freed"
  state     \* "off", "running", or how the run ended

runVars == <<pc, active, num, heap, state>>
allVars == <<vars, runVars>>

Ends == {"returned", "fellOff", "useAfterFree", "doubleFree", "notCompiled"}

RunInit ==
  /\ Init
  /\ pc = 1
  /\ active = <<>>
  /\ num = [x \in Name |-> 0]
  /\ heap = [x \in Name |-> "none"]
  /\ state = "off"

----------------------------------------------------------------------------
\* The line that closes the block opened at line q.
Matching(q) ==
  CHOOSE last \in q..Len(code) :
    /\ Count(q, last, {"close"}) = Count(q, last, Openings)
    /\ \A mid \in q..(last - 1) :
         Count(q, mid, {"close"}) < Count(q, mid, Openings)

\* Past the else branches that follow line q: the Classic parser makes them
\* part of the if.  An else that follows anything else is a block, and an
\* else if is an if, in a statement of their own.
PastElse(q) ==
  LET past[line \in Nat \ {0}] ==
        IF line <= Len(code) /\ code[line].op \in {"else", "elseif"}
          THEN past[Matching(line) + 1] ELSE line
  IN  past[q]

Within(q, ops) ==
  \E open \in 1..(q - 1) : code[open].op \in ops /\ Matching(open) > q

\* `break` and `continue` outside of a loop are errors of the back ends.
Compiles ==
  \A q \in 1..Len(code) :
    code[q].op \in {"break", "continue"} => Within(q, Loops)

Start ==
  /\ verdict = "accepted"
  /\ state = "off"
  /\ state' = IF Compiles THEN "running" ELSE "notCompiled"
  /\ UNCHANGED <<vars, pc, active, num, heap>>

Op == code[pc].op
At(ops) == state = "running" /\ pc <= Len(code) /\ Op \in ops

Frame(at, base, entry) == [at |-> at, base |-> base, entry |-> entry, done |-> 0]
TopFrame == Last(active)

Go(line) == pc' = line /\ UNCHANGED <<vars, state>>
Stop(how) == state' = how /\ UNCHANGED <<vars, pc, active, num, heap>>

Declare ==
  /\ At({"bind"})
  /\ IF code[pc].x \in Pointers
       THEN heap' = [heap EXCEPT ![code[pc].x] = "live"] /\ UNCHANGED num
       ELSE \E n \in Counts : /\ num' = [num EXCEPT ![code[pc].x] = n]
                              /\ UNCHANGED heap
  /\ Go(pc + 1)
  /\ UNCHANGED active

Access ==
  /\ At({"use"})
  /\ IF heap[code[pc].x] = "freed"
       THEN Stop("useAfterFree")
       ELSE Go(pc + 1) /\ UNCHANGED <<active, num, heap>>

\* Lines whose effect is not modelled: a condition goes either way.
Compute ==
  /\ At({"temp", "hoist"})
  /\ Go(pc + 1)
  /\ UNCHANGED <<active, num, heap>>

\* The C code calls free(); the native code has an arena and gives nothing
\* back, so that only the state of the name is at stake there.
Free ==
  /\ At({"free"})
  /\ IF heap[code[pc].x] = "freed"
       THEN Stop("doubleFree")
       ELSE /\ heap' = [heap EXCEPT ![code[pc].x] = "freed"]
            /\ Go(pc + 1)
            /\ UNCHANGED <<active, num>>

\* `set x = x - 1` stops at 0 here, which is enough to change a count.
Assign ==
  /\ At({"set", "inc"})
  /\ num' = [num EXCEPT ![code[pc].x] =
               IF Op = "inc" THEN @ + 1 ELSE IF @ = 0 THEN 0 ELSE @ - 1]
  /\ Go(pc + 1)
  /\ UNCHANGED <<active, heap>>

\* A branch: taken, or passed over to the next one.
Branch ==
  /\ At({"if", "elseif", "else"})
  /\ \/ /\ active' = Append(active, Frame(pc, 0, 0))
        /\ Go(pc + 1)
     \/ /\ Op # "else"
        /\ Go(Matching(pc) + 1)
        /\ UNCHANGED active
  /\ UNCHANGED <<num, heap>>

\* The block of a lowered range evaluates a and b once.
EnterScope ==
  /\ At({"scope"})
  /\ \E start \in Starts, n \in Counts :
       /\ active' = Append(active, Frame(pc, start, n))
       /\ num' = [num EXCEPT ![code[pc].x] = start]
  /\ Go(pc + 1)
  /\ UNCHANGED heap

\* How often a counted loop is to run when it is reached; arrays have two
\* elements.
Entry ==
  CASE Op = "loop"  -> num[code[pc].x]
    [] Op = "range" -> TopFrame.entry
    [] Op = "each"  -> 2
    [] OTHER        -> 0

EnterLoop ==
  /\ At(Loops)
  /\ \/ /\ Op = "while" \/ Entry > 0
        /\ active' = Append(active, Frame(pc, 0, Entry))
        /\ Go(pc + 1)
     \/ /\ Op = "while" \/ Entry = 0
        /\ Go(Matching(pc) + 1)
        /\ UNCHANGED active
  /\ UNCHANGED <<num, heap>>

\* Mutated form: the hidden slot is tested before it is counted down.
AgainOnceMore(f) == f.done < f.entry

\* Whether a loop whose body has run runs it once more.  The native code
\* counts a hidden slot down from the count it found; the C code compares its
\* counter with the expression again.
NativeAgain(f) == f.done + 1 < f.entry
CAgain(f) ==
  f.done + 1 < IF code[f.at].op = "loop" THEN num[code[f.at].x] ELSE f.entry

Again(f) == IF Backend = "native" THEN NativeAgain(f) ELSE CAgain(f)

EndOfBlock ==
  /\ At({"close"})
  /\ LET op   == code[TopFrame.at].op
         once == /\ active' = [active EXCEPT ![Len(active)].done = @ + 1]
                 /\ Go(TopFrame.at + 1)
         exit == active' = Front(active) /\ Go(pc + 1)
     IN  CASE op \in {"if", "elseif", "else"} ->
                active' = Front(active) /\ Go(PastElse(pc + 1))
           [] op = "while" -> active' = Front(active) /\ Go(TopFrame.at)
           [] op \in {"loop", "range", "each"} ->
                IF Again(TopFrame) THEN once ELSE exit
           [] OTHER -> exit
  /\ UNCHANGED <<num, heap>>

\* The entered loop that `break` and `continue` are about.
Innermost ==
  CHOOSE k \in 1..Len(active) :
    /\ code[active[k].at].op \in Loops
    /\ \A j \in (k + 1)..Len(active) : code[active[j].at].op \notin Loops

BreakLoop ==
  /\ At({"break"})
  /\ active' = SubSeq(active, 1, Innermost - 1)
  /\ Go(Matching(active[Innermost].at) + 1)
  /\ UNCHANGED <<num, heap>>

\* Both back ends put the target behind the body and before the counting.
ContinueLoop ==
  /\ At({"continue"})
  /\ active' = SubSeq(active, 1, Innermost)
  /\ Go(Matching(active[Innermost].at))
  /\ UNCHANGED <<num, heap>>

Return == At({"return"}) /\ Stop("returned")

EndOfBody ==
  /\ state = "running"
  /\ pc > Len(code)
  /\ Stop(IF valued THEN "fellOff" ELSE "returned")

Run ==
  \/ Start \/ Declare \/ Access \/ Compute \/ Free \/ Assign \/ Branch
  \/ EnterScope \/ EnterLoop \/ EndOfBlock \/ BreakLoop \/ ContinueLoop \/ Return
  \/ EndOfBody

RunNext == (Parse /\ UNCHANGED runVars) \/ Run

RunSpec == RunInit /\ [][RunNext]_allVars

----------------------------------------------------------------------------
\* What the language says of a body.  Some of it does not hold of the code.

\* "A non-void function MUST return on every path" (SPEC.md 6): what the
\* structural analysis of body(), parse_if() and parse_match() accepts never
\* runs off the end, whichever way its conditions go.
ReturnsOnEveryPath == state # "fellOff"

\* After a branch of `if ... else if ... else` or of a match, "the condition is
\* skipped when the first branch was taken" (src/parser.c, 2650-2652): control
\* never comes from one branch to the head of the next, nor to what computes
\* its condition.  It does where parse_if() puts that between the branches.
ChainRunsOneBranch ==
  [][(/\ At({"close"})
      /\ code[TopFrame.at].op \in {"if", "elseif"})
     => ~\E q \in pc'..Len(code) :
          /\ code[q].op \in {"else", "elseif"}
          /\ \A r \in pc'..(q - 1) : code[r].op = "hoist"]_allVars

\* "`while c { ... }` tests before each iteration" (SPEC.md 6): where something
\* has to be computed to test c, control comes to the test from there only.
\* parse_while() puts it in front of the loop, and the loop goes back to c.
WhileTestsAgain ==
  [][(/\ pc' # pc
      /\ pc' \in 2..Len(code)
      /\ code[pc'].op = "while"
      /\ code[pc' - 1].op = "hoist")
     => pc = pc' - 1]_allVars

\* `for i in a..b` iterates the half-open range (SPEC.md 6): however earlier
\* iterations ended, and whatever is nested in the body, the variable of the
\* range is a + k when its k-th iteration begins (parse_for and the lowering
\* of continue), unless the body sets it.
RangeVariableAdvances ==
  \A k \in 2..Len(active) :
    LET f == active[k]
    IN  (/\ state = "running"
         /\ k = Len(active)
         /\ code[f.at].op = "range"
         /\ pc = f.at + 1
         /\ ~\E q \in f.at..Matching(f.at) : code[q] = Instr("set", code[f.at].x))
        => num[code[f.at].x] = active[k - 1].base + f.done

\* "`loop N` runs exactly N times" (SPEC.md 6): a counted loop that is left at
\* its end has run as often as its count said when it was entered.
LoopRunsCount ==
  [][(/\ At({"close"})
      /\ code[TopFrame.at].op \in {"loop", "range", "each"}
      /\ Len(active') < Len(active))
     => TopFrame.done + 1 = TopFrame.entry]_allVars

\* "use or second `Del` after `Del p`" is an error (docs/meta/errors.md, E-050):
\* in a body without loops nothing is freed twice.  parse_del() does not look
\* whether the name was freed.
SecondDelRefused ==
  state = "doubleFree" => \E q \in 1..Len(code) : code[q].op \in Loops

\* `Del p` "makes further use of p a compile-time error in the same scope"
\* (SPEC.md 4.4).  The check follows the text: what it lets through is a use
\* in an iteration after the one that freed, and nothing else.
UseAfterDelNeedsLoop ==
  state = "useAfterFree" =>
    \E q \in 1..Len(code) :
      code[q] = Instr("free", code[pc].x) /\ Within(q, Loops)

=============================================================================
