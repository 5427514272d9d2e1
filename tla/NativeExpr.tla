----------------------------- MODULE NativeExpr -----------------------------
(***************************************************************************)
(* Expressions and assignments in the native back end (src/x86.c): the     *)
(* instructions that are emitted for one statement, and a machine that     *)
(* runs them.                                                              *)
(*                                                                         *)
(* Up to four locals are kept in callee-saved registers ("cached"), the    *)
(* others in the frame, which they share with the temporaries.  A value    *)
(* that has to outlive the evaluation of another one is put in the         *)
(* temporary numbered by the nesting (x->temp_depth).  A call leaves rcx   *)
(* and the argument registers undefined.  Values have the width of a       *)
(* register and elements its size; division is left to NativeDivision.     *)
(***************************************************************************)
EXTENDS LuExpr

CONSTANTS
  Locals,      \* sequence of the locals, in the order of declaration
  Cached,      \* those kept in registers
  Pointer,     \* the cached local that points to an array of int64
  Statements,  \* the statements that are compiled
  Starts,      \* the values that the variables start with
  Cells,       \* those of the array's elements
  MaxTemp      \* XV_MAX_TEMP (32)

ASSUME ExprAssumption ==
  /\ Cached \subseteq {Locals[k] : k \in 1..Len(Locals)}
  /\ Pointer \in Cached
  /\ MaxTemp \in Nat
  /\ 0 \in DOMAIN Cells

VARIABLES
  code,      \* the instructions of the statement
  expected,  \* what the statement means
  pc,
  reg,       \* rax, rcx and the argument registers
  vars,      \* the cached locals and the globals
  frame,     \* the words of the frame, the lowest first
  heap,      \* the array
  calls      \* the calls made: sequences of arguments

state == <<code, expected, pc, reg, vars, frame, heap, calls>>

\* Mutated form: the frame is sized for the locals alone.
FrameOfLocals == LET n == Len(Locals) + 1 IN n + (n % 2)

\* The frame: temporaries from the low end, locals from the high end, the
\* whole aligned to two words.
FrameWords == LET n == Len(Locals) + MaxTemp IN n + (n % 2)
WordOf(x) == FrameWords - (CHOOSE k \in 1..Len(Locals) : Locals[k] = x)
Framed == {Locals[k] : k \in 1..Len(Locals)} \ Cached

----------------------------------------------------------------------------
\* Instructions.

Rax == [in |-> "reg", r |-> "rax"]
Rcx == [in |-> "reg", r |-> "rcx"]
ArgNames == <<"rdi", "rsi">>
Arg(i) == [in |-> "reg", r |-> ArgNames[i]]
Imm(v) == [in |-> "imm", v |-> v]
Var(x) == [in |-> "var", x |-> x]
Temp(t) == [in |-> "temp", t |-> t]
At(r) == [in |-> "at", r |-> r]                    \* what a register points to
CellAt(p, i) == [in |-> "cell", p |-> p, i |-> i]  \* base and index operand

Mov(to, from) == [op |-> "mov", to |-> to, from |-> from]
Alu(f, to, from) == [op |-> "alu", f |-> f, to |-> to, from |-> from]
\* Jumps carry the number of instructions they skip.
JumpIf(f, a, b, over) == [op |-> "jcc", f |-> f, a |-> a, b |-> b, over |-> over]
Jump(over) == [op |-> "jmp", over |-> over]
CallFn(n) == [op |-> "call", n |-> n]

IsLeaf(e) == e.k \in {"imm", "var"}
IsCached(e) == e.k = "var" /\ e.x \in Cached
Leaf(e) == IF e.k = "imm" THEN Imm(e.v) ELSE Var(e.x)

\* cc_inv()
Inverted(f) ==
  CASE f = "<" -> ">="
    [] f = "=" -> "#"
    [] f = "#" -> "="

----------------------------------------------------------------------------
\* Code generation; t is x->temp_depth on entry.

RECURSIVE GenExpr(_, _), CondJump(_, _, _, _), EvalArgs(_, _, _)

\* gen_binop_from_rax(), mutated form: the temporary is not reserved.
SharedTemp(f, rhs, t) ==
  IF IsLeaf(rhs)
    THEN <<Mov(Rcx, Leaf(rhs)), Alu(f, Rax, Rcx)>>
    ELSE <<Mov(Temp(t), Rax)>> \o GenExpr(rhs, t)
           \o <<Mov(Rcx, Rax), Mov(Rax, Temp(t)), Alu(f, Rax, Rcx)>>

\* gen_binop_from_rax(): the left operand is in rax.
FromRax(f, rhs, t) ==
  CASE rhs.k = "imm" -> <<Alu(f, Rax, Imm(rhs.v))>>
    [] rhs.k = "var" -> <<Mov(Rcx, Var(rhs.x)), Alu(f, Rax, Rcx)>>
    [] OTHER -> <<Mov(Temp(t), Rax)>> \o GenExpr(rhs, t + 1)
                  \o <<Mov(Rcx, Rax), Mov(Rax, Temp(t)), Alu(f, Rax, Rcx)>>

\* gen_binop() of && and ||.
GenLogic(f, lhs, rhs, t) ==
  LET left == GenExpr(lhs, t)
      right == GenExpr(rhs, t)
      decided == IF f = "&&" THEN "=" ELSE "#"
      all == IF f = "&&" THEN 1 ELSE 0
  IN  left \o <<JumpIf(decided, Rax, Imm(0), Len(right) + 3)>>
        \o right
        \o <<JumpIf(decided, Rax, Imm(0), 2),
             Mov(Rax, Imm(all)), Jump(1), Mov(Rax, Imm(1 - all))>>

\* The comparison of gen_cond_jump(): a cached local is compared in place.
CompareJump(f, lhs, rhs, t, over) ==
  IF IsCached(lhs)
    THEN IF rhs.k = "imm" \/ IsCached(rhs)
           THEN <<JumpIf(f, Var(lhs.x), Leaf(rhs), over)>>
           ELSE GenExpr(rhs, t + 1)
                  \o <<Mov(Rcx, Rax), JumpIf(f, Var(lhs.x), Rcx, over)>>
    ELSE GenExpr(lhs, t + 1) \o
         CASE rhs.k = "imm" -> <<JumpIf(f, Rax, Imm(rhs.v), over)>>
           [] rhs.k = "var" -> <<Mov(Rcx, Var(rhs.x)), JumpIf(f, Rax, Rcx, over)>>
           [] OTHER -> <<Mov(Temp(t), Rax)>> \o GenExpr(rhs, t + 1)
                         \o <<Mov(Rcx, Rax), Mov(Rax, Temp(t)),
                              JumpIf(f, Rax, Rcx, over)>>

\* gen_cond_jump() of && and ||.
LogicJump(f, lhs, rhs, wanted, t, over) ==
  LET right == CondJump(rhs, wanted, t, over)
  IN  IF wanted # (f = "&&")
        THEN CondJump(lhs, wanted, t, over + Len(right)) \o right
        ELSE CondJump(lhs, ~wanted, t, Len(right)) \o right

\* gen_cond_jump(): skips `over` instructions after its own code when the
\* condition is as wanted.
CondJump(e, wanted, t, over) ==
  CASE e.k = "not" -> CondJump(e.a, ~wanted, t, over)
    [] e.k = "op" /\ e.f \in Logic -> LogicJump(e.f, e.a, e.b, wanted, t, over)
    [] e.k = "op" /\ e.f \in Compare ->
         CompareJump(IF wanted THEN e.f ELSE Inverted(e.f), e.a, e.b, t, over)
    [] OTHER ->
         GenExpr(e, t) \o <<JumpIf(IF wanted THEN "#" ELSE "=", Rax, Imm(0), over)>>

\* gen_addr() of an element: its address to rax.
GenAddr(index, t) ==
  CASE IsCached(index) -> <<Mov(Rax, Var(Pointer)), Alu("+", Rax, Var(index.x))>>
    [] ~IsCached(index) /\ IsLeaf(index) ->
         <<Mov(Rcx, Leaf(index)), Mov(Rax, Var(Pointer)), Alu("+", Rax, Rcx)>>
    [] OTHER -> <<Mov(Rax, Var(Pointer)), Mov(Temp(t), Rax)>>
                  \o GenExpr(index, t + 1)
                  \o <<Mov(Rcx, Temp(t)), Alu("+", Rax, Rcx)>>

\* eval_args() with more than one argument: to temporaries first.
EvalArgs(args, i, t) ==
  IF i > Len(args)
    THEN <<>>
    ELSE GenExpr(args[i], t + i) \o <<Mov(Temp(t + i - 1), Rax)>>
           \o EvalArgs(args, i + 1, t)

\* eval_args(): a single argument needs no temporary, and v + k not even rax.
GenArgs(args, t) ==
  LET a == args[1]
      inPlace == /\ a.k = "op"
                 /\ \/ a.f \in {"+", "-"} /\ IsCached(a.a) /\ a.b.k = "imm"
                    \/ a.f = "+" /\ IsCached(a.b) /\ a.a.k = "imm"
      v == IF IsCached(a.a) /\ a.b.k = "imm" THEN a.a ELSE a.b
      k == IF IsCached(a.a) /\ a.b.k = "imm" THEN a.b ELSE a.a
  IN  CASE args = <<>> -> <<>>
        [] Len(args) = 1 ->
             IF inPlace
               THEN <<Mov(Arg(1), Var(v.x)), Alu(a.f, Arg(1), Imm(k.v))>>
               ELSE GenExpr(a, t) \o <<Mov(Arg(1), Rax)>>
        [] OTHER -> EvalArgs(args, 1, t)
                      \o <<Mov(Rax, Temp(t)), Mov(Arg(1), Rax),
                           Mov(Rax, Temp(t + 1)), Mov(Arg(2), Rax)>>

\* gen_expr(): the value to rax.
GenExpr(e, t) ==
  CASE IsLeaf(e) -> <<Mov(Rax, Leaf(e))>>
    [] e.k = "op" /\ e.f \in Logic -> GenLogic(e.f, e.a, e.b, t)
    [] e.k = "op" /\ e.f \notin Logic ->
         GenExpr(e.a, t + 1) \o FromRax(e.f, e.b, t + 1)
    [] e.k = "not" -> GenExpr(e.a, t) \o <<Alu("=", Rax, Imm(0))>>
    [] e.k = "cond" ->
         LET then == GenExpr(e.a, t)
             else == GenExpr(e.b, t)
         IN  CondJump(e.c, FALSE, t, Len(then) + 1)
               \o then \o <<Jump(Len(else))>> \o else
    [] e.k = "index" -> GenAddr(e.a, t) \o <<Mov(Rax, At("rax"))>>
    [] e.k = "call" -> GenArgs(e.args, t) \o <<CallFn(Len(e.args))>>

\* expr_is_pure()
RECURSIVE Pure(_)
Pure(e) ==
  CASE IsLeaf(e) -> TRUE
    [] e.k = "op" -> Pure(e.a) /\ Pure(e.b)
    [] e.k = "cond" -> Pure(e.c) /\ Pure(e.a) /\ Pure(e.b)
    [] e.k \in {"not", "index"} -> Pure(e.a)
    [] e.k = "call" -> FALSE

\* What gen_set() adds to x or subtracts from it in place; Set otherwise.
Other(x, e) ==
  LET is(side) == side.k = "var" /\ side.x = x
  IN  CASE e.k # "op" -> {}
        [] e.k = "op" /\ e.f \notin {"+", "-"} -> {}
        [] e.k = "op" /\ e.f \in {"+", "-"} ->
             IF is(e.a) THEN {e.b} ELSE IF e.f = "+" /\ is(e.b) THEN {e.a} ELSE {}

ByRegister(x, other) == x \in Cached /\ IsCached(other)
ByConstant(x, other) == other.k = "imm"
ByElement(x, other) ==
  x \in Cached /\ other.k = "index" /\ (IsCached(other.a) \/ other.a.k = "imm")
ByValue(x, other) == x \in Cached /\ Pure(other)

\* The read-modify-write forms of x = x + other and x = x - other, the first
\* that applies.  The constant of a subtraction is negated first, and then
\* subtracted if x is in a register.
InPlace(x, f, other) ==
  LET delta == IF f = "+" THEN other.v ELSE -other.v
  IN  CASE ByRegister(x, other) -> <<Alu(f, Var(x), Var(other.x))>>
        [] ByConstant(x, other) ->
             (CASE delta = 0 -> <<>>
                [] delta # 0 /\ (x \notin Cached \/ delta \in {1, -1}) ->
                    <<Alu("+", Var(x), Imm(delta))>>
                [] delta \notin {0, 1, -1} /\ x \in Cached ->
                    <<Alu(f, Var(x), Imm(delta))>>)
        [] ByElement(x, other) -> <<Alu(f, Var(x), CellAt(Pointer, Leaf(other.a)))>>
        [] OTHER -> GenExpr(other, 0) \o <<Alu(f, Var(x), Rax)>>

\* gen_set() of a variable.
SetVar(x, f, e) ==
  LET inPlace == {other \in Other(x, e) :
                    \/ ByRegister(x, other) \/ ByConstant(x, other)
                    \/ ByElement(x, other) \/ ByValue(x, other)}
  IN  IF f = "" /\ inPlace # {}
        THEN InPlace(x, e.f, CHOOSE other \in inPlace : TRUE)
        ELSE (IF f = ""
                THEN GenExpr(e, 0)
                ELSE <<Mov(Rax, Var(x))>> \o FromRax(f, e, 1))
             \o <<Mov(Var(x), Rax)>>

\* gen_set() of an element.
SetElement(index, f, e) ==
  IF f = "" /\ Pure(e) /\ (IsCached(index) \/ index.k = "imm")
    THEN GenExpr(e, 0)
           \o <<Mov(Rcx, Var(Pointer)), Alu("+", Rcx, Leaf(index)),
                Mov(At("rcx"), Rax)>>
    ELSE GenAddr(index, 1) \o <<Mov(Temp(0), Rax)>> \o
         IF f = ""
           THEN GenExpr(e, 1) \o <<Mov(Rcx, Temp(0)), Mov(At("rcx"), Rax)>>
           ELSE <<Mov(Rax, Temp(0)), Mov(Rax, At("rax")), Mov(Temp(1), Rax)>>
                  \o GenExpr(e, 2)
                  \o <<Mov(Temp(2), Rax), Mov(Rax, Temp(1)), Mov(Rcx, Temp(2)),
                       Alu(f, Rax, Rcx), Mov(Rcx, Temp(0)), Mov(At("rcx"), Rax)>>

\* gen_if() with an else, and gen_set().
GenStatement(st) ==
  CASE st.k = "if" ->
         CondJump(st.c, FALSE, 0, 2)
           \o <<Mov(Var(st.x), Imm(1)), Jump(1), Mov(Var(st.x), Imm(0))>>
    [] st.k = "set" /\ st.to.k = "var" -> SetVar(st.to.x, st.f, st.e)
    [] st.k = "set" /\ st.to.k = "index" -> SetElement(st.to.a, st.f, st.e)

----------------------------------------------------------------------------
\* The machine.

Base == 100   \* where the array is
Junk == 77    \* what a call leaves in the registers

Read(o) ==
  CASE o.in = "reg" -> reg[o.r]
    [] o.in = "imm" -> o.v
    [] o.in = "var" ->
         IF o.x \in Framed THEN frame[WordOf(o.x)] ELSE vars[o.x]
    [] o.in = "temp" -> frame[o.t]
    [] o.in = "at" -> Element(heap, reg[o.r] - Base)
    [] o.in = "cell" ->
         Element(heap, (vars[o.p] - Base)
                         + IF o.i.in = "imm" THEN o.i.v ELSE vars[o.i.x])

Write(o, v) ==
  /\ reg' = IF o.in = "reg" THEN [reg EXCEPT ![o.r] = v] ELSE reg
  /\ vars' = IF o.in = "var" /\ o.x \notin Framed
               THEN [vars EXCEPT ![o.x] = v] ELSE vars
  /\ frame' = CASE o.in = "temp" -> [frame EXCEPT ![o.t] = v]
                [] o.in = "var" /\ o.x \in Framed ->
                     [frame EXCEPT ![WordOf(o.x)] = v]
                [] OTHER -> frame
  /\ heap' = IF o.in = "at" THEN Updated(heap, reg[o.r] - Base, v) ELSE heap

Init ==
  \E st \in Statements, start \in Starts :
    LET known == [x \in DOMAIN start \cup {Pointer} |->
                    IF x = Pointer THEN Base ELSE start[x]]
    IN  /\ code = GenStatement(st)
        /\ expected = Meaning(st, [vars |-> known, heap |-> Cells,
                                   calls |-> <<>>, v |-> 0])
        /\ pc = 1
        /\ reg = [r \in {"rax", "rcx", "rdi", "rsi"} |-> Junk]
        /\ vars = [x \in DOMAIN known \ Framed |-> known[x]]
        /\ frame = [w \in 0..(FrameWords - 1) |->
                      IF \E x \in Framed : WordOf(x) = w
                        THEN known[CHOOSE x \in Framed : WordOf(x) = w]
                        ELSE Junk]
        /\ heap = Cells
        /\ calls = <<>>

Here == code[pc]
Is(op) == pc <= Len(code) /\ Here.op = op
Rest == UNCHANGED <<code, expected>>

Move == Is("mov") /\ Write(Here.to, Read(Here.from)) /\ pc' = pc + 1
          /\ UNCHANGED calls /\ Rest

Compute ==
  /\ Is("alu")
  /\ Write(Here.to, Apply(Here.f, Read(Here.to), Read(Here.from)))
  /\ pc' = pc + 1
  /\ UNCHANGED calls
  /\ Rest

Branch ==
  /\ Is("jcc") \/ Is("jmp")
  /\ pc' = pc + 1 +
       (IF Here.op = "jmp" \/ Apply(Here.f, Read(Here.a), Read(Here.b)) = 1
          THEN Here.over ELSE 0)
  /\ UNCHANGED <<reg, vars, frame, heap, calls>>
  /\ Rest

\* Callees save the cached registers and have frames of their own.
CallOut ==
  /\ Is("call")
  /\ LET args == [i \in 1..Here.n |-> reg[ArgNames[i]]]
         after == Called(args, vars, heap)
     IN  /\ vars' = after.vars
         /\ heap' = after.heap
         /\ reg' = [r \in DOMAIN reg |-> IF r = "rax" THEN after.result ELSE Junk]
         /\ calls' = Append(calls, args)
  /\ pc' = pc + 1
  /\ UNCHANGED frame
  /\ Rest

Next == Move \/ Compute \/ Branch \/ CallOut
Spec == Init /\ [][Next]_state

----------------------------------------------------------------------------
\* Properties.

Final(x) == IF x \in Framed THEN frame[WordOf(x)] ELSE vars[x]

\* When the code of a statement has run, the variables and the array have the
\* values that the statement gives them, and the calls are those it makes, in
\* their order and with their arguments, none that && and || or the other
\* branch of a conditional leaves out (gen_set(), gen_cond_jump() and all
\* below: whatever was kept in rax, rcx, a temporary or a cached register
\* while something else was evaluated is still what it was).
ResultIsMeant ==
  pc > Len(code) =>
    /\ \A x \in DOMAIN expected.vars : Final(x) = expected.vars[x]
    /\ heap = expected.heap
    /\ calls = expected.calls

\* Saving a temporary never changes a local: the two share the frame from its
\* two ends (temp_disp() and gen_function()).
TempsApart ==
  [][(Is("mov") /\ Here.to.in = "temp") =>
       \A x \in Framed : frame'[WordOf(x)] = frame[WordOf(x)]]_state
=============================================================================
