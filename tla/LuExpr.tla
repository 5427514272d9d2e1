------------------------------- MODULE LuExpr -------------------------------
(***************************************************************************)
(* What an expression and an assignment of Lu mean: the reference for      *)
(* NativeExpr.  Statements are trees; an expression is one of              *)
(*   [k |-> "imm", v]         a literal that fits 32 bits                  *)
(*   [k |-> "var", x]         a variable                                   *)
(*   [k |-> "op", f, a, b]    f one of + - < = && ||                       *)
(*   [k |-> "not", a]                                                      *)
(*   [k |-> "cond", c, a, b]  c ? a : b                                    *)
(*   [k |-> "index", a]       an element of the array                      *)
(*   [k |-> "call", args]     of a function with side effects              *)
(* and a statement [k |-> "set", to, f, e], f being "" or an operator and  *)
(* to a "var" or an "index", or [k |-> "if", c, x], which sets x to 1 if c *)
(* holds and to 0 otherwise.                                               *)
(***************************************************************************)
EXTENDS Integers, Sequences

CONSTANTS
  Globals   \* the variables that a call changes

Logic == {"&&", "||"}
Compare == {"<", "="}
Bit(b) == IF b THEN 1 ELSE 0

Apply(f, a, b) ==
  CASE f = "+" -> a + b
    [] f = "-" -> a - b
    [] f = "<" -> Bit(a < b)
    [] f = ">=" -> Bit(a >= b)
    [] f = "=" -> Bit(a = b)
    [] f = "#" -> Bit(a # b)

\* What lies outside the array belongs to nobody.
Element(cells, i) == IF i \in DOMAIN cells THEN cells[i] ELSE 0
Updated(cells, i, v) ==
  [j \in DOMAIN cells |-> IF j = i THEN v ELSE cells[j]]

\* The function that is called counts its calls in the globals and in the
\* first element of the array.
Called(args, vars, heap) ==
  [vars   |-> [x \in DOMAIN vars |->
                 IF x \in Globals THEN vars[x] + 1 ELSE vars[x]],
   heap   |-> Updated(heap, 0, heap[0] + 1),
   result |-> IF args = <<>> THEN heap[0] % 2 ELSE args[1] + args[Len(args)]]

\* A context is the variables, the array and the calls made so far; v is the
\* value of what was evaluated last.
With(s, v) == [s EXCEPT !.v = v]

\* Operands are evaluated from left to right, which the language leaves open;
\* the second operand of && and ||, and a branch, only when they count, which
\* it does not.
RECURSIVE Value(_, _), Values(_, _)
Value(e, s) ==
  CASE e.k = "imm" -> With(s, e.v)
    [] e.k = "var" -> With(s, s.vars[e.x])
    [] e.k = "op" /\ e.f \in Logic ->
         LET left == Value(e.a, s)
             right == Value(e.b, left)
         IN  IF (left.v # 0) = (e.f = "||")
               THEN With(left, Bit(left.v # 0))
               ELSE With(right, Bit(right.v # 0))
    [] e.k = "op" /\ e.f \notin Logic ->
         LET left == Value(e.a, s)
             right == Value(e.b, left)
         IN  With(right, Apply(e.f, left.v, right.v))
    [] e.k = "not" ->
         LET inner == Value(e.a, s)
         IN  With(inner, Bit(inner.v = 0))
    [] e.k = "cond" ->
         LET test == Value(e.c, s)
         IN  IF test.v # 0 THEN Value(e.a, test) ELSE Value(e.b, test)
    [] e.k = "index" ->
         LET inner == Value(e.a, s)
         IN  With(inner, Element(inner.heap, inner.v))
    [] e.k = "call" ->
         LET given == Values(e.args, With(s, <<>>))
             after == Called(given.v, given.vars, given.heap)
         IN  [vars |-> after.vars, heap |-> after.heap,
              calls |-> Append(given.calls, given.v), v |-> after.result]

\* The values of arguments, appended to those that s has.
Values(args, s) ==
  IF args = <<>>
    THEN s
    ELSE LET first == Value(Head(args), With(s, 0))
         IN  Values(Tail(args), With(first, Append(s.v, first.v)))

Assigned(s, x, v) == [s EXCEPT !.vars[x] = v]

Meaning(st, s) ==
  CASE st.k = "if" ->
         LET test == Value(st.c, s)
         IN  Assigned(test, st.x, Bit(test.v # 0))
    [] st.k = "set" /\ st.to.k = "var" ->
         LET new == Value(st.e, s)
             old == s.vars[st.to.x]
         IN  Assigned(new, st.to.x,
                      IF st.f = "" THEN new.v ELSE Apply(st.f, old, new.v))
    [] st.k = "set" /\ st.to.k = "index" ->
         LET place == Value(st.to.a, s)
             old == Element(place.heap, place.v)
             new == Value(st.e, place)
         IN  [new EXCEPT !.heap =
                Updated(@, place.v,
                        IF st.f = "" THEN new.v ELSE Apply(st.f, old, new.v))]
=============================================================================
