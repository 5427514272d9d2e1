---------------------------- MODULE MCNativeExpr ----------------------------
(***************************************************************************)
(* Statements over three cached locals (one a pointer), two framed ones    *)
(* and a global.  Operands are chosen so that every form of a leaf meets   *)
(* every form of the others: literals, cached, framed and global           *)
(* variables, elements, calls, and conditions in conditions.               *)
(***************************************************************************)
EXTENDS NativeExpr

num(v) == [k |-> "imm", v |-> v]
var(x) == [k |-> "var", x |-> x]
op(f, a, b) == [k |-> "op", f |-> f, a |-> a, b |-> b]
not(a) == [k |-> "not", a |-> a]
cond(c, a, b) == [k |-> "cond", c |-> c, a |-> a, b |-> b]
elem(a) == [k |-> "index", a |-> a]
call(args) == [k |-> "call", args |-> args]
set(to, f, e) == [k |-> "set", to |-> to, f |-> f, e |-> e]
if(c, x) == [k |-> "if", c |-> c, x |-> x]

MCLocals == <<"p", "a", "i", "b", "c">>
MCCached == {"p", "a", "i"}
MCGlobals == {"g"}
MCCells == [j \in 0..7 |-> (3 * j) % 5]
MCStarts == {[a |-> 3, i |-> 1, b |-> 2, c |-> 0, g |-> 4],
             [a |-> 0, i |-> 2, b |-> 0, c |-> 1, g |-> 0]}

Leaves == {num(1), num(2), var("a"), var("b"), var("g")}
Simple == {op(f, x, y) : f \in {"+", "-", "<"}, x \in Leaves, y \in Leaves}

\* Operands that are not leaves: one of each kind of code.
Deep == {op("+", var("a"), var("g")), op("-", var("b"), num(1)),
         op("-", num(2), op("+", var("b"), var("i"))), not(var("b")),
         elem(var("i")), elem(num(2)), elem(var("b")),
         elem(op("-", var("g"), elem(num(0)))),
         call(<<>>), call(<<op("+", num(2), var("a"))>>),
         call(<<op("-", var("a"), num(2))>>), call(<<elem(var("b"))>>),
         call(<<call(<<>>), var("b")>>), call(<<var("g"), call(<<var("b")>>)>>),
         cond(op("<", var("b"), var("a")), call(<<>>), elem(num(3))),
         op("&&", call(<<>>), var("b")), op("||", var("b"), call(<<var("a")>>))}

Binary == {op(f, x, y) : f \in {"+", "-", "<", "=", "&&", "||"},
                         x \in Deep \cup Leaves, y \in Deep}
            \cup {op(f, x, y) : f \in {"-", "&&"}, x \in Deep, y \in Leaves}

Targets == {var("a"), var("b"), var("g"), elem(var("i")), elem(var("b")),
            elem(op("+", var("b"), var("i"))), elem(call(<<var("i")>>))}

\* A constant subtracted from a cached local in place.
Decrements == {set(var("a"), "", op("-", var("a"), num(k))) : k \in {2, 3}}

Assignments ==
  {set(to, "", e) : to \in Targets, e \in Simple \cup Deep}
    \cup {set(to, f, e) : to \in Targets, f \in {"+", "-"}, e \in Leaves \cup Deep}
    \cup {set(to, "", e) : to \in {var("a"), var("b")}, e \in Binary}
    \cup {set(to, "", op(f, to, e)) : to \in {var("a"), var("b"), var("g")},
                                      f \in {"+", "-"}, e \in Leaves \cup Deep}

Conditions0 == {var("b"), call(<<>>), op("<", var("a"), call(<<num(1)>>)),
                op("=", call(<<var("a")>>), num(3)), op("<", var("i"), var("a"))}
Conditions1 == {op(f, x, y) : f \in Logic, x \in Conditions0, y \in Conditions0}
Conditions2 == {op(f, x, not(y)) : f \in Logic, x \in Conditions0, y \in Conditions1}
                 \cup {op(f, not(x), y) : f \in Logic, x \in Conditions1, y \in Conditions0}

Conditionals ==
  {if(c, "b") : c \in Conditions0 \cup Conditions1 \cup Conditions2}
    \cup {set(var("c"), "", e) : e \in Conditions1 \cup Conditions2}
    \cup {set(var("c"), "", cond(e, num(2), call(<<var("c")>>))) : e \in Conditions1}

MCStatements == (Assignments \cup Conditionals) \ Decrements
=============================================================================
