------------------------------ MODULE MCV5Text ------------------------------
(***************************************************************************)
(* The declarations that the expressions are about, and the expressions:   *)
(* each is built together with the tree it means (SPEC.md, sections 4 and  *)
(* 5), with parentheses only where its precedence needs them, or one pair  *)
(* more.                                                                   *)
(***************************************************************************)
EXTENDS V5Text

T(kind) == [kind |-> kind]
PtrTo(t) == [kind |-> "ptr", base |-> t]
ArrOf(t, n) == [kind |-> "arr", base |-> t, count |-> n]
Struct == [kind |-> "named", name |-> "S"]
Pack == [kind |-> "named", name |-> "K"]

MCVars == [n |-> T("int"), l |-> T("int64"), b |-> T("byte"), t |-> T("bool"),
           w |-> T("str"), a |-> ArrOf(T("int"), 2), ws |-> ArrOf(T("str"), 2),
           p |-> PtrTo(T("int")), q |-> PtrTo(Struct), s |-> Struct, k |-> Pack,
           old |-> PtrTo(T("int"))]
MCFreed == {"old"}
MCFunctions == [f |-> [params |-> <<T("int")>>, ret |-> T("int")],
                g |-> [params |-> <<>>, ret |-> PtrTo(Struct)],
                e |-> [params |-> <<T("byte"), T("str")>>, ret |-> T("bool")]]
MCStructs == [S |-> [
    fields |-> [n |-> T("int"), t |-> T("bool"), s |-> Struct, q |-> PtrTo(Struct),
                a |-> ArrOf(T("int"), 2), hidden |-> T("int")],
    visible |-> {"n", "t", "s", "q", "a"},
    methods |-> [get |-> [params |-> <<>>, ret |-> T("int")],
                 set |-> [params |-> <<T("int")>>, ret |-> PtrTo(Struct)],
                 put_int |-> [params |-> <<T("int")>>, ret |-> PtrTo(Struct)],
                 put_str |-> [params |-> <<T("str")>>, ret |-> PtrTo(Struct)],
                 get_int |-> [params |-> <<PtrTo(T("int"))>>, ret |-> PtrTo(Struct)]]]]
MCPacks == [K |-> [on |-> [shift |-> "0", width |-> "1", ty |-> T("bool")],
                   lo |-> [shift |-> "1", width |-> "4", ty |-> T("byte")]]]
MCStrings == ("'x" :> <<"x">>) @@ ("'q" :> <<"\"", "\\", "\n">>) @@ ("'none" :> <<>>)
MCLetters == {"n", "l", "b", "t", "w", "a", "ws", "p", "q", "s", "k", "old", "f", "g", "e",
              "S", "K", "x", "hidden", "get", "set", "put_int", "put_str", "get_int", "on", "lo",
              "bits", "true", "false", "int", "int64", "byte", "bool", "syscall", "nothing",
              "__lu_pkget", "__lu_streq", "__lu_f", "__lu_i", "put_bool"}
-----------------------------------------------------------------------------
(* An expression: tokens, level of its operator, tree and type; whether it *)
(* is written as a place, whether as one word with dots, and whether it is *)
(* legal.                                                                  *)
Expression(tokens, level, tree, ty) ==
    [toks |-> tokens, level |-> level, tree |-> tree, ty |-> ty,
     place |-> FALSE, dotted |-> FALSE, legal |-> TRUE]
PlaceOf(e, dotted) == [e EXCEPT !.place = TRUE, !.dotted = dotted]
Wrap(e, level) == IF e.level >= level THEN e.toks ELSE <<"(">> \o e.toks \o <<")">>
N(kind, val, kids) == Classic!Node(kind, val, kids)
CallTree(name, args) == N("call", name, args)

Name(x) == PlaceOf(Expression(<<x>>, 9, N("ident", <<x>>, <<>>), MCVars[x]), TRUE)
Num(d) == Expression(<<d>>, 9, N("int", <<d>>, <<>>), T("int"))
True == Expression(<<"true">>, 9, N("bool", <<"true">>, <<>>), T("bool"))
String(t) == Expression(<<t>>, 9, N("string", MCStrings[t], <<>>), T("str"))
InParens(e) == [e EXCEPT !.toks = <<"(">> \o e.toks \o <<")">>, !.level = 9]

Unop(op, e, ty) ==
    Expression(<<op>> \o Wrap(e, 8), 8,
               N(IF op = "&" THEN "ref" ELSE "unop", <<op>>, <<e.tree>>), ty)
Neg(e) == Unop("-", e, IF e.ty.kind = "int64" THEN e.ty ELSE T("int"))
Not(e) == Unop("!", e, T("bool"))
Ref(e) == Unop("&", e, PtrTo(e.ty))

Level == ("||" :> 1) @@ ("&&" :> 2) @@ ("==" :> 3) @@ ("!=" :> 3) @@ ("<" :> 3)
           @@ (">=" :> 3) @@ ("<<" :> 5) @@ (">>" :> 5) @@ ("+" :> 6) @@ ("-" :> 6)
           @@ ("*" :> 7) @@ ("/" :> 7) @@ ("%" :> 7)
Atoms == ("||" :> <<"|", "|">>) @@ ("&&" :> <<"&", "&">>) @@ ("==" :> <<"=", "=">>)
           @@ ("!=" :> <<"!", "=">>) @@ (">=" :> <<">", "=">>)
           @@ ("<<" :> <<"<", "<">>) @@ (">>" :> <<">", ">">>)
Binop(op, l, r) ==
    LET level == Level[op]
        left == IF level = 3 THEN 5 ELSE level
    IN  Expression(Wrap(l, left) \o <<op>> \o Wrap(r, IF level = 3 THEN 5 ELSE level + 1), level,
          IF op \in {"==", "!="} /\ l.ty.kind = "str"
          THEN LET eq == CallTree(<<"__lu_streq">>, <<l.tree, r.tree>>)
               IN  IF op = "==" THEN eq ELSE N("unop", <<"!">>, <<eq>>)
          ELSE N("binop", IF op \in DOMAIN Atoms THEN Atoms[op] ELSE <<op>>, <<l.tree, r.tree>>),
          IF level <= 3 THEN T("bool") ELSE T("int"))

Element(l, i) == PlaceOf(Expression(l.toks \o <<"[">> \o i.toks \o <<"]">>, 9,
                                    N("index", <<>>, <<l.tree, i.tree>>), l.ty.base), FALSE)
Member(l, name) ==
    LET arrow == l.ty.kind = "ptr"
    IN  PlaceOf(Expression(l.toks \o <<".", name>>, 9,
                  N("field", <<IF arrow THEN "->" ELSE ".", name>>, <<l.tree>>),
                  MCStructs["S"].fields[name]), l.dotted /\ ~arrow)
Packed(l, name) ==
    LET bit == MCPacks["K"][name]
        get == CallTree(<<"__lu_pkget">>, <<N("field", <<".", "bits">>, <<l.tree>>),
                 N("int", <<bit.shift>>, <<>>), N("int", <<bit.width>>, <<>>)>>)
    IN  Expression(l.toks \o <<".", name>>, 9,
          IF bit.ty.kind = "bool" THEN N("binop", <<"!", "=">>, <<get, N("int", <<"0">>, <<>>)>>)
          ELSE get, bit.ty)

Tokens(args) == IF args = <<>> THEN <<>>
                ELSE IF Len(args) = 1 THEN args[1].toks
                ELSE args[1].toks \o <<",">> \o args[2].toks
Trees(args) == [i \in DOMAIN args |-> args[i].tree]
Address(l) == IF l.ty.kind = "ptr" THEN l.tree ELSE N("ref", <<"&">>, <<l.tree>>)
Calls(f, args) == PlaceOf(Expression(<<f, "(">> \o Tokens(args) \o <<")">>, 9,
                             CallTree(<<f>>, Trees(args)), MCFunctions[f].ret), FALSE)
MethodCall(l, m, args) ==
    PlaceOf(Expression(Wrap(l, 9) \o <<".", m, "(">> \o Tokens(args) \o <<")">>, 9,
              CallTree(<<"S", "_", "_", m>>, <<Address(l)>> \o Trees(args)),
              MCStructs["S"].methods[m].ret), FALSE)
SysCall(args) == Expression(<<"syscall", "(">> \o Tokens(args) \o <<")">>, 9,
                            CallTree(<<"syscall">>, Trees(args)), T("int"))
Conv(kind, e) == Expression(<<kind, "(">> \o e.toks \o <<")">>, 9,
                            N("cast", <<kind>>, <<e.tree>>), T(kind))
Read0(x, size) ==
    Expression(<<"dv", "(", "&", x, ")">>, 9,
      N("binop", <<">">>, <<CallTree(<<"syscall">>,
          <<N("int", <<"0">>, <<>>), N("int", <<"0">>, <<>>),
            N("ref", <<"&">>, <<N("ident", <<x>>, <<>>)>>), N("int", <<size>>, <<>>)>>),
        N("int", <<"0">>, <<>>)>>), T("bool"))

Equal(l, r) == IF r.ty.kind = "str" THEN CallTree(<<"__lu_streq">>, <<l.tree, r.tree>>)
               ELSE N("binop", <<"=", "=">>, <<l.tree, r.tree>>)
InList(l, items) ==
    Expression(Wrap(l, 5) \o <<"in", "[">> \o Tokens(items) \o <<"]">>, 3,
      IF items = <<>> THEN N("bool", <<"false">>, <<>>)
      ELSE IF Len(items) = 1 THEN Equal(l, items[1])
      ELSE N("binop", <<"|", "|">>, <<Equal(l, items[1]), Equal(l, items[2])>>), T("bool"))
InArray(l, x) == Expression(Wrap(l, 5) \o <<"in", x>>, 3, N("search", <<x>>, <<l.tree>>), T("bool"))

Put(l, e) == Expression(Wrap(l, 5) \o <<"<<">> \o Wrap(e, 6), 5,
    CallTree(<<"S", "_", "_", IF e.ty.kind = "str" THEN "put_str" ELSE "put_int">>,
             <<Address(l), e.tree>>), PtrTo(Struct))
Get(l, e) == Expression(Wrap(l, 5) \o <<">>">> \o Wrap(e, 6), 5,
    CallTree(<<"S", "_", "_", "get_int">>, <<Address(l), N("ref", <<"&">>, <<e.tree>>)>>),
    PtrTo(Struct))
-----------------------------------------------------------------------------
IsInt(e) == e.ty.kind \in {"int", "byte", "int64"}
Small == {Name("n"), Num("1")}
Places ==
    {Element(Name(x), i) : x \in {"a", "p"}, i \in Small}
    \cup {Member(Name(x), y) : x \in {"s", "q"}, y \in {"n", "t", "s", "q", "a"}}
Nested ==
    UNION {{Member(l, "n"), Member(l, "q")} : l \in
              {e \in Places : e.ty = Struct \/ e.ty = PtrTo(Struct)}
                \cup {Calls("g", <<>>), MethodCall(Name("s"), "set", <<Num("1")>>)}}
    \cup {Element(l, Name("n")) : l \in {e \in Places : e.ty.kind = "arr"}}

Ints ==
    Small \cup {e \in Places : IsInt(e)}
    \cup {Name("l"), Neg(Num("1")), Neg(Neg(Name("n"))), Calls("f", <<Num("1")>>),
          Conv("int", Name("b")), Conv("byte", Binop("+", Name("n"), Num("1"))),
          Conv("int", Conv("int64", Num("1"))), Packed(Name("k"), "lo"),
          MethodCall(Name("s"), "get", <<>>), MethodCall(Calls("g", <<>>), "get", <<>>),
          SysCall(<<Num("1"), Neg(Num("1"))>>), InParens(Name("n"))}
    \cup {Binop(op, Name("n"), i) : op \in {"+", "-", "/", "<<"}, i \in Small}
Truths == {
    Name("t"), True, Not(Name("t")), Not(Not(True)), Member(Name("s"), "t"),
    Packed(Name("k"), "on"), Read0("n", "4"), Read0("b", "1"),
    Calls("e", <<Num("1"), String("'q")>>), InArray(Name("n"), "a"), InArray(Name("w"), "ws"),
    InList(Name("n"), <<Num("1"), Neg(Num("1"))>>), InList(Name("n"), <<>>),
    InList(Name("w"), <<String("'x"), Name("w")>>), Binop("==", Name("w"), String("'none")),
    Binop("!=", Element(Name("ws"), Name("n")), Name("w")), Binop("<", Name("n"), Num("1")),
    Binop("==", Name("n"), Num("1")), Binop("&&", Name("t"), True), Binop("||", True, Name("t"))}
Streams == {Name("s"), Name("q"), Calls("g", <<>>), Member(Name("s"), "q"), Member(Name("q"), "s")}
Assignable == {i \in Ints \cup Nested : i.place /\ i.ty = T("int") /\ ~Contains(i.toks, "(")}

Mixed ==
    {Binop(op, i, j) : op \in {"-", "*", "<"}, i \in Ints, j \in Ints}
    \cup {Binop(op, i, j) : op \in {"&&", "||"}, i \in Truths, j \in Truths}
    \cup {Binop("==", i, j) : i \in Truths, j \in {True, InArray(Name("n"), "a")}}
    \cup {InArray(i, "a") : i \in Ints \cup Nested}
    \cup {Binop("&&", InArray(i, "a"), InArray(Binop("+", i, j), "a")) : i, j \in Small}
    \cup {InList(i, <<j, Num("1")>>) : i \in Ints, j \in Ints}
    \cup {Put(Put(l, i), String("'q")) : l \in Streams, i \in {e \in Ints : e.ty = T("int")}}
    \cup {Get(Put(l, String("'x")), i) : l \in Streams, i \in Assignable}
    \cup {Element(Name("a"), i) : i \in Ints \cup Nested}
    \cup {Conv("int", i) : i \in {e \in Ints \cup Nested \cup Truths : ~e.dotted \/ Len(e.toks) = 1}}
    \cup {Neg(i) : i \in Ints \cup Nested} \cup {Not(i) : i \in Truths}
    \cup {Calls("f", <<i>>) : i \in {e \in Ints \cup Nested : e.ty = T("int")}}
    \cup {MethodCall(Name("q"), "set", <<i>>) : i \in {e \in Ints \cup Nested : e.ty = T("int")}}
    \cup {Ref(i) : i \in {e \in Places \cup Nested : e.place}}

(* Three operators, in every nesting, with parentheses that are not needed. *)
Arithmetic == {"+", "-", "*", "%", "<<"}
Pairs == {Binop(op, Name("n"), Num("1")) : op \in Arithmetic}
Around == Pairs \cup {InParens(i) : i \in Pairs} \cup {Neg(i) : i \in Pairs}
Triples ==
    {Binop(op, i, j) : op \in Arithmetic, i \in Around, j \in Around}
    \cup {Binop(op, Binop(o, i, Name("n")), j) : op \in {"<", "!="}, o \in Arithmetic,
           i \in Pairs, j \in Pairs}
    \cup {Binop(op, Binop(o, i, j), InParens(k)) : op \in {"&&", "||"}, o \in {"&&", "||", "=="},
           i \in {Name("t"), Not(True)}, j \in {Name("t"), Packed(Name("k"), "on")},
           k \in {InArray(Name("n"), "a"), InList(Name("n"), <<Num("1")>>), Not(Name("t"))}}
    \cup {Element(Name("a"), Element(Name("a"), i)) : i \in Pairs}
    \cup {Calls("f", <<Calls("f", <<i>>)>>) : i \in Around}
    \cup {Element(InParens(l), i) : l \in {Name("a"), Member(Name("s"), "a")}, i \in Around}
    \cup {Member(InParens(l), "n") : l \in Streams}

(* Expressions that are not legal; the parser stops somewhere in them.     *)
Illegal(tokens) == [Expression(tokens, 0, N("none", <<>>, <<>>), T("void")) EXCEPT !.legal = FALSE]
Refusals == {Illegal(tokens) : tokens \in {
    <<"nothing">>, <<"old">>, <<"old", "[", "1", "]">>, <<"n", "+">>, <<"(", "n">>, <<")">>,
    <<"f", "(", ")">>, <<"f", "(", "t", ")">>, <<"f", "(", "1", ",", "1", ")">>, <<"f", "(", "1">>,
    <<"e", "(", "'x", ",", "'x", ")">>, <<"e", "(", "n", ",", "n", ")">>, <<"e", "(", "l", ",", "'x", ")">>,
    <<"nothing", "(", ")">>, <<"s", ".", "hidden">>, <<"q", ".", "nothing">>, <<"k", ".", "nothing">>,
    <<"s", ".", "1">>, <<"s", ".", "nothing", "(", ")">>, <<"n", ".", "get", "(", ")">>,
    <<"s", ".", "set", "(", "'x", ")">>, <<"s", ".", "set", "(", ")">>, <<"a", "[", "n">>,
    <<"n", "in", "n">>, <<"n", "in", "nothing">>, <<"n", "in", "1">>, <<"n", "in", "[", "1">>,
    <<"t", "<<", "1">>, <<"1", ">>", "'x">>, <<"s", "<<", "t">>, <<"s", "<<", "a">>, <<"s", ">>", "1">>,
    <<"s", ">>", "w">>, <<"s", ">>", "t">>, <<"s", ">>", "f", "(", "1", ")">>,
    <<"int", "(", "n">>, <<"int">>, <<"dv", "(", "n", ")">>, <<"dv", "(", "&", "w", ")">>,
    <<"dv", "(", "&", "nothing", ")">>, <<"!">>, <<"&", "&">>}}

MCSentences == Mixed \cup Truths \cup Streams \cup Nested \cup Triples \cup Refusals
=============================================================================
