-------------------------- MODULE MCClassicParser --------------------------
(***************************************************************************)
(* Programs of Lu Classic as GUIDE.md and TUTORIAL.md write them, each     *)
(* built together with the tree it means: simple statements of both styles *)
(* alone, in pairs, and in the body of every statement that has one, with  *)
(* the body in the line or in lines of its own.  And short sequences of    *)
(* tokens that are no programs.                                            *)
(***************************************************************************)
EXTENDS ClassicParser

Tok(type, val) == [type |-> type, val |-> val]
W(w) == <<Tok("ident", <<w>>)>>
O(op) == <<Tok("operator", op)>>
C(w) == <<Tok("command", <<w, "/">>)>>
K(w) == <<Tok("keyword", <<w>>)>>
L(d) == <<Tok("int", <<d>>)>>
Str(s) == <<Tok("string", <<s>>)>>
NL == <<Tok("newline", <<"\n">>)>>
Eof == <<Tok("eof", <<>>)>>
P(c) == O(<<c>>)
In(toks) == P("(") \o toks \o P(")")

\* Something written, and what it means.
Written(toks, tree) == [toks |-> toks, tree |-> tree]
Name(x) == Written(W(x), Leaf("ident", <<x>>))
Num(d) == Written(L(d), Leaf("int", <<d>>))
Twice(op, l, r) == Written(l.toks \o O(op) \o r.toks, Node("binop", op, <<l.tree, r.tree>>))
CallOf(f, e) == Written(W(f) \o In(e.toks), Node("call", <<f>>, <<e.tree>>))
IndexOf(a, e) == Written(W(a) \o P("[") \o e.toks \o P("]"),
                         Node("index", <<>>, <<Leaf("ident", <<a>>), e.tree>>))
X == Name("x")
Expressions == {X, Num("1"), Twice(<<">">>, X, Num("1")), CallOf("f", X), IndexOf("a", Num("1"))}

Stmt(toks, tree) == Written(toks, tree)
-----------------------------------------------------------------------------
FieldOf == Written(W("p") \o O(<<"-", ">">>) \o W("k"),
                  Node("field", <<"->", "k">>, <<Leaf("ident", <<"p">>)>>))
SetOf(word, target, op, e) ==
    Stmt(word \o target.toks \o O(op) \o e.toks,
         Node("set", Front(op), <<Leaf("text", FlattenSeq([k \in DOMAIN target.toks |-> target.toks[k].val])),
                                  target.tree, e.tree>>))
Sets == {SetOf(word, target, op, e) :
            word \in {<<>>, C("Set")}, target \in {X, IndexOf("a", X), FieldOf},
            op \in {<<"=">>, <<"<", "<", "=">>}, e \in {CallOf("f", X), Num("1")}}

Decl(kind, type, x, kids) == Node(kind, <<x>>, <<Leaf("type", type)>> \o kids)
Decls == {
    Stmt(K("int") \o W("y") \o P("=") \o X.toks, Decl("decl", <<"int">>, "y", <<X.tree>>)),
    Stmt(W("var") \o W("y") \o P(":") \o K("int") \o P("=") \o X.toks,
         Decl("decl", <<"int">>, "y", <<X.tree>>)),
    Stmt(W("let") \o W("y") \o P("=") \o X.toks, Decl("decl", <<"auto">>, "y", <<X.tree>>)),
    Stmt(W("auto") \o W("y") \o P("=") \o X.toks, Decl("decl", <<"auto">>, "y", <<X.tree>>)),
    Stmt(W("const") \o K("int") \o W("y") \o P("=") \o L("1"),
         Decl("const", <<"int">>, "y", <<Leaf("int", <<"1">>)>>)),
    Stmt(K("int") \o W("y") \o P("[") \o L("2") \o P("]") \o P("=") \o P("{") \o L("1") \o P(",")
           \o NL \o X.toks \o P("}"),
         Decl("decl", <<"int">>, "y", <<Node("dims", <<>>, <<Leaf("int", <<"2">>)>>),
                                        Leaf("int", <<"1">>), X.tree>>)),
    Stmt(C("ptr") \o K("int") \o W("y") \o P("=") \o P("&") \o X.toks,
         Decl("ptr", <<"int">>, "y", <<Node("ref", <<"&">>, <<X.tree>>)>>)),
    Stmt(W("Vector") \o P("<") \o K("int") \o P(">") \o W("y"),
         Decl("decl", <<"Vector", "<", "int", ">">>, "y", <<>>)),
    Stmt(K("int") \o P("*") \o W("y"), Decl("decl", <<"int", "*">>, "y", <<>>))}

One(words, kind, e) == Stmt(words \o e.toks, Node(kind, <<>>, <<e.tree>>))
Named(words, kind, x) == Stmt(words \o W(x), Leaf(kind, <<x>>))
Ones == {One(form[1], form[2], e) : e \in Expressions,
           form \in {<<C("Pr"), "print">>, <<W("print"), "print">>, <<C("Ret"), "return">>,
                     <<W("return"), "return">>, <<C("Free"), "free">>, <<C("Spawn"), "spawn">>}}
Calls == {Stmt(word \o W("f") \o In(e.toks), Node("call", <<"f">>, <<e.tree>>)) :
            word \in {<<>>, C("Call")}, e \in Expressions}
Others == {
    Stmt(W("print") \o In(X.toks \o P(",") \o L("1")), Node("print", <<>>, <<X.tree, Leaf("int", <<"1">>)>>)),
    Stmt(W("return"), Leaf("return", <<>>)), Stmt(W("break"), Leaf("break", <<>>)),
    Stmt(W("continue"), Leaf("continue", <<>>)), Named(W("delete"), "delete", "x"),
    Stmt(C("Throw") \o W("E") \o Str("m"),
         Node("throw", <<>>, <<Leaf("ident", <<"E">>), Leaf("string", <<"m">>)>>)),
    Stmt(C("Send") \o W("c") \o O(<<"<", "-">>) \o L("1"), Node("send", <<"c">>, <<Leaf("int", <<"1">>)>>)),
    Stmt(W("c") \o O(<<"<", "-">>) \o L("1"), Node("send", <<"c">>, <<Leaf("int", <<"1">>)>>)),
    Named(C("Recv"), "recv", "c"), Named(C("Chan"), "chan", "c"),
    Stmt(C("Emit") \o W("e") \o X.toks, Node("emit", <<"e">>, <<X.tree>>)),
    Stmt(W("defer") \o W("f") \o In(X.toks), Node("defer", <<>>, <<CallOf("f", X).tree>>)),
    Stmt(W("new") \o W("A") \o In(X.toks), Node("new", <<"A">>, <<X.tree>>)),
    Stmt(C("Memset") \o X.toks \o L("0") \o L("1"),
         Node("memset", <<>>, <<X.tree, Leaf("int", <<"0">>), Leaf("int", <<"1">>)>>))}
Simple == Sets \cup Decls \cup Ones \cup Calls \cup Others
-----------------------------------------------------------------------------
Body(ss) == Node("body", <<>>, [k \in DOMAIN ss |-> ss[k].tree])
Trees(ss) == [k \in DOMAIN ss |-> ss[k].tree]
RECURSIVE Lines(_)
Lines(ss) == IF ss = <<>> THEN <<>> ELSE Head(ss).toks \o NL \o Lines(Tail(ss))

\* The layouts of a body; one statement may stand in the line.
Braced(ss) == {P("{") \o NL \o Lines(ss) \o P("}"), NL \o P("{") \o NL \o NL \o Lines(ss) \o P("}")}
                \cup (IF Len(ss) = 1 THEN {P("{") \o ss[1].toks \o P("}")} ELSE {})
IntParam == <<Decl("param", <<"int">>, "x", <<>>)>>

\* Statements with one body b, which has the tokens of B.
OneBody(B, b) == {
    Stmt(W("while") \o X.toks \o B, Node("while", <<>>, <<X.tree, b>>)),
    Stmt(C("Loop") \o W("While") \o X.toks \o B, Node("while", <<>>, <<X.tree, b>>)),
    Stmt(W("loop") \o X.toks \o B, Node("loop", <<>>, <<X.tree, b>>)),
    Stmt(C("Loop") \o L("2") \o B, Node("loop", <<>>, <<Leaf("int", <<"2">>), b>>)),
    Stmt(W("for") \o W("y") \o W("in") \o W("a") \o B,
         Node("each", <<>>, <<Leaf("ident", <<"y">>), Leaf("ident", <<"a">>), b>>)),
    Stmt(C("Loop") \o W("Each") \o W("y") \o W("in") \o W("a") \o B,
         Node("each", <<>>, <<Leaf("ident", <<"y">>), Leaf("ident", <<"a">>), b>>)),
    Stmt(W("if") \o X.toks \o B, Node("if", <<>>, <<X.tree, b>>)),
    Stmt(C("If") \o X.toks \o B, Node("if", <<>>, <<X.tree, b>>)),
    Stmt(W("def") \o W("f") \o In(K("int") \o W("x")) \o O(<<"-", ">">>) \o K("int") \o B,
         Decl("func", <<"int">>, "f", Append(IntParam, b))),
    Stmt(C("Fn") \o W("f") \o In(W("x") \o P(":") \o K("int")) \o P(":") \o K("int") \o B,
         Decl("func", <<"int">>, "f", Append(IntParam, b))),
    Stmt(W("match") \o X.toks \o P("{") \o NL \o W("case") \o L("1") \o B \o NL
           \o W("case") \o W("_") \o B \o NL \o P("}"),
         Node("match", <<>>, <<X.tree, Node("case", <<>>, <<Leaf("int", <<"1">>), b>>),
                               Node("case", <<>>, <<Leaf("default", <<>>), b>>)>>)),
    Stmt(C("Try") \o B \o NL \o C("Catch") \o W("ERR_X") \o B \o NL \o C("Finally") \o B,
         Node("try", <<>>, <<b, Node("catch", <<"ERR_X">>, b.kids),
                             Node("finally", <<>>, b.kids)>>)),
    Stmt(W("class") \o W("A") \o P("{") \o NL \o K("int") \o W("y") \o NL \o W("prv") \o W("def")
           \o W("f") \o In(<<>>) \o B \o NL \o P("}"),
         Node("class", <<"A">>, <<Node("member", <<"pub">>, <<Decl("field", <<"int">>, "y", <<>>)>>),
            Node("member", <<"prv">>, <<Decl("method", <<>>, "f", <<b>>)>>)>>)),
    Stmt(K("Ns") \o W("n") \o B, Node("namespace", <<"n">>, b.kids))}
\* Alternatives: words of both styles.
TwoBodies(B, b, D, d) == {
    Stmt(W("if") \o X.toks \o B \o W("else") \o D, Node("if", <<>>, <<X.tree, b, d>>)),
    Stmt(W("if") \o X.toks \o B \o NL \o W("else") \o D, Node("if", <<>>, <<X.tree, b, d>>)),
    Stmt(W("if") \o X.toks \o B \o NL \o W("elif") \o X.toks \o D,
         Node("if", <<>>, <<X.tree, b, Node("if", <<>>, <<X.tree, d>>)>>)),
    Stmt(W("if") \o X.toks \o B \o W("else") \o W("if") \o X.toks \o D \o W("else") \o B,
         Node("if", <<>>, <<X.tree, b, Node("if", <<>>, <<X.tree, d, b>>)>>)),
    Stmt(C("If") \o X.toks \o B \o NL \o C("Elif") \o X.toks \o D \o NL \o C("Else") \o B,
         Node("if", <<>>, <<X.tree, b, Node("if", <<>>, <<X.tree, d, b>>)>>)),
    Stmt(C("If") \o X.toks \o B \o C("Else") \o D, Node("if", <<>>, <<X.tree, b, d>>))}

\* The older way: one statement each, behind To/ but for the last.
Marked(s) == Node("to", <<>>, <<s.tree>>)
Unbraced(s, r) ==
    Stmt(C("If") \o X.toks \o NL \o C("To") \o s.toks \o NL \o C("Elif") \o X.toks \o NL
           \o C("To") \o r.toks \o NL \o C("Else") \o NL \o s.toks,
         Node("if", <<>>, <<X.tree, Node("body", <<>>, <<Marked(s)>>),
           Node("if", <<>>, <<X.tree, Node("body", <<>>, <<Marked(r)>>), Body(<<s>>)>>)>>))

WithBody(ss) == UNION {OneBody(B, Body(ss)) : B \in Braced(ss)}
WithTwo(ss, rr) == UNION {TwoBodies(B, Body(ss), D, Body(rr)) : B \in Braced(ss), D \in Braced(rr)}

Few == {SetOf(<<>>, IndexOf("a", X), <<"+", "=">>, Num("1")), One(C("Pr"), "print", CallOf("f", X)),
        Stmt(W("return"), Leaf("return", <<>>)), Stmt(W("break"), Leaf("break", <<>>))}
BlocksOf(S) == UNION {WithBody(<<s>>) : s \in S} \cup UNION {WithTwo(<<s>>, <<>>) : s \in S}
-----------------------------------------------------------------------------
(* The programs.  The sets have a parameter, for TLC evaluates the ones    *)
(* without when it starts, whether they are needed or not.                 *)
Meant(ss) == [toks |-> Lines(ss) \o Eof, meant |-> Trees(ss), known |-> TRUE]
Pairs(S) == {Meant(<<s, r>>) : s \in S, r \in S}
Bodies(S) == UNION {{Meant(<<s>>) : s \in WithBody(ss)} :
                      ss \in {<<s>> : s \in S} \cup {<<s, r>> : s \in Few, r \in Few} \cup {<<>>}}
Branches(S) == UNION {{Meant(<<s>>) : s \in WithTwo(<<q>>, <<r>>)} : q \in Few, r \in S}
Older(S) == {Meant(<<Unbraced(s, r), t>>) : s \in Few, r \in S, t \in Few}
Nested(S) == UNION {{Meant(<<s>>) : s \in WithBody(<<b>>)} : b \in BlocksOf(S)}
Followed(S) == {Meant(<<b, s>>) : b \in BlocksOf(S), s \in Few}

\* What is no program: tokens that meet the same loops of the parser, and
\* the beginning of every statement with something behind it.
Tokens(toks) == [toks |-> toks \o Eof, meant |-> <<>>, known |-> FALSE]
Words(words) == {W(w)[1] : w \in words}
Puncts(ops) == {P(c)[1] : c \in ops}
Alphabets == {
    Words({"class", "x", "def"}) \cup Puncts({"{", "}", "("}),
    Words({"def", "f"}) \cup Puncts({"(", ",", ")", ":"}) \cup {L("5")[1]},
    {K("enum")[1], L("1")[1], NL[1]} \cup Puncts({"{", "}", "=", ","}),
    {K("struct")[1], K("int")[1], NL[1]} \cup Puncts({"{", "[", ":"}) \cup Words({"S"}),
    {C("If")[1], C("Else")[1], C("Elif")[1], Tok("block", <<"1">>), NL[1]} \cup Puncts({"{", "}"}),
    {C("Try")[1], C("Catch")[1], L("1")[1], NL[1]} \cup Puncts({"{", "}"}),
    Words({"match", "case", "_", "else"}) \cup Puncts({"{", "}"}) \cup {L("1")[1]},
    Words({"x", "if", "defer"}) \cup Puncts({"[", "]", "=", "?"}),
    {K("Import")[1], Str("s")[1], NL[1]} \cup Puncts({"<", ">", "."}),
    Words({"onl", "snd"}) \cup Puncts({"(", ";", ")"}) \cup {Tok("block", <<"1">>)}}
LooseSources(n) == {Tokens(s) : s \in UNION {[1 .. k -> A] : k \in 1 .. n, A \in Alphabets}}

Begins == {Tok("command", c) : c \in DOMAIN Alone \cup DOMAIN TakesName \cup DOMAIN TakesExpr
            \cup DOMAIN MayTakeExpr \cup DOMAIN TakesMessage \cup DOMAIN TakesStatement
            \cup DOMAIN TakesBoth \cup {<<"snd", ":", "mes">>}}
    \cup {C(c)[1] : c \in {"Loop", "Set", "Call", "ptr", "Alloc", "Memset", "Memcpy", "Route", "M", "Select"}}
    \cup {K(w)[1] : w \in {"Import", "User", "Server", "Module", "Ns", "enum", "struct", "union", "void", "Use"}}
    \cup Words({"interface", "impl", "template", "new", "delete", "obj", "exp", "cl", "dam", "this",
               "var", "raw", "auto", "const", "while", "for", "loop", "asm", "elif", "Unique"})
    \cup {Tok(type, <<"n">>) : type \in Payloads \cup {"annotation", "binding", "unknown"}}
    \cup {Tok("directive", <<"#", d>>) : d \in {"define", "include", "ifdef"}}
Behind == Words({"x", "via"}) \cup Puncts({"{", "}", "(", ")", "=", ";", "<"}) \cup {L("1")[1], NL[1]}
Starts(n) == {Tokens(<<f>> \o s) : f \in Begins, s \in UNION {[1 .. k -> Behind] : k \in 0 .. n}}

MCSources == <<Pairs(Simple), Bodies(Simple), Branches(Few), Older(Simple),
               Nested({s \in Few : s.tree.kind \in {"return", "set"}}), Followed(Few), LooseSources(3), Starts(2)>>
=============================================================================
