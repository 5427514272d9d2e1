----------------------------- MODULE MCSemantic -----------------------------
(* Programs for the semantic checker, built as trees and written out in    *)
(* the order of the text.                                                  *)
EXTENDS Semantic

Tree(kind, name, type, kids) == [kind |-> kind, name |-> name, sub |-> "",
                                 type |-> type, line |-> 0, kids |-> kids]
RECURSIVE Size(_)
Size(t) == 1 + FoldLeft(LAMBDA n, k : n + Size(k), 0, t.kids)
(* The nodes of t, the first with number i, which is its line as well.     *)
RECURSIVE Flat(_, _)
Flat(t, i) ==
    LET Start(k) == i + 1 + FoldLeft(LAMBDA n, s : n + Size(s), 0,
                                     SubSeq(t.kids, 1, k - 1))
    IN <<[t EXCEPT !.line = IF t.kind = "block" THEN @ ELSE i,
                  !.kids = [k \in DOMAIN t.kids |-> Start(k)]]>>
         \o FlattenSeq([k \in DOMAIN t.kids |-> Flat(t.kids[k], Start(k))])

No == <<"">>
Auto == <<"auto">>
IntType == <<"int">>
TensorType == <<"Tensor">>
Use(n) == Tree("ident", n, No, <<>>)
Number == Tree("int", No, No, <<>>)
Null == [Number EXCEPT !.sub = "null"]
Var(n, type, init) == Tree("var", n, type, init)
Assign(n, e) == Tree("set", n, No, <<e>>)
CallOf(n, args) == Tree("call", n, No, args)
CallMethod(n, m) == [CallOf(n, <<>>) EXCEPT !.sub = m]
Body(ss) == Tree("program", No, No, ss)
Fn(n, params, ss) == Tree("func", n, IntType, params \o <<Body(ss)>>)
Method(n, ss) == Tree("method", n, IntType, <<Body(ss)>>)
ClassOf(n, ms) == Tree("class", n, No, ms)
If(ss) == Tree("other", No, No, <<Number, Body(ss)>>)
EachOf(n, ss) == Tree("each", No, No, <<Use(n), Use(<<"f">>), Body(ss)>>)
BlockOf(n, ss) == [Tree("block", <<n>>, No, ss) EXCEPT !.line = 1]
Enum(n, ms) == Tree("enum", n, No, [k \in DOMAIN ms |-> Use(ms[k])])
Const(n) == Tree("const", n, No, <<Number>>)
Header(n, s) == [Tree("include", n, No, <<>>) EXCEPT !.sub = s]
Tensor == Header(TensorHeader, "")

x == <<"x">>
f == <<"f">>
C == <<"C">>
Leaf == {Var(x, IntType, <<>>), Var(f, Auto, <<Use(x)>>), Use(x), Use(f),
         Assign(x, Use(f)), CallOf(f, <<Use(x)>>), CallMethod(x, "f"),
         Use(<<"C", "f">>), CallOf(<<"", "q", "1">>, <<>>), Use(<<"this">>)}
Few == {Var(x, IntType, <<>>), Use(x), Assign(x, Number)}
Bodies(S) == {<<a>> : a \in S} \cup {<<a, b>> : a, b \in S}
Compound(S) ==
    {If(b) : b \in S} \cup {EachOf(x, b) : b \in S}
Defs(S) ==
    {Fn(f, <<>>, b) : b \in S} \cup {Fn(C, <<Var(x, IntType, <<>>)>>, b) : b \in S}
    \cup {BlockOf("1", b) : b \in S}
    \cup {ClassOf(C, <<Var(x, IntType, <<>>), Method(f, b)>>) : b \in S}
    \cup {ClassOf(C, <<Method(f, b), Var(x, IntType, <<>>)>>) : b \in S}
    \cup {Enum(C, <<x, f>>), Const(x), Tree("chan", x, No, <<>>),
          Tree("ptr", x, IntType, <<>>), Header(<<"<m.h>">>, "c")}
Small == {<<a>> : a \in Leaf}
Inner == {<<c, u>> : c \in Compound(Bodies(Few)), u \in Few}
Items == Leaf \cup Defs(Small) \cup Compound(Small)
Names == {<<a, b>> : a, b \in Items}
           \cup {<<d>> : d \in Defs(Bodies(Leaf) \cup Inner)}
           \cup {<<a, d, b>> : a, b \in Few, d \in Defs(Bodies(Few))}

t == <<"t">>
Zeros == <<"zeros">>
Sum == <<"sum">>
Args == {Use(t), Use(x), Number, Null, CallOf(Zeros, <<Number>>)}
TensorLeaf ==
    {Var(t, TensorType, <<>>), Var(t, Auto, <<CallOf(Zeros, <<Number>>)>>),
     Var(x, Auto, <<Use(t)>>), Var(t, IntType, <<>>)}
      \cup {CallOf(Sum, <<a>>) : a \in Args} \cup {CallOf(Zeros, <<a>>) : a \in Args}
      \cup {Use(Sum), CallOf(Sum, <<>>), CallOf(<<"lu", "send">>, <<>>),
            Tree("server", No, No, <<>>), Tensor, Header(<<"\"tensor.h\"">>, "c"),
            Use(<<"lu", "tensor", "x">>), Fn(Sum, <<>>, <<>>), ClassOf(TensorType, <<>>)}
Tensors == {<<a, b>> : a, b \in TensorLeaf}
             \cup {<<Tensor, a, b>> : a, b \in TensorLeaf}
             \cup {<<Tensor, a, Fn(f, <<>>, <<b, c>>)>> : a, b, c \in
                     {Var(t, TensorType, <<>>), Var(x, Auto, <<Use(t)>>),
                      Var(t, IntType, <<>>), CallOf(Sum, <<Use(t)>>),
                      CallOf(Sum, <<Use(x)>>)}}

MCPrograms == {Flat(Body(ss), 1) : ss \in Names \cup Tensors}
(* Two functions, with or without a global before, between or after them,  *)
(* and the same with tensors: what one of them declares meets the other.   *)
TwoFunctions ==
    {Flat(Body(ss), 1) : ss \in
        {<<Fn(f, <<>>, b), Fn(C, <<>>, c)>> : b, c \in Small}
          \cup {<<Fn(f, <<>>, b), Var(x, IntType, <<>>)>> : b \in Small}
          \cup {<<Tensor, Var(t, TensorType, <<>>), Fn(f, <<>>, <<b>>), Fn(C, <<>>, <<c>>)>> :
                   b, c \in {Var(t, IntType, <<>>), Number, CallOf(Sum, <<Use(t)>>)}}}

MCBuiltins == <<Symbol(<<"printf">>, IntType, Global), Constant(<<"ERR", "MEM">>, IntType)>>
MCApi == <<[name |-> Zeros, result |-> TensorType, params |-> <<IntType>>],
           [name |-> Sum, result |-> <<"float">>, params |-> <<TensorType>>]>>
=============================================================================
