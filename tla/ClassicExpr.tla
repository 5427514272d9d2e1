---------------------------- MODULE ClassicExpr ----------------------------
(***************************************************************************)
(* src/src/parser.c: the expressions and types of Lu Classic, by recursive *)
(* descent over the tokens t of ClassicLexer from the position p on.  The  *)
(* last token is the end of the file and is never passed.  f-strings and   *)
(* lambdas are left out.                                                   *)
(***************************************************************************)
EXTENDS Integers, Sequences, TLC

\* What was read up to the token before p.
Parsed(p, tree) == [p |-> p, tree |-> tree]
Node(kind, val, kids) == [kind |-> kind, val |-> val, kids |-> kids]
Leaf(kind, val) == Node(kind, val, <<>>)

(* cur(), peek_tok(), consume(), check() and match().  The position behind *)
(* the end stands for a loop that does not end, and the one behind it for  *)
(* an error that ends the compiler: nothing is read after them.            *)
Stuck(t) == Len(t) + 1
Stopped(t) == Len(t) + 2
Clamped(t, p) == IF p <= Len(t) THEN p ELSE Len(t)
Cur(t, p) == t[Clamped(t, p)]
After(t, p) == IF p < Len(t) THEN p + 1 ELSE p
IsType(t, p, type) == Cur(t, p).type = type
IsOp(t, p, op) == IsType(t, p, "operator") /\ Cur(t, p).val = op
IsWord(t, p, w) == IsType(t, p, "ident") /\ Cur(t, p).val = <<w>>
IsCommand(t, p, c) == IsType(t, p, "command") /\ Cur(t, p).val = c
\* What is read first, and what is made of it.
Then(first, Rest(_)) == Rest(first)
Match(t, p, op) == IF IsOp(t, p, op) THEN After(t, p) ELSE p

\* skip_newlines()
NoNewLine(t, p) ==
    IF ~IsType(t, p, "newline") THEN p
    ELSE CHOOSE q \in p .. Len(t) : /\ t[q].type # "newline"
                                    /\ \A k \in p .. q - 1 : t[k].type = "newline"
EndOfLine(t, p) == Cur(t, p).type \in {"newline", "eof"}
-----------------------------------------------------------------------------
(* consume_type(): a type as the sequence of what it is spelled with.      *)
TypeKeywords == {"int", "int64", "float", "str", "bool", "byte", "ip", "id",
                 "cor", "msg", "lib", "void"}
is_type_tok(tok) == \/ tok.type = "ident"
                    \/ tok.type = "keyword" /\ tok.val[1] \in TypeKeywords

RECURSIVE consume_type(_, _), ParamTypes(_, _, _), Arguments(_, _, _), Stars(_, _, _)
\* parse_fn_param_types(): a token that begins no type is not passed, unless
\* it is a comma.
ParamTypes(t, p, types) ==
    IF IsOp(t, p, <<")">>) \/ EndOfLine(t, p) THEN Parsed(p, types)
    ELSE Then(consume_type(t, p), LAMBDA one :
           IF Match(t, one.p, <<",">>) = p THEN Parsed(Stuck(t), types)
           ELSE ParamTypes(t, Match(t, one.p, <<",">>), types \o one.tree \o <<",">>))
\* The arguments of a template are copied as they are.
Arguments(t, p, types) ==
    IF IsOp(t, p, <<">">>) THEN Parsed(After(t, p), types \o <<">">>)
    ELSE IF EndOfLine(t, p) THEN Parsed(p, types)
    ELSE Arguments(t, After(t, p), types \o Cur(t, p).val)
Stars(t, p, type) == IF IsOp(t, p, <<"*">>) THEN Stars(t, After(t, p), type \o <<"*">>)
                     ELSE Parsed(p, type)

FnParams(t, p) ==
    IF IsOp(t, p, <<"(">>)
    THEN Then(ParamTypes(t, After(t, p), <<>>), LAMBDA list :
           Parsed(Match(t, list.p, <<")">>), list.tree))
    ELSE Parsed(p, <<>>)
FnType(t, p) ==
    Then(FnParams(t, p), LAMBDA params :
      LET q == params.p
          sig == <<"fn:", "(">> \o params.tree \o <<")", "->">>
      IN  IF IsOp(t, q, <<"-", ">">>) \/ IsOp(t, q, <<":">>)
          THEN Then(consume_type(t, After(t, q)), LAMBDA ret : Parsed(ret.p, sig \o ret.tree))
          ELSE Parsed(q, Append(sig, "void")))

TypePrefix(t, p) == IF IsCommand(t, p, <<"ptr", "/">>) THEN <<"ptr/">>
                    ELSE IF IsOp(t, p, <<"?">>) \/ IsOp(t, p, <<"!">>) THEN Cur(t, p).val
                    ELSE <<>>
consume_type(t, p) ==
    IF TypePrefix(t, p) # <<>>
    THEN Then(consume_type(t, After(t, p)), LAMBDA inner :
           Parsed(inner.p, TypePrefix(t, p) \o inner.tree))
    ELSE IF IsWord(t, p, "fn") THEN FnType(t, After(t, p))
    ELSE IF ~is_type_tok(Cur(t, p)) THEN Parsed(p, <<"auto">>)
    ELSE IF IsOp(t, p + 1, <<"<">>)
    THEN Then(Arguments(t, After(t, p + 1), Cur(t, p).val \o <<"<">>), LAMBDA args :
           Stars(t, args.p, args.tree))
    ELSE Stars(t, After(t, p), Cur(t, p).val)
-----------------------------------------------------------------------------
RECURSIVE parse_expr(_, _), parse_binop(_, _, _), BinopRest(_, _, _),
          parse_unary(_, _), parse_primary(_, _), Items(_, _, _, _),
          Access(_, _), PostSteps(_, _)

\* Expressions up to the operator close or the end of the line; commas are
\* skipped where they stand.
Items(t, p, close, items) ==
    IF IsOp(t, p, close) \/ EndOfLine(t, p) THEN Parsed(Match(t, p, close), items)
    ELSE Then(parse_expr(t, p), LAMBDA one :
           Items(t, Match(t, one.p, <<",">>), close, Append(items, one.tree)))
Args(t, p) == Items(t, Match(t, p, <<"(">>), <<")">>, <<>>)

Literals == {"int", "float", "string", "bool"}
Truths == ("True" :> "true") @@ ("False" :> "false")
Nulls == {<<"None">>, <<"null">>}

\* Operators before an operand bind closer than what follows it, but the
\* operand takes its fields, indices and arguments first.
UnaryOp == (<<"!">> :> "unop") @@ (<<"-">> :> "unop") @@ (<<"~">> :> "unop")
            @@ (<<"+", "+">> :> "unop") @@ (<<"-", "-">> :> "unop")
            @@ (<<"*">> :> "deref") @@ (<<"&">> :> "ref")
IsUnaryOp(tok) == tok.type = "operator" /\ tok.val \in DOMAIN UnaryOp
UnaryCommand == (<<"Deref", "/">> :> "deref") @@ (<<"Ref", "/">> :> "ref")
IsUnaryCommand(tok) == tok.type = "command" /\ tok.val \in DOMAIN UnaryCommand

\* (name) is a cast, whatever the name is.
IsCast(t, p) == is_type_tok(Cur(t, p + 1)) /\ IsOp(t, p + 2, <<")">>)
parse_postfix(t, p) == PostSteps(t, parse_primary(t, p))
Cast(t, p) ==
    Then(consume_type(t, After(t, p)), LAMBDA type :
    Then(parse_postfix(t, Match(t, type.p, <<")">>)), LAMBDA operand :
      Parsed(operand.p, Node("cast", type.tree, <<operand.tree>>))))
Group(t, p) == Then(parse_expr(t, After(t, p)), LAMBDA e :
                 Parsed(Match(t, e.p, <<")">>), e.tree))
ListLiteral(t, p) == Then(Items(t, After(t, p), <<"]">>, <<>>), LAMBDA list :
                       Parsed(list.p, Node("list", <<>>, list.tree)))

\* The operand of sizeof is a type if it is a name or has a star behind it.
IsSizedType(t, p) == /\ is_type_tok(Cur(t, p)) \/ IsOp(t, p, <<"?">>)
                     /\ IsOp(t, p + 1, <<")">>) \/ IsOp(t, p + 1, <<"*">>)
SizeOf(t, p) ==
    IF IsSizedType(t, p + 2)
    THEN Then(consume_type(t, p + 2), LAMBDA type :
           Parsed(Match(t, type.p, <<")">>), Leaf("sizeof", type.tree)))
    ELSE Then(parse_expr(t, p + 2), LAMBDA e :
           Parsed(Match(t, e.p, <<")">>), Node("sizeof", <<>>, <<e.tree>>)))

Alloc(t, p) ==
    Then(consume_type(t, After(t, p)), LAMBDA type :
    Then(parse_expr(t, Match(t, type.p, <<":">>)), LAMBDA count :
      Parsed(count.p, Node("alloc", type.tree, <<count.tree>>))))

\* A call of a name with arguments, which begin at q.
Calling(t, q, kind, name) ==
    Then(Args(t, q), LAMBDA args : Parsed(args.p, Node(kind, name, args.tree)))
CallCommand(t, p) == Calling(t, After(t, p + 1), "call", Cur(t, p + 1).val)
New(t, p) ==
    IF IsOp(t, p + 2, <<"<">>)
    THEN Calling(t, Match(t, After(t, p + 3), <<">">>), "new", Cur(t, p + 1).val \o Cur(t, p + 3).val)
    ELSE Calling(t, After(t, p + 1), "new", Cur(t, p + 1).val)

\* What follows a name: fields, elements and slices.
Bracketed(t, p, base) ==
    Then(parse_expr(t, p), LAMBDA first :
      IF IsOp(t, first.p, <<":">>)
      THEN Then(parse_expr(t, After(t, first.p)), LAMBDA last :
             Parsed(Match(t, last.p, <<"]">>), Node("slice", <<>>, <<base, first.tree, last.tree>>)))
      ELSE Parsed(Match(t, first.p, <<"]">>), Node("index", <<>>, <<base, first.tree>>)))
FieldAt(t, p, base) ==
    Parsed(After(t, After(t, p)),
           Node("field", (IF IsOp(t, p, <<".">>) THEN <<".">> ELSE <<"->">>) \o Cur(t, After(t, p)).val,
                <<base>>))
Access(t, r) ==
    IF IsOp(t, r.p, <<".">>) \/ IsOp(t, r.p, <<"-", ">">>) THEN Access(t, FieldAt(t, r.p, r.tree))
    ELSE IF IsOp(t, r.p, <<"[">>) THEN Access(t, Bracketed(t, After(t, r.p), r.tree))
    ELSE r
Identifier(t, p) ==
    IF IsOp(t, p + 1, <<"(">>) THEN Access(t, Calling(t, p + 1, "call", Cur(t, p).val))
    ELSE Access(t, Parsed(After(t, p), Leaf("ident", Cur(t, p).val)))

IsUnary(tok) == IsUnaryOp(tok) \/ IsUnaryCommand(tok)
Prefixed(t, p) ==
    Then(parse_primary(t, After(t, p)), LAMBDA operand :
      Parsed(operand.p, Node((UnaryOp @@ UnaryCommand)[Cur(t, p).val], Cur(t, p).val,
                             <<operand.tree>>)))

Primary(t, p) ==
    LET tok == Cur(t, p)
    IN  IF tok.type \in Literals THEN Parsed(After(t, p), Leaf(tok.type, tok.val))
        ELSE IF tok.type = "ident" /\ tok.val[1] \in DOMAIN Truths /\ Len(tok.val) = 1
             THEN Parsed(After(t, p), Leaf("bool", <<Truths[tok.val[1]]>>))
        ELSE IF tok.type = "ident" /\ tok.val \in Nulls
             THEN Parsed(After(t, p), Leaf("null", <<"0">>))
        ELSE IF IsOp(t, p, <<"(">>) THEN IF IsCast(t, p) THEN Cast(t, p) ELSE Group(t, p)
        ELSE IF IsOp(t, p, <<"[">>) THEN ListLiteral(t, p)
        ELSE IF IsUnary(tok) THEN Prefixed(t, p)
        ELSE IF IsCommand(t, p, <<"Recv", "/">>)
             THEN Parsed(After(t, p + 1), Leaf("recv", Cur(t, p + 1).val))
        ELSE IF IsWord(t, p, "sizeof") /\ IsOp(t, p + 1, <<"(">>) THEN SizeOf(t, p)
        ELSE IF IsCommand(t, p, <<"Alloc", "/">>) THEN Alloc(t, p)
        ELSE IF IsCommand(t, p, <<"Call", "/">>) THEN CallCommand(t, p)
        ELSE IF IsWord(t, p, "new") THEN New(t, p)
        ELSE IF is_type_tok(tok) THEN Identifier(t, p)
        ELSE IF tok.type = "block" THEN Parsed(After(t, p), Leaf("ident", <<"_q">> \o tok.val))
        ELSE Parsed(After(t, p), Leaf("ident", tok.val))
parse_primary(t, at) == Primary(t, NoNewLine(t, at))

PostSteps(t, r) ==
    IF IsOp(t, r.p, <<"+", "+">>) \/ IsOp(t, r.p, <<"-", "-">>)
    THEN PostSteps(t, Parsed(After(t, r.p), Node("post", Cur(t, r.p).val, <<r.tree>>)))
    ELSE r
-----------------------------------------------------------------------------
\* The operators of two operands by their levels; three more are words.
Levels == <<
    {}, {<<"|", "|">>}, {<<"&", "&">>}, {<<"|">>}, {<<"^">>}, {<<"&">>},
    {<<"=", "=">>, <<"!", "=">>},
    {<<"<">>, <<"<", "=">>, <<">">>, <<">", "=">>},
    {<<"<", "<">>, <<">", ">">>, <<">", ">", ">">>},
    {<<"+">>, <<"-">>}, {<<"*">>, <<"/">>, <<"%">>}, {<<"*", "*">>}>>
WordOps == (<<"and">> :> <<"&", "&">>) @@ (<<"or">> :> <<"|", "|">>) @@ (<<"in">> :> <<"in">>)

Op(tok) == IF tok.type = "operator" THEN tok.val
           ELSE IF tok.type = "ident" /\ tok.val \in DOMAIN WordOps THEN WordOps[tok.val]
           ELSE <<>>
binop_prec(op) == IF op = <<"in">> THEN 8
                  ELSE IF \E k \in DOMAIN Levels : op \in Levels[k]
                       THEN CHOOSE k \in DOMAIN Levels : op \in Levels[k] ELSE -1

parse_unary(t, p) ==
    IF IsWord(t, p, "not")
    THEN Then(parse_unary(t, After(t, p)), LAMBDA e :
           Parsed(e.p, Node("unop", <<"!">>, <<e.tree>>)))
    ELSE parse_postfix(t, p)

BinopRest(t, left, min) ==
    LET op == Op(Cur(t, left.p))
    IN  IF binop_prec(op) < min THEN left
        ELSE Then(parse_binop(t, After(t, left.p), binop_prec(op) + 1), LAMBDA right :
               BinopRest(t, Parsed(right.p, Node("binop", op, <<left.tree, right.tree>>)), min))
parse_binop(t, p, min) == BinopRest(t, parse_unary(t, p), min)

\* A missing colon is an error that is counted; parsing goes on.
Otherwise(t, p, cond, yes) ==
    LET colon == IsOp(t, p, <<":">>)
    IN  Then(parse_expr(t, IF colon THEN After(t, p) ELSE p), LAMBDA no :
          Parsed(no.p, Node(IF colon THEN "ternary" ELSE "error", <<>>, <<cond, yes, no.tree>>)))
parse_expr(t, p) ==
    Then(parse_binop(t, p, 0), LAMBDA cond :
      IF ~IsOp(t, cond.p, <<"?">>) THEN cond
      ELSE Then(parse_expr(t, After(t, cond.p)), LAMBDA yes :
             Otherwise(t, yes.p, cond.tree, yes.tree)))
=============================================================================
