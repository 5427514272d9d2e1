--------------------------- MODULE ClassicParser ---------------------------
(***************************************************************************)
(* src/src/parser.c: parse() and the statements of Lu Classic, over the    *)
(* tokens of ClassicLexer.  A tree is a node with a kind, what it is       *)
(* spelled with, and its children.  The text of asm blocks, the limits of  *)
(* the buffers in which targets and types are put together, and lambdas    *)
(* are left out.                                                           *)
(***************************************************************************)
EXTENDS ClassicExpr, SequencesExt, FiniteSets

CONSTANT Sources    \* sets of programs: tokens, and the statements they mean

VARIABLES
    source,     \* the program
    pos,        \* the next token
    root        \* the statements so far

vars == <<source, pos, root>>
-----------------------------------------------------------------------------
(* The NULL of the code: a token that begins no statement.                 *)
NoNode == Leaf("nothing", <<>>)
NoType == <<>>
IsEof(t, p) == IsType(t, p, "eof")
IsKeyword(t, p, w) == IsType(t, p, "keyword") /\ Cur(t, p).val = <<w>>
IsIdent(t, p) == IsType(t, p, "ident")

OptNewline(t, p) == IF IsType(t, p, "newline") THEN After(t, p) ELSE p
LineEnd(t, p) == IF EndOfLine(t, p) THEN p
                 ELSE CHOOSE q \in p .. Len(t) :
                        EndOfLine(t, q) /\ \A k \in p .. q - 1 : ~EndOfLine(t, k)
Spelled(t, p, q) == FlattenSeq([k \in 1 .. q - p |-> t[p + k - 1].val])
Maybe(tree) == IF tree = NoNode THEN <<>> ELSE <<tree>>
With(node, kids) == [node EXCEPT !.kids = @ \o kids]
Typed(kind, type, name, kids) == Node(kind, name, <<Leaf("type", type)>> \o kids)
-----------------------------------------------------------------------------
RECURSIVE parse_statement(_, _), Statements(_, _, _, _), Inline(_, _, _), parse_if(_, _),
          Params(_, _, _), Catches(_, _, _), Dims(_, _, _), Elements(_, _, _, _),
          TargetEnd(_, _), CtorParams(_, _, _), Members(_, _, _, _), Fields(_, _, _),
          EnumMembers(_, _, _), Cases(_, _, _), Targets(_, _, _, _), UpTo(_, _, _, _),
          Commas(_, _, _), UntilParen(_, _, _), BlockStatements(_, _, _),
          OnlyTo(_, _, _), RawBytes(_, _, _)

(* The bodies in braces: some keep a NULL in their list, and some step     *)
(* over a token at which a statement stands still.                         *)
Plain == [nulls |-> FALSE, guarded |-> TRUE]
OfIf == [nulls |-> FALSE, guarded |-> FALSE]
OfTry == [nulls |-> TRUE, guarded |-> TRUE]
OfClass == [nulls |-> TRUE, guarded |-> FALSE]

Kept(list, tree, nulls) == IF tree = NoNode /\ ~nulls THEN list ELSE Append(list, tree)

Statements(t, p, list, how) ==
    LET q == NoNewLine(t, p)
        Past(s) == IF how.guarded /\ OptNewline(t, s.p) = q THEN After(t, q)
                   ELSE OptNewline(t, s.p)
    IN  IF IsOp(t, p, <<"}">>) \/ IsEof(t, p) THEN Parsed(p, list)
        ELSE IF IsOp(t, q, <<"}">>) THEN Parsed(q, list)
        ELSE Then(parse_statement(t, q), LAMBDA s :
               Statements(t, Past(s), Kept(list, s.tree, how.nulls), how))

NoBody == Node("body", <<>>, <<>>)
\* A list of statements, which may end at a closing brace.
ListAt(t, p, how) ==
    Then(Statements(t, p, <<>>, how), LAMBDA list :
      Parsed(Match(t, list.p, <<"}">>), list.tree))
\* From behind the opening brace to behind the closing one.
Braces(t, p, how) ==
    Then(ListAt(t, NoNewLine(t, p), how), LAMBDA list : Parsed(list.p, With(NoBody, list.tree)))

\* A body that may stand in a later line, or be missing.
Block(t, p, how) ==
    IF IsOp(t, NoNewLine(t, p), <<"{">>) THEN Braces(t, After(t, NoNewLine(t, p)), how)
    ELSE Parsed(NoNewLine(t, p), NoNode)

\* A list of statements whose opening brace may be missing.
BodyStart(t, p) == NoNewLine(t, Match(t, NoNewLine(t, p), <<"{">>))
BareList(t, p, how) == ListAt(t, BodyStart(t, p), how)
-----------------------------------------------------------------------------
(* If/ Elif/ Else/: a body without braces goes on to the next of them, to  *)
(* the end of the block, or to a To/.                                      *)
StopsInline(t, p) == \/ Cur(t, p).type \in {"block", "blockend", "eof"}
                     \/ \E c \in {"Elif", "Else", "Fn"} : IsCommand(t, p, <<c, "/">>)
Inline(t, p, list) ==
    IF StopsInline(t, p) THEN Parsed(p, list)
    ELSE IF StopsInline(t, NoNewLine(t, p)) THEN Parsed(NoNewLine(t, p), list)
    ELSE Then(parse_statement(t, NoNewLine(t, p)), LAMBDA s :
           LET more == Kept(list, s.tree, FALSE)
               r == OptNewline(t, s.p)
           IN  IF more # <<>> /\ Last(more).kind = "to" THEN Parsed(r, more)
               ELSE Inline(t, r, more))

InlineElse(t, p) ==
    LET q == NoNewLine(t, p)
    IN  IF Cur(t, q).type \in {"block", "blockend", "eof"} \/ IsCommand(t, q, <<"Fn", "/">>)
        THEN Parsed(q, NoBody)
        ELSE Then(parse_statement(t, q), LAMBDA s : Parsed(s.p, With(NoBody, Maybe(s.tree))))

\* The brace of an Else/ may stand in the next line, and no later.
ElseBody(t, p) ==
    LET q == OptNewline(t, p)
    IN  IF IsOp(t, q, <<"{">>) THEN Braces(t, After(t, q), OfIf) ELSE InlineElse(t, q)

\* A condition, what is done if it holds, and what otherwise.
Branching(t, p, Body(_), Other(_)) ==
    Then(parse_expr(t, p), LAMBDA cond :
    Then(Body(cond.p), LAMBDA then :
    Then(Other(NoNewLine(t, then.p)), LAMBDA other :
      Parsed(other.p, Node("if", <<>>, <<cond.tree, then.tree>> \o Maybe(other.tree))))))

InlineBody(t, p) ==
    IF IsOp(t, NoNewLine(t, p), <<"{">>) THEN Braces(t, After(t, NoNewLine(t, p)), OfIf)
    ELSE Then(Inline(t, NoNewLine(t, p), <<>>), LAMBDA list :
           Parsed(list.p, With(NoBody, list.tree)))
parse_if(t, p) ==
    Branching(t, After(t, p), LAMBDA q : InlineBody(t, q),
      LAMBDA r : IF IsCommand(t, r, <<"Elif", "/">>) THEN parse_if(t, r)
                 ELSE IF IsCommand(t, r, <<"Else", "/">>) THEN ElseBody(t, After(t, r))
                 ELSE Parsed(r, NoNode))

(* if, elif and else in the style of Python, with braces.                  *)
BlockOrNone(t, p) ==
    IF IsOp(t, NoNewLine(t, p), <<"{">>) THEN Block(t, p, Plain) ELSE Parsed(NoNewLine(t, p), NoBody)
IsIf(t, p) == IsWord(t, p, "if") \/ IsWord(t, p, "elif")
ElsePart(t, p) == IF IsIf(t, NoNewLine(t, p)) THEN parse_statement(t, NoNewLine(t, p))
                  ELSE BlockOrNone(t, p)
IfChain(t, p) ==
    Branching(t, After(t, p), LAMBDA q : BlockOrNone(t, q),
      LAMBDA r : IF IsWord(t, r, "elif") THEN parse_statement(t, r)
                 ELSE IF IsWord(t, r, "else") THEN ElsePart(t, After(t, r))
                 ELSE Parsed(r, NoNode))
-----------------------------------------------------------------------------
(* Loops.                                                                  *)
LoopOf(t, p, kind, head) ==
    Then(Block(t, p, Plain), LAMBDA body :
      Parsed(body.p, Node(kind, <<>>, head \o Maybe(body.tree))))

\* Loops with an expression: while, a count, and Each and for with the
\* name, the word in if it is there, and the list.
LoopWith(t, p, kind, head) ==
    Then(parse_expr(t, p), LAMBDA e : LoopOf(t, e.p, kind, Append(head, e.tree)))
EachOf(t, p, name) ==
    LoopWith(t, IF IsWord(t, p, "in") THEN After(t, p) ELSE p, "each", <<Leaf("ident", name)>>)
For(t, p) == IF IsIdent(t, p) THEN EachOf(t, After(t, p), Cur(t, p).val)
             ELSE EachOf(t, p, <<>>)
While(t, p) == LoopWith(t, p, "while", <<>>)
Counted(t, p) == LoopWith(t, p, "loop", <<>>)

parse_loop(t, p) ==
    IF IsWord(t, p, "While") THEN While(t, After(t, p))
    ELSE IF IsWord(t, p, "Each") THEN EachOf(t, After(t, p + 1), Cur(t, p + 1).val)
    ELSE IF IsType(t, p, "int")
         THEN LoopOf(t, After(t, p), "loop", <<Leaf("int", Cur(t, p).val)>>)
    ELSE IF IsIdent(t, p) THEN Counted(t, p)
    ELSE LoopOf(t, p, "loop", <<Leaf("int", <<"1">>)>>)
-----------------------------------------------------------------------------
(* Functions: parameters are written `type name` or `name: type`, and the  *)
(* type of the result stands behind a colon or, but for Fn/, an arrow.     *)
EndsList(t, p) == IsOp(t, p, <<")">>) \/ IsEof(t, p)
ParamName(t, p, none) == IF EndsList(t, p) \/ IsOp(t, p, <<",">>)
                         THEN Parsed(p, none) ELSE Parsed(After(t, p), Cur(t, p).val)
TypedParam(t, p, none) ==
    Then(consume_type(t, p), LAMBDA type :
    Then(ParamName(t, type.p, none), LAMBDA name :
      Parsed(name.p, Typed("param", type.tree, name.tree, <<>>))))
Param(t, p) ==
    IF IsIdent(t, p) /\ IsOp(t, p + 1, <<":">>)
    THEN Then(consume_type(t, After(t, p + 1)), LAMBDA type :
           Parsed(type.p, Typed("param", type.tree, Cur(t, p).val, <<>>)))
    ELSE TypedParam(t, p, <<"_param">>)
\* Mutated form: a token that begins no type is left where it stands.
ParamsOfTypes(t, p, list) ==
    LET q == NoNewLine(t, p)
    IN  IF EndsList(t, q) THEN Parsed(q, list)
        ELSE IF ~is_type_tok(Cur(t, q)) THEN Parsed(Stuck(t), list)
        ELSE Then(Param(t, q), LAMBDA param :
               Params(t, Match(t, param.p, <<",">>), Append(list, param.tree)))
\* parse_params()
Params(t, p, list) ==
    LET q == NoNewLine(t, p)
        Past(r) == IF r = q THEN After(t, r) ELSE r
    IN  IF EndsList(t, q) THEN Parsed(q, list)
        ELSE Then(Param(t, q), LAMBDA param :
               Params(t, Past(Match(t, param.p, <<",">>)), Append(list, param.tree)))

IsReturnType(t, p) == IsOp(t, p, <<":">>) \/ IsOp(t, p, <<"-", ">">>) \/ IsType(t, p, "arrow")
ReturnType(t, p, arrows) ==
    IF IF arrows THEN IsReturnType(t, p) ELSE IsOp(t, p, <<":">>)
    THEN consume_type(t, After(t, p)) ELSE Parsed(p, NoType)
Function(t, p, name, arrows) ==
    Then(Params(t, Match(t, p, <<"(">>), <<>>), LAMBDA params :
    Then(ReturnType(t, Match(t, params.p, <<")">>), arrows), LAMBDA ret :
    Then(Block(t, ret.p, Plain), LAMBDA body :
      Parsed(body.p, Typed("func", ret.tree, name, params.tree \o Maybe(body.tree))))))
parse_func(t, p) == Function(t, After(t, p + 1), Cur(t, p + 1).val, FALSE)
parse_def_func(t, p) ==
    LET named == IsIdent(t, p + 1)
    IN  Function(t, After(t, IF named THEN p + 1 ELSE p),
                 IF named THEN Cur(t, p + 1).val ELSE <<>>, TRUE)
-----------------------------------------------------------------------------
Catches(t, p, list) ==
    IF ~IsCommand(t, p, <<"Catch", "/">>) THEN Parsed(p, list)
    ELSE Then(BareList(t, After(t, p + 1), OfTry), LAMBDA body :
           Catches(t, NoNewLine(t, body.p),
                   Append(list, Node("catch", Cur(t, p + 1).val, body.tree))))
Finally(t, p, try) ==
    IF IsCommand(t, p, <<"Finally", "/">>)
    THEN Then(BareList(t, After(t, p), OfTry), LAMBDA body :
           Parsed(body.p, With(try, <<Node("finally", <<>>, body.tree)>>)))
    ELSE Parsed(p, try)
parse_try(t, p) ==
    Then(BareList(t, After(t, p), OfTry), LAMBDA body :
    Then(Catches(t, NoNewLine(t, body.p), <<>>), LAMBDA catches :
      Finally(t, catches.p, Node("try", <<>>, <<Node("body", <<>>, body.tree)>> \o catches.tree))))
-----------------------------------------------------------------------------
(* Declarations: dimensions in brackets, then an initial value, which for  *)
(* arrays may be a list in braces with lists in it.                        *)
Dims(t, p, list) ==
    IF IsOp(t, p, <<"[">>)
    THEN Then(parse_expr(t, After(t, p)), LAMBDA size :
           Dims(t, Match(t, size.p, <<"]">>), Append(list, size.tree)))
    ELSE Parsed(p, list)
Value(t, p) ==
    IF IsOp(t, p, <<"=">>)
    THEN Then(parse_expr(t, After(t, p)), LAMBDA e : Parsed(e.p, <<e.tree>>))
    ELSE Parsed(p, <<>>)

Element(t, p, deep) ==
    IF deep /\ IsOp(t, p, <<"{">>)
    THEN Then(Elements(t, After(t, p), <<>>, FALSE), LAMBDA inner :
           Parsed(Match(t, inner.p, <<"}">>), Node("list", <<>>, inner.tree)))
    ELSE parse_expr(t, p)
Elements(t, p, list, deep) ==
    LET q == NoNewLine(t, p)
    IN  IF IsOp(t, q, <<"}">>) \/ IsEof(t, q) THEN Parsed(q, list)
        ELSE Then(Element(t, q, deep), LAMBDA one :
               Elements(t, Match(t, one.p, <<",">>), Append(list, one.tree), deep))
Initial(t, p) ==
    IF IsOp(t, p, <<"=">>) /\ IsOp(t, p + 1, <<"{">>)
    THEN Then(Elements(t, After(t, p + 1), <<>>, TRUE), LAMBDA list :
           Parsed(Match(t, NoNewLine(t, list.p), <<"}">>), list.tree))
    ELSE Value(t, p)

Dimensions(list) == IF list = <<>> THEN <<>> ELSE <<Node("dims", <<>>, list)>>
\* Dimensions and an initial value, behind what stands in front of them.
Sized(t, p, Start(_, _), kind, type, name) ==
    Then(Dims(t, p, <<>>), LAMBDA dims :
    Then(Start(dims.p, dims.tree), LAMBDA init :
      Parsed(init.p, Typed(kind, type, name, Dimensions(dims.tree) \o init.tree))))

parse_var_decl(t, p) ==
    Then(consume_type(t, p), LAMBDA type :
      Sized(t, After(t, type.p), LAMBDA q, dims : Initial(t, q), "decl", type.tree,
            Cur(t, type.p).val))

\* var and let: a type ptr/ makes a declaration of a pointer.
LetType(t, p) == IF IsOp(t, p, <<":">>) THEN consume_type(t, After(t, p))
                 ELSE Parsed(p, <<"auto">>)
LetNode(type, node) ==
    IF type[1] = "ptr/" /\ \A k \in DOMAIN node.kids : node.kids[k].kind # "dims"
    THEN [node EXCEPT !.kind = "ptr", !.kids[1] = Leaf("type", Tail(type))] ELSE node
parse_let_decl(t, p) ==
    LET named == IsIdent(t, p + 1)
    IN  Then(LetType(t, IF named THEN p + 2 ELSE After(t, p)), LAMBDA type :
        Then(Sized(t, type.p, LAMBDA q, dims : IF dims = <<>> THEN Value(t, q) ELSE Initial(t, q),
                   "decl", type.tree, IF named THEN Cur(t, p + 1).val ELSE <<"_var">>), LAMBDA decl :
          Parsed(decl.p, LetNode(type.tree, decl.tree))))

Auto(t, p) ==
    LET q == IF IsIdent(t, p) THEN After(t, p) ELSE p
        param == IF IsOp(t, q, <<"<">>) THEN <<Leaf("type", Cur(t, q + 1).val)>> ELSE <<>>
        r == IF param = <<>> THEN q ELSE Match(t, After(t, q + 1), <<">">>)
        s == Match(t, r, <<"=">>)
        decl == Typed("decl", <<"auto">>, IF q = p THEN <<>> ELSE Cur(t, p).val, param)
    IN  IF EndOfLine(t, s) THEN Parsed(s, decl)
        ELSE Then(parse_expr(t, s), LAMBDA e : Parsed(e.p, With(decl, <<e.tree>>)))

PtrDecl(t, p) ==
    Then(consume_type(t, p), LAMBDA type :
    Then(Value(t, After(t, type.p)), LAMBDA init :
      Parsed(init.p, Typed("ptr", type.tree, Cur(t, type.p).val, init.tree))))
-----------------------------------------------------------------------------
(* Assignments.  The target is kept as text, and parsed a second time as   *)
(* an expression of its own.                                               *)
Assigns == {<<"=">>, <<"+", "=">>, <<"-", "=">>, <<"*", "=">>, <<"/", "=">>, <<"%", "=">>,
            <<"&", "=">>, <<"|", "=">>, <<"^", "=">>, <<"<", "<", "=">>, <<">", ">", "=">>}
is_compound_assign(tok) == tok.type = "operator" /\ tok.val \in Assigns
compound_op(tok) == IF is_compound_assign(tok) THEN Front(tok.val) ELSE <<>>

Opened(t, p, q) == Cardinality({k \in p .. q - 1 : IsOp(t, k, <<"[">>)})
                     - Cardinality({k \in p .. q - 1 : IsOp(t, k, <<"]">>)})
IndexEnd(t, p) ==
    LET Ends(q) == EndOfLine(t, q) \/ (IsOp(t, q, <<"]">>) /\ Opened(t, p, q) = 0)
    IN  CHOOSE q \in p .. Len(t) : Ends(q) /\ \A k \in p .. q - 1 : ~Ends(k)
TargetEnd(t, p) ==
    IF IsOp(t, p, <<".">>) \/ IsOp(t, p, <<"-", ">">>) THEN TargetEnd(t, After(t, After(t, p)))
    ELSE IF IsOp(t, p, <<"[">>) THEN TargetEnd(t, Match(t, IndexEnd(t, After(t, p)), <<"]">>))
    ELSE p
build_lvalue_from_tokens(t, p, q) ==
    LET eof == [type |-> "eof", val |-> <<>>]
    IN  IF p = q THEN <<>> ELSE <<parse_expr(Append(SubSeq(t, p, q - 1), eof), 1).tree>>

parse_assignment_stmt(t, p) ==
    LET q == TargetEnd(t, After(t, p))
        target == <<Leaf("text", Spelled(t, p, q))>> \o build_lvalue_from_tokens(t, p, q)
    IN  Then(parse_expr(t, IF is_compound_assign(Cur(t, q)) THEN After(t, q) ELSE q), LAMBDA rhs :
          Parsed(rhs.p, Node("set", compound_op(Cur(t, q)), Append(target, rhs.tree))))

\* The rest of the line is searched for an assignment up to a parenthesis.
AssignmentAhead(t, p) ==
    /\ \/ is_compound_assign(Cur(t, p + 1))
       \/ \E op \in {<<".">>, <<"-", ">">>, <<"[">>} : IsOp(t, p + 1, op)
    /\ \E k \in p + 1 .. LineEnd(t, p) : /\ is_compound_assign(Cur(t, k))
                                        /\ \A j \in p + 1 .. k : ~IsOp(t, j, <<"(">>)
-----------------------------------------------------------------------------
(* Classes: members have an access, and their bodies keep what is no       *)
(* statement as a child all the same.                                      *)
Accesses == {<<"pub">>, <<"prv">>, <<"prt">>}
parse_access(t, p) == IF IsIdent(t, p) /\ Cur(t, p).val \in Accesses
                      THEN Parsed(After(t, p), Cur(t, p).val) ELSE Parsed(p, <<"pub">>)
ClassWords == {<<"class">>, <<"interface">>, <<"impl">>, <<"template">>}

UpTo(t, p, close, list) == IF IsOp(t, p, close) \/ IsEof(t, p) THEN Parsed(p, list)
                           ELSE UpTo(t, After(t, p), close, list \o Cur(t, p).val)
CtorParams(t, p, list) ==
    IF EndsList(t, p) THEN Parsed(p, list)
    ELSE Then(TypedParam(t, p, <<>>), LAMBDA param :
           CtorParams(t, Match(t, param.p, <<",">>), Append(list, param.tree)))

\* The body of a member, behind what stands in front of it.
Bodied(t, p, node) ==
    Then(BareList(t, p, OfClass), LAMBDA body :
      Parsed(body.p, With(node, <<Node("body", <<>>, body.tree)>>)))
PastReturnType(t, p) == IF IsReturnType(t, p) THEN consume_type(t, After(t, p)).p ELSE p
Constructor(t, p) ==
    Then(CtorParams(t, Match(t, After(t, p), <<"(">>), <<>>), LAMBDA params :
      Bodied(t, PastReturnType(t, Match(t, params.p, <<")">>)), Node("ctor", <<>>, params.tree)))
Destructor(t, p) ==
    LET q == IF IsIdent(t, p + 1) THEN p + 2 ELSE After(t, p)
        r == IF IsOp(t, q, <<"(">>) THEN Match(t, After(t, q), <<")">>) ELSE q
    IN  Bodied(t, Match(t, r, <<":">>), Leaf("dtor", <<>>))
Overload(t, p) ==
    Then(TypedParam(t, Match(t, After(t, p + 1), <<"(">>), <<>>), LAMBDA param :
      LET q == Match(t, Match(t, param.p, <<")">>), <<":">>)
      IN  Bodied(t, After(t, q), Typed("op", Cur(t, q).val, Cur(t, p + 1).val, <<param.tree>>)))
FieldFrom(t, p, type, name) == Sized(t, p, LAMBDA q, dims : Value(t, q), "field", type, name)
Field(t, p) ==
    Then(consume_type(t, p), LAMBDA type :
      LET named == IsIdent(t, type.p)
      IN  FieldFrom(t, IF named THEN After(t, type.p) ELSE type.p, type.tree,
                    IF named THEN Cur(t, type.p).val ELSE <<>>))
IsDef(t, p) == IsWord(t, p, "def") /\ IsIdent(t, p + 1) /\ IsOp(t, p + 2, <<"(">>)
IsMethod(t, p) == IsCommand(t, p, <<"Fn", "/">>) \/ IsDef(t, p)
Method(t, p) ==
    Then(IF IsDef(t, p) THEN parse_def_func(t, p) ELSE parse_func(t, p), LAMBDA f :
      Parsed(f.p, [f.tree EXCEPT !.kind = "method"]))

\* The marks virtual and override.
Marks(t, p, q) == [k \in 1 .. q - p |-> Leaf("mark", t[p + k - 1].val)]
Member(t, p, name) ==
    LET q == IF IsWord(t, p, "virtual") THEN After(t, p) ELSE p
        r == IF IsWord(t, q, "override") THEN After(t, q) ELSE q
    IN  IF IsIdent(t, p) /\ name # <<>> /\ Cur(t, p).val \in {name, <<"new">>}
        THEN Constructor(t, p)
        ELSE IF IsOp(t, p, <<"~">>) \/ IsWord(t, p, "del") THEN Destructor(t, p)
        ELSE IF IsMethod(t, r)
        THEN Then(Method(t, r), LAMBDA m : Parsed(m.p, With(m.tree, Marks(t, p, r))))
        ELSE IF IsWord(t, r, "op") THEN Overload(t, r)
        ELSE IF is_type_tok(Cur(t, r)) THEN Field(t, r)
        ELSE Parsed(After(t, r), NoNode)
Members(t, p, name, list) ==
    LET q == NoNewLine(t, p)
        access == parse_access(t, q)
        Of(tree) == IF tree = NoNode THEN <<>> ELSE <<Node("member", access.tree, <<tree>>)>>
    IN  IF IsOp(t, q, <<"}">>) \/ IsEof(t, q) THEN Parsed(q, list)
        ELSE Then(Member(t, NoNewLine(t, access.p), name), LAMBDA m :
               Members(t, OptNewline(t, m.p), name, list \o Of(m.tree)))

Bases(t, p) ==
    LET IsBase(k) == IF k % 2 = 0 THEN IsIdent(t, p + k) ELSE IsOp(t, p + k, <<",">>)
        ends == {q \in p .. Len(t) : \A k \in 0 .. q - p - 1 : IsBase(k)}
    IN  CHOOSE q \in ends : \A r \in ends : r <= q
parse_class(t, p) ==
    LET template == IsWord(t, p, "template") /\ IsOp(t, p + 1, <<"<">>)
        q == IF template THEN NoNewLine(t, Match(t, After(t, p + 2), <<">">>)) ELSE After(t, p)
        r == IF template /\ (IsKeyword(t, q, "struct") \/ IsWord(t, q, "class"))
             THEN After(t, q) ELSE q
        name == IF IsIdent(t, r) THEN Cur(t, r).val ELSE <<>>
        s == IF IsIdent(t, r) THEN After(t, r) ELSE r
        extends == IsWord(t, s, "extends") \/ IsOp(t, s, <<":">>)
        u == IF extends THEN Bases(t, After(t, s)) ELSE s
        head == (IF template THEN <<Leaf("type", Cur(t, p + 2).val)>> ELSE <<>>)
                  \o IF extends THEN <<Leaf("bases", Spelled(t, s + 1, u))>> ELSE <<>>
    IN  Then(Members(t, BodyStart(t, u), name, head), LAMBDA members :
          Parsed(Match(t, members.p, <<"}">>), Node(Cur(t, p).val[1], name, members.tree)))
-----------------------------------------------------------------------------
(* Structs and unions; enums.                                              *)
StructField(t, p) ==
    IF IsIdent(t, p) /\ IsOp(t, p + 1, <<":">>)
    THEN Then(consume_type(t, After(t, p + 1)), LAMBDA type :
           FieldFrom(t, type.p, type.tree, Cur(t, p).val))
    ELSE Then(consume_type(t, p), LAMBDA type :
           LET named == is_type_tok(Cur(t, type.p))
           IN  FieldFrom(t, IF named THEN After(t, type.p) ELSE type.p, type.tree,
                         IF named THEN Cur(t, type.p).val ELSE <<>>))
Fields(t, p, list) ==
    LET q == NoNewLine(t, p)
        Past(r) == IF r = q /\ ~IsMethod(t, q) THEN After(t, r) ELSE r
    IN  IF IsOp(t, q, <<"}">>) \/ IsEof(t, p) THEN Parsed(q, list)
        ELSE Then(IF IsMethod(t, q) THEN Method(t, q) ELSE StructField(t, q), LAMBDA f :
               Fields(t, Past(OptNewline(t, f.p)), Append(list, f.tree)))
parse_struct(t, p) ==
    Then(Fields(t, BodyStart(t, After(t, p + 1)), <<>>), LAMBDA fields :
      Parsed(Match(t, fields.p, <<"}">>),
             Node(IF IsKeyword(t, p, "union") THEN "union" ELSE "struct", Cur(t, p + 1).val,
                  fields.tree)))

EnumMembers(t, p, list) ==
    LET q == NoNewLine(t, p)
        valued == IsOp(t, After(t, q), <<"=">>)
        r == IF valued THEN After(t, q + 2) ELSE After(t, q)
        value == IF valued THEN <<Leaf("int", Cur(t, q + 2).val)>> ELSE <<>>
    IN  IF IsOp(t, q, <<"}">>) \/ IsEof(t, p) THEN Parsed(q, list)
        ELSE EnumMembers(t, OptNewline(t, Match(t, r, <<",">>)),
                         Append(list, Node("ident", Cur(t, q).val, value)))
parse_enum(t, p) ==
    LET members == EnumMembers(t, BodyStart(t, After(t, p + 1)), <<>>)
    IN  Parsed(Match(t, members.p, <<"}">>), Node("enum", Cur(t, p + 1).val, members.tree))
Listed(t, p, kind, name) ==
    Then(BareList(t, p, OfClass), LAMBDA list : Parsed(list.p, Node(kind, name, list.tree)))
parse_namespace(t, p) == Listed(t, After(t, p + 1), "namespace", Cur(t, p + 1).val)
-----------------------------------------------------------------------------
(* Statements that begin with a command: with nothing, a name, an          *)
(* expression, a statement, or a name and an expression.                   *)
Slash(w) == <<w, "/">>
Alone == (<<"Lu", "/", "Language">> :> "lang") @@ (Slash("Break") :> "break")
TakesName == (Slash("Opt") :> "opt") @@ (<<"inq", ";">> :> "inq") @@ (Slash("Recv") :> "recv")
    @@ (Slash("Event") :> "event") @@ (Slash("Trace") :> "trace") @@ (Slash("Watch") :> "watch")
    @@ (Slash("Chan") :> "chan") @@ (Slash("Ref") :> "ref") @@ (Slash("Deref") :> "deref")
TakesExpr == (Slash("Pr") :> "print") @@ (Slash("Del") :> "del") @@ (Slash("Free") :> "free")
    @@ (Slash("Spawn") :> "spawn")
MayTakeExpr == (Slash("Ret") :> "return") @@ (<<"Rec", "/", ":">> :> "receive")
    @@ (Slash("Fwd") :> "forward")
TakesMessage == (Slash("Throw") :> "throw") @@ (Slash("Assert") :> "assert")
TakesStatement == (Slash("To") :> "to") @@ (Slash("Await") :> "await")
TakesBoth == (<<"Def", ":", "const">> :> "const") @@ (<<"Def", ":", "config">> :> "config")
    @@ (Slash("Send") :> "send") @@ (Slash("Emit") :> "emit") @@ (Slash("On") :> "on")
    @@ (Slash("Log") :> "log")

\* What may stand between the name and the expression.
Between(t, p, kind) ==
    CASE kind \in {"const", "config"} -> Match(t, p, <<"=">>)
      [] kind = "send" -> Match(t, p, <<"<", "-">>)
      [] kind = "on" -> IF IsType(t, p, "arrow") THEN After(t, p) ELSE p
      [] OTHER -> p
Expr(t, p, kind) ==
    Then(parse_expr(t, p), LAMBDA e : Parsed(e.p, Node(kind, <<>>, <<e.tree>>)))
NameAndExpr(t, p, kind) ==
    Then(Expr(t, Between(t, After(t, p + 1), kind), kind), LAMBDA e :
      Parsed(e.p, [e.tree EXCEPT !.val = Cur(t, p + 1).val]))
MaybeExpr(t, p, kind) == IF EndOfLine(t, p) THEN Parsed(p, Leaf(kind, <<>>)) ELSE Expr(t, p, kind)
Message(t, p, kind) ==
    Then(Expr(t, p, kind), LAMBDA e :
      IF IsType(t, e.p, "string")
      THEN Parsed(After(t, e.p), With(e.tree, <<Leaf("string", Cur(t, e.p).val)>>)) ELSE e)
Wrapped(t, p, kind) ==
    Then(parse_statement(t, p), LAMBDA s : Parsed(s.p, Node(kind, <<>>, <<s.tree>>)))

Targets(t, p, n, list) ==
    IF n = 0 \/ EndOfLine(t, p) THEN Parsed(p, list)
    ELSE Then(parse_expr(t, p), LAMBDA e : Targets(t, e.p, n - 1, Append(list, e.tree)))
Memory(t, p, kind) ==
    Then(Targets(t, p, 3, <<>>), LAMBDA list : Parsed(list.p, Node(kind, <<>>, list.tree)))
SendMessage(t, p) ==
    IF IsOp(t, p, <<"[">>)
    THEN Parsed(Match(t, After(t, p + 1), <<"]">>),
                Node("message", <<>>, <<Leaf("string", Cur(t, p + 1).val)>>))
    ELSE IF IsType(t, p, "string")
    THEN Parsed(After(t, p), Node("message", <<>>, <<Leaf("string", Cur(t, p).val)>>))
    ELSE MaybeExpr(t, p, "message")
Route(t, p) ==
    Then(parse_expr(t, p), LAMBDA a :
    Then(parse_expr(t, IF IsWord(t, a.p, "via") THEN After(t, a.p) ELSE a.p), LAMBDA b :
      Parsed(b.p, Node("route", <<>>, <<a.tree, b.tree>>))))
Mode(t, p) ==
    LET q == IF IsIdent(t, p) THEN After(t, p) ELSE p
        r == Match(t, q, <<"*">>)
    IN  Parsed(LineEnd(t, IF IsIdent(t, r) THEN Match(t, After(t, r), <<"*">>) ELSE r),
               Leaf("mode", IF IsIdent(t, r) THEN Cur(t, r).val ELSE <<>>))
UntilParen(t, p, list) ==
    IF EndsList(t, p) THEN Parsed(p, list)
    ELSE Then(parse_expr(t, p), LAMBDA e :
           UntilParen(t, Match(t, e.p, <<",">>), Append(list, e.tree)))
Applied(t, p, kind, name) ==
    Then(UntilParen(t, Match(t, p, <<"(">>), <<>>), LAMBDA args :
      Parsed(Match(t, args.p, <<")">>), Node(kind, name, args.tree)))
CallStatement(t, p) == Applied(t, After(t, p), "call", Cur(t, p).val)

Command(t, p) ==
    LET c == Cur(t, p).val
        q == After(t, p)
    IN  CASE c \in DOMAIN Alone -> Parsed(q, Leaf(Alone[c], <<>>))
          [] c \in DOMAIN TakesName -> Parsed(After(t, q), Leaf(TakesName[c], Cur(t, q).val))
          [] c \in DOMAIN TakesExpr -> Expr(t, q, TakesExpr[c])
          [] c = Slash("Fwd") /\ IsEof(t, q) -> Expr(t, q, "forward")
          [] c \in DOMAIN MayTakeExpr -> MaybeExpr(t, q, MayTakeExpr[c])
          [] c \in DOMAIN TakesMessage -> Message(t, q, TakesMessage[c])
          [] c \in DOMAIN TakesStatement -> Wrapped(t, q, TakesStatement[c])
          [] c \in DOMAIN TakesBoth -> NameAndExpr(t, p, TakesBoth[c])
          [] c = Slash("If") -> parse_if(t, p)
          [] c = Slash("Loop") -> parse_loop(t, q)
          [] c = Slash("Fn") -> parse_func(t, p)
          [] c = Slash("Try") -> parse_try(t, p)
          [] c = Slash("Set") -> parse_assignment_stmt(t, q)
          [] c = Slash("Call") -> CallStatement(t, q)
          [] c = Slash("ptr") -> PtrDecl(t, q)
          [] c = Slash("Alloc") -> Alloc(t, p)
          [] c = Slash("Memset") -> Memory(t, q, "memset")
          [] c = Slash("Memcpy") -> Memory(t, q, "memcpy")
          [] c = Slash("Route") -> Route(t, q)
          [] c = Slash("M") -> Mode(t, q)
          [] c = <<"snd", ":", "mes">> -> SendMessage(t, q)
          [] c = Slash("Select") -> Listed(t, q, "select", <<>>)
          [] OTHER -> Parsed(q, NoNode)
-----------------------------------------------------------------------------
(* Statements that begin with a keyword, a directive or a payload.         *)
IsAngle(text) == text # <<>> /\ text[1] = "<" /\ Last(text) = ">"
parse_import_like(t, p, kind) ==
    LET close == UpTo(t, p, <<">">>, <<>>)
        name == Cur(t, p).val
        rest == LineEnd(t, p)
        angle == IF \E k \in p .. rest : IsOp(t, k, <<">">>)
                 THEN Append(close.tree, ">") ELSE Spelled(t, p, rest)
    IN  Parsed(rest, Leaf(kind,
          IF IsType(t, p, "string") THEN IF IsAngle(name) THEN name ELSE <<"\"">> \o name \o <<"\"">>
          ELSE IF IsOp(t, p, <<"<">>) THEN angle
          ELSE IF EndOfLine(t, p) THEN <<>> ELSE name))
RestOfLine(t, p, kind) == Parsed(LineEnd(t, p), Leaf(kind, Spelled(t, p, LineEnd(t, p))))
Server(t, p) ==
    LET number == IF IsType(t, p, "block") THEN <<Leaf("block", Cur(t, p).val)>> ELSE <<>>
        rest == RestOfLine(t, IF number = <<>> THEN p ELSE After(t, p), "server")
    IN  Parsed(rest.p, With(rest.tree, number))

Keyword(t, p) ==
    LET w == Cur(t, p).val[1]
        q == After(t, p)
    IN  CASE w = "Import" -> parse_import_like(t, q, "import")
          [] w = "User" -> RestOfLine(t, q, "user")
          [] w = "Server" -> Server(t, q)
          [] w = "Module" -> Parsed(After(t, q), Leaf("module", Cur(t, q).val))
          [] w = "Ns" -> parse_namespace(t, p)
          [] w = "enum" -> parse_enum(t, p)
          [] w \in {"struct", "union"} -> parse_struct(t, p)
          [] w \in TypeKeywords -> parse_var_decl(t, p)
          [] OTHER -> Parsed(q, NoNode)
Directive(t, p) ==
    CASE Cur(t, p).val = <<"#", "define">> -> NameAndExpr(t, p, "define")
      [] Cur(t, p).val = <<"#", "include">> -> parse_import_like(t, After(t, p), "include")
      [] OTHER -> Parsed(After(t, p), NoNode)

Damage(t, p, node) ==
    LET q == Match(t, p, <<";">>)
    IN  IF IsOp(t, q, <<"(">>)
        THEN Then(parse_expr(t, After(t, q)), LAMBDA e :
               Parsed(Match(t, e.p, <<")">>), With(node, <<e.tree>>)))
        ELSE Parsed(q, node)
FuncPayload(t, p, node) ==
    LET q == Match(t, p, <<";">>)
    IN  IF IsType(t, q, "onl") THEN Parsed(After(t, q), With(node, <<Leaf("onl", Cur(t, q).val)>>))
        ELSE Parsed(q, node)
Sending(t, p, node) ==
    LET q == IF IsKeyword(t, p + 1, "ip") THEN p + 2 ELSE After(t, p)
    IN  IF IsType(t, p, "arrow") THEN Parsed(After(t, q), With(node, <<Leaf("ip", Cur(t, q).val)>>))
        ELSE Parsed(p, node)
Payloads == {"cr", "dam", "onl", "func", "Snd", "Bcast", "cor", "Def"}
Payload(t, p) ==
    LET node == Leaf(Cur(t, p).type, Cur(t, p).val)
        q == After(t, p)
    IN  CASE node.kind = "cr" -> Parsed(IF IsWord(t, q, "exp") THEN After(t, q) ELSE q, node)
          [] node.kind = "dam" -> Damage(t, q, node)
          [] node.kind = "onl" /\ ~EndOfLine(t, q) ->
               Then(parse_statement(t, q), LAMBDA s : Parsed(s.p, With(node, <<s.tree>>)))
          [] node.kind = "func" -> FuncPayload(t, q, node)
          [] node.kind = "Snd" -> Sending(t, q, node)
          [] OTHER -> Parsed(q, node)

\* #q<n>: statements up to the next block or the end of this one.
BlockStatements(t, p, list) ==
    LET q == NoNewLine(t, p)
        Past(r) == IF r = q THEN After(t, r) ELSE r
    IN  IF Cur(t, q).type \in {"block", "blockend", "eof"} THEN Parsed(q, list)
        ELSE Then(parse_statement(t, q), LAMBDA s :
               BlockStatements(t, Past(OptNewline(t, s.p)), Kept(list, s.tree, FALSE)))
Numbered(t, p) ==
    Then(BlockStatements(t, NoNewLine(t, After(t, p)), <<>>), LAMBDA list :
      Parsed(IF IsType(t, list.p, "blockend") THEN After(t, list.p) ELSE list.p,
             Node("block", Cur(t, p).val, list.tree)))
-----------------------------------------------------------------------------
(* Statements that begin with a name.  Most words of the language are      *)
(* names for the lexer, and some are words only before certain tokens.     *)
Commas(t, p, list) ==
    Then(parse_expr(t, p), LAMBDA e :
      IF IsOp(t, e.p, <<",">>) THEN Commas(t, After(t, e.p), Append(list, e.tree))
      ELSE Parsed(e.p, Append(list, e.tree)))
PrintCall(t, p) ==
    IF ~IsOp(t, p, <<"(">>) THEN MaybeExpr(t, p, "print")
    ELSE IF IsOp(t, p + 1, <<")">>) \/ EndOfLine(t, p + 1)
    THEN Parsed(Match(t, After(t, p), <<")">>), Leaf("print", <<>>))
    ELSE Then(Commas(t, After(t, p), <<>>), LAMBDA list :
           Parsed(Match(t, list.p, <<")">>), Node("print", <<>>, list.tree)))
IsPrint(t, p) == /\ IsWord(t, p, "print")
                 /\ ~is_compound_assign(Cur(t, p + 1))
                 /\ ~IsOp(t, p + 1, <<".">>) /\ ~IsOp(t, p + 1, <<"[">>)

\* Mutated form: a return without a value reads the brace behind it.
ReturnPastBrace(t, p) == MaybeExpr(t, p, "return")
Return(t, p) == IF \E op \in {"}", ")", "]", ",", ";"} : IsOp(t, p, <<op>>)
                THEN Parsed(p, Leaf("return", <<>>)) ELSE MaybeExpr(t, p, "return")

\* Lines may end the file between the bytes: the end is then one of them.
RawBytes(t, p, list) ==
    LET q == NoNewLine(t, p)
    IN  IF IsOp(t, q, <<"}">>) \/ IsEof(t, p) THEN Parsed(q, list)
        ELSE Then(parse_expr(t, q), LAMBDA byte :
               RawBytes(t, Match(t, byte.p, <<",">>), Append(list, byte.tree)))
Raw(t, p) == Then(RawBytes(t, After(t, p), <<>>), LAMBDA list :
               Parsed(Match(t, list.p, <<"}">>), Node("raw", <<>>, list.tree)))
Asm(t, p) ==
    LET q == UpTo(t, After(t, p), <<"}">>, <<>>).p
    IN  IF IsOp(t, p, <<"{">>) THEN Parsed(OptNewline(t, Match(t, q, <<"}">>)), Leaf("asm", <<>>))
        ELSE Parsed(Stopped(t), NoNode)
Defer(t, p) == Then(parse_statement(t, p), LAMBDA s :
                 Parsed(s.p, Node("defer", <<>>, Maybe(s.tree))))

CaseValue(t, p) == IF IsWord(t, p, "_") THEN Parsed(After(t, p), Leaf("default", <<>>))
                   ELSE parse_expr(t, p)
Case(t, p) == Then(CaseValue(t, p), LAMBDA value : LoopOf(t, value.p, "case", <<value.tree>>))
Cases(t, p, list) ==
    LET q == NoNewLine(t, p)
    IN  IF IsOp(t, q, <<"}">>) \/ IsEof(t, q) THEN Parsed(q, list)
        ELSE IF IsWord(t, q, "case")
        THEN Then(Case(t, After(t, q)), LAMBDA case :
               Cases(t, OptNewline(t, case.p), Append(list, case.tree)))
        ELSE Cases(t, OptNewline(t, After(t, q)), list)
MatchBody(t, p, node) ==
    IF IsOp(t, p, <<"{">>)
    THEN Then(Cases(t, After(t, p), <<>>), LAMBDA cases :
           Parsed(Match(t, cases.p, <<"}">>), With(node, cases.tree)))
    ELSE Parsed(p, node)
Matching(t, p) == Then(Expr(t, p, "match"), LAMBDA e : MatchBody(t, NoNewLine(t, e.p), e.tree))

Const(t, p) == Then(parse_var_decl(t, p), LAMBDA d : Parsed(d.p, [d.tree EXCEPT !.kind = "const"]))
ChannelSend(t, p) == Then(Expr(t, p + 2, "send"), LAMBDA e :
                       Parsed(e.p, [e.tree EXCEPT !.val = Cur(t, p).val]))

Object(t, p) ==
    LET q == Match(t, p, <<";">>)
        attrs == UpTo(t, Match(t, After(t, q + 1), <<"(">>), <<")">>, <<>>)
    IN  IF IsOp(t, q + 1, <<".">>)
        THEN Parsed(Match(t, attrs.p, <<")">>),
                    Node("obj", Cur(t, q).val, <<Leaf("text", attrs.tree)>>))
        ELSE Parsed(After(t, q), Leaf("obj", Cur(t, q).val))
BlockCall(t, p) ==
    LET q == After(t, p)
        name == Match(t, p, <<"(">>)
    IN  IF ~IsOp(t, p, <<"-", "-">>)
        THEN Parsed(Match(t, After(t, name), <<")">>), Leaf("select object", Cur(t, name).val))
        ELSE IF IsType(t, q, "block") THEN Parsed(After(t, q), Leaf("cl", Cur(t, q).val))
        ELSE Parsed(q, Leaf("cl", <<>>))
DamageCall(t, p) == Then(Expr(t, Match(t, p, <<"(">>), "damage"), LAMBDA e :
                      Parsed(Match(t, e.p, <<")">>), e.tree))
Goto(t, p) ==
    LET q == Match(t, p, <<"-", "-">>)
    IN  IF IsType(t, q, "block") THEN Parsed(After(t, q), Leaf("goto", <<"_q">> \o Cur(t, q).val))
        ELSE IF IsIdent(t, q) THEN Parsed(After(t, q), Leaf("goto", Cur(t, q).val))
        ELSE Parsed(q, Leaf("goto", <<>>))
\* onl(snd --obj; #q<n>)
OnlyTo(t, p, list) ==
    LET name == Match(t, After(t, p), <<"-", "-">>)
    IN  IF EndsList(t, p) THEN Parsed(Match(t, p, <<")">>), Node("only", <<>>, list))
        ELSE IF IsWord(t, p, "snd")
        THEN OnlyTo(t, Match(t, After(t, name), <<";">>), Append(list, Leaf("ident", Cur(t, name).val)))
        ELSE IF IsType(t, p, "block")
        THEN OnlyTo(t, After(t, p), Append(list, Leaf("ident", <<"_q">> \o Cur(t, p).val)))
        ELSE OnlyTo(t, After(t, p), list)

NewStatement(t, p) ==
    IF IsOp(t, p + 2, <<"<">>)
    THEN Applied(t, Match(t, After(t, p + 3), <<">">>), "new", Cur(t, p + 1).val \o Cur(t, p + 3).val)
    ELSE Applied(t, After(t, p + 1), "new", Cur(t, p + 1).val)

\* The words that come after assignments in the order of the tests.
LateWord(t, p, w) ==
    LET q == After(t, p)
    IN  CASE <<w>> \in ClassWords -> parse_class(t, p)
          [] w = "new" -> NewStatement(t, p)
          [] w = "delete" -> Parsed(After(t, q), Leaf("delete", Cur(t, q).val))
          [] w = "obj" -> Object(t, q)
          [] w = "exp" -> Parsed(q, Leaf("exp", <<>>))
          [] w = "cl" -> BlockCall(t, q)
          [] w = "dam" -> DamageCall(t, q)
          [] w = "onl" -> OnlyTo(t, Match(t, q, <<"(">>), <<>>)
          [] w = "snd" -> Goto(t, q)
          [] w \in {"this", "super"} -> Parsed(q, Leaf("this", <<w>>))
          [] OTHER -> Parsed(p, NoNode)
\* A call is a statement; any other expression is printed.
Statement(t, p) ==
    IF is_type_tok(Cur(t, p + 1)) THEN parse_var_decl(t, p)
    ELSE Then(parse_expr(t, p), LAMBDA e :
           IF e.tree.kind = "call" THEN e ELSE Parsed(e.p, Node("print", <<>>, <<e.tree>>)))

Word(t, p) ==
    LET w == IF Len(Cur(t, p).val) = 1 THEN Cur(t, p).val[1] ELSE ""
        q == After(t, p)
    IN  CASE w \in {"Vector", "Unique", "Shared"} /\ IsOp(t, q, <<"<">>) -> parse_var_decl(t, p)
          [] w = "fn" /\ IsOp(t, q, <<"(">>) -> parse_var_decl(t, p)
          [] w = "fn" /\ IsIdent(t, q) -> parse_def_func(t, p)
          [] w \in {"var", "let"} /\ IsIdent(t, q) -> parse_let_decl(t, p)
          [] w = "raw" /\ IsOp(t, q, <<"{">>) -> Raw(t, q)
          [] w \in {"if", "elif"} -> IfChain(t, p)
          [] w = "def" -> parse_def_func(t, p)
          [] IsPrint(t, p) -> PrintCall(t, q)
          [] w = "return" -> Return(t, q)
          [] w = "const" /\ is_type_tok(Cur(t, q)) -> Const(t, q)
          [] w = "auto" -> Auto(t, q)
          [] w = "while" -> While(t, q)
          [] w = "for" -> For(t, q)
          [] w = "loop" /\ ~IsOp(t, q, <<"=">>) /\ ~IsOp(t, q, <<":">>) -> Counted(t, q)
          [] w \in {"break", "continue"} -> Parsed(q, Leaf(w, <<>>))
          [] w = "asm" -> Asm(t, q)
          [] w = "defer" -> Defer(t, q)
          [] w = "match" -> Matching(t, q)
          [] w = "else" -> ElsePart(t, q)
          [] OTHER -> IF IsOp(t, q, <<"<", "-">>) THEN ChannelSend(t, p)
                      ELSE IF AssignmentAhead(t, p) THEN parse_assignment_stmt(t, p)
                      ELSE Then(LateWord(t, p, w), LAMBDA late :
                             IF late.tree = NoNode THEN Statement(t, p) ELSE late)
-----------------------------------------------------------------------------
Unknown(t, p) == Parsed(After(t, p), NoNode)

parse_statement(t, at) ==
    LET p == NoNewLine(t, at)
        tok == Cur(t, p)
        name == Leaf(tok.type, tok.val)
    IN  CASE tok.type = "command" -> Command(t, p)
          [] tok.type = "keyword" -> Keyword(t, p)
          [] tok.type = "directive" -> Directive(t, p)
          [] tok.type \in Payloads -> Payload(t, p)
          [] tok.type = "block" -> Numbered(t, p)
          [] tok.type = "annotation" -> Parsed(After(t, p), name)
          [] tok.type = "binding" -> Parsed(LineEnd(t, After(t, p)), name)
          [] tok.type = "ident" -> Word(t, p)
          [] tok.type = "operator" /\ tok.val \in {<<"?">>, <<"!">>} -> parse_var_decl(t, p)
          [] OTHER -> Unknown(t, p)
-----------------------------------------------------------------------------
(* parse(): one statement after the other; a statement that reads nothing  *)
(* is stepped over.                                                        *)
tokens == source.toks

Init ==
    /\ \E k \in DOMAIN Sources : source \in Sources[k]
    /\ pos = 1
    /\ root = <<>>

PassBlankLines ==
    /\ ~IsEof(tokens, pos) /\ IsEof(tokens, NoNewLine(tokens, pos))
    /\ pos' = NoNewLine(tokens, pos)
    /\ UNCHANGED <<source, root>>

ParseOne ==
    LET p == NoNewLine(tokens, pos)
        Past(r) == IF r = p THEN After(tokens, r) ELSE r
    IN  /\ ~IsEof(tokens, p)
        /\ \E s \in {parse_statement(tokens, p)} :
             /\ pos' = Past(OptNewline(tokens, s.p))
             /\ root' = Kept(root, s.tree, FALSE)
        /\ UNCHANGED source

Next == PassBlankLines \/ ParseOne
Spec == Init /\ [][Next]_vars
-----------------------------------------------------------------------------
AtEnd == IsEof(tokens, pos)

(* The tree of a program written as the guides write it is the one that    *)
(* was meant: no statement is dropped, read twice or put under another     *)
(* one, wherever braces and ends of lines stand (parse_statement(), and    *)
(* the bodies of parse_if(), parse_try() and the others).                  *)
StatementsMeant == AtEnd /\ source.known => root = source.meant

(* Whatever the tokens are, every statement is read to its end, and the    *)
(* next one begins behind it: no loop of a list or of a body stands still, *)
(* in front of a token that none of its tests takes (parser.c:2904).       *)
Advances == [][pos' > pos /\ pos' # Stuck(tokens)]_vars
=============================================================================
