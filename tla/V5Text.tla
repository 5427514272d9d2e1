------------------------------- MODULE V5Text -------------------------------
(***************************************************************************)
(* An expression of Lu/Strict on its way through three parts of the        *)
(* compiler: src/src/v5.c writes it as text of Lu Classic, src/src/lexer.c *)
(* makes tokens of the text and src/src/parser.c a tree of the tokens.  No *)
(* other information goes from one to the next.                            *)
(***************************************************************************)
EXTENDS ClassicLexer, SequencesExt

CONSTANTS Vars, Freed, Functions, Structs, Packs, Strings,
    Sentences   \* expressions: their tokens, and the tree that they mean

V5 == INSTANCE V5Expr
Classic == INSTANCE ClassicExpr

VARIABLES
    sentence,   \* the expression
    out,        \* what expr() has made of it
    trees       \* what parse_expr() has read, a tree for every line

textVars == <<sentence, out, trees>>
allVars == <<vars, textVars>>

Waiting == [p |-> 1, text |-> <<>>, pre |-> <<>>, ok |-> FALSE]

TextInit ==
    /\ sentence \in Sentences
    /\ out = Waiting
    /\ trees = <<>>
    /\ src = <<>> /\ pos = 1 /\ line = 1 /\ col = 1
    /\ str = NoString /\ toks = <<>>

(* The searches for `x in array` stand in lines before the one with the    *)
(* expression; of their loops only the comparison is kept here.            *)
Lines(r) == [k \in DOMAIN r.pre |-> Append(V5!SearchText(r.pre[k]), "\n")]

Translate ==
    /\ out = Waiting
    /\ out' = V5!Expr(sentence.toks, 1, <<>>)
    /\ src' = FlattenSeq(Lines(out')) \o out'.text
    /\ UNCHANGED <<pos, line, col, str, toks, sentence, trees>>

Tokenize == /\ out # Waiting /\ out.ok /\ ~Finished
            /\ Next
            /\ UNCHANGED textVars

LineStart == IF trees = <<>> THEN 1 ELSE trees[Len(trees)].p
ParseLine ==
    /\ Finished
    /\ Len(trees) <= Len(out.pre)
    /\ trees' = Append(trees, Classic!parse_expr(toks, LineStart))
    /\ UNCHANGED <<vars, sentence, out>>

Read == Finished /\ Len(trees) = Len(out.pre) + 1

Refused == out # Waiting /\ ~out.ok
TextNext == \/ Translate \/ Tokenize \/ ParseLine
            \/ (Read \/ Refused) /\ UNCHANGED allVars
TextSpec == TextInit /\ [][TextNext]_allVars
-----------------------------------------------------------------------------
(* The trees of Classic as they are meant: the lexer makes one word of     *)
(* names with dots between them, and the flag of a search stands for it.   *)
Names(word) == SelectSeq(word, LAMBDA a : a # ".")
FieldsOf(base, names) ==
    FoldLeft(LAMBDA e, n : Classic!Node("field", <<".", n>>, <<e>>), base, names)

RECURSIVE Meant(_, _)
Meant(tree, before) ==
    LET kids == [k \in DOMAIN tree.kids |-> Meant(tree.kids[k], before)]
        names == Names(tree.val)
        searches == {k \in DOMAIN before : tree.val = <<"__lu_f", out.pre[k].id>>}
        k == CHOOSE k \in searches : TRUE
        test == before[k].tree
    IN  IF tree.kind = "ident" /\ Cardinality(searches) = 1
        THEN Classic!Node("search", test.kids[1].kids[1].val,
                          <<Meant(test.kids[2], SubSeq(before, 1, k - 1))>>)
        ELSE IF tree.kind = "ident" /\ names # <<>>
        THEN FieldsOf(Classic!Leaf("ident", <<Head(names)>>), Tail(names))
        ELSE IF tree.kind = "field"
        THEN FieldsOf(Classic!Node("field", SubSeq(names, 1, 2), kids), SubSeq(names, 3, Len(names)))
        ELSE [tree EXCEPT !.kids = kids]

(* Whatever is nested in whatever, the tree that the Classic parser builds *)
(* is the one that the expression means: no operand moves to another       *)
(* operator, no name becomes a cast, no call or string is read as anything *)
(* else, the flags of searches are computed before they are used, and the  *)
(* whole line is read.                                                     *)
ParsesBack ==
    Read =>
        LET n == Len(trees)
        IN  /\ Meant(trees[n].tree, SubSeq(trees, 1, n - 1)) = sentence.tree
            /\ \A k \in 1 .. n : toks[trees[k].p].type = IF k = n THEN "eof" ELSE "newline"

(* An expression is accepted, to its end, if and only if its names are     *)
(* declared and visible and its arguments and operands have types that the *)
(* language allows there.                                                  *)
AcceptsLegal ==
    out # Waiting => /\ out.ok <=> sentence.legal
                     /\ out.ok => out.p = Len(sentence.toks) + 1
=============================================================================
