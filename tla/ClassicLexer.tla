---------------------------- MODULE ClassicLexer ----------------------------
(***************************************************************************)
(* src/src/lexer.c: lexer_tokenize() over one source, one round of its     *)
(* loop per step; the loop of read_string() takes one step per character.  *)
(***************************************************************************)
EXTENDS ClassicLexemes, FiniteSets

CONSTANTS
    Texts,      \* sets of atoms that make a text, each with its longest text
    Cap         \* what a string can hold: 4088 bytes in the code

ASSUME TextsAssumption ==
    \A t \in Texts : t.atoms \subseteq STRING /\ t.upTo \in Nat
ASSUME CapAssumption == Cap \in Nat \ {0}

VARIABLES
    src,    \* the text
    pos,    \* the next character
    line,   \* its line
    col,    \* and its place in the line
    str,    \* the string that is being read, if any
    toks    \* the tokens so far, each with the text it was made of

vars == <<src, pos, line, col, str, toks>>

NoString == [mark |-> "none"]

Init ==
    /\ \E t \in Texts : \E n \in 0 .. t.upTo : src \in [1 .. n -> t.atoms]
    /\ pos = 1 /\ line = 1 /\ col = 1
    /\ str = NoString
    /\ toks = <<>>
-----------------------------------------------------------------------------
(* advance() from pos to q counts lines and columns.                       *)
NewLines(a, b) == {k \in a .. b - 1 : At(src, k) = "\n"}
LineAt(q) == line + Cardinality(NewLines(pos, q))

\* Mutated form: the columns are counted from the start of the last step.
ColOfStep(q) == IF NewLines(pos, q) = {} THEN col + (q - pos) ELSE q - pos

ColAt(q) == IF NewLines(pos, q) = {} THEN col + (q - pos)
            ELSE q - CHOOSE k \in NewLines(pos, q) : NewLines(k + 1, q) = {}
AdvanceTo(q) == /\ pos' = q
                /\ line' = LineAt(q)
                /\ col' = ColAt(q)

Token(type, val, from, to, l, c) ==
    [type |-> type, val |-> val, from |-> from, to |-> to, line |-> l, col |-> c]
Add(token) == toks' = Append(toks, token)

Finished == toks # <<>> /\ toks[Len(toks)].type = "eof"
(* The head of the loop: what stands at p is looked at.                    *)
p == Past(src, pos, Blanks)
Between == str = NoString /\ ~Finished

Take(lexeme) ==
    /\ Add(Token(lexeme.type, lexeme.val, p, lexeme.next, LineAt(p), ColAt(p)))
    /\ AdvanceTo(lexeme.next)
    /\ UNCHANGED <<src, str>>

Comment ==
    /\ Between
    /\ \/ AtLineComment(src, p) /\ AdvanceTo(LineCommentEnd(src, p))
       \/ AtBlockComment(src, p) /\ AdvanceTo(BlockCommentEnd(src, p))
    /\ UNCHANGED <<src, str, toks>>

NewLine ==
    /\ Between /\ At(src, p) = "\n"
    /\ Take(Lexeme("newline", <<"\n">>, p + 1))

(* A string, an f-string or a template: mark is put before its value.      *)
Open(mark, q) ==
    /\ str' = [mark |-> mark, opener |-> Opener(src, q), buf |-> <<>>,
               from |-> p, line |-> LineAt(p), col |-> ColAt(p)]
    /\ AdvanceTo(q + Len(Opener(src, q)))
    /\ UNCHANGED <<src, toks>>
OpenString ==
    /\ Between
    /\ \/ AtString(src, p) /\ Open(<<>>, p)
       \/ AtFString(src, p) /\ Open(<<"$", "f">>, p + 1)
       \/ AtTemplate(src, p) /\ Open(<<"$">>, p + 1)

Reading == str # NoString
StringEnds(buf, q) ==
    /\ Add(Token("string", str.mark \o CString(buf), str.from, q, str.line, str.col))
    /\ str' = NoString

\* Mutated form: the character after a backslash is not passed over.
KeepNoEscape ==
    /\ Reading /\ pos <= Len(src) /\ ~Follows(src, pos, Closer(str.opener))
    /\ LET buf == Append(str.buf, src[pos])
       IN  IF Len(buf) >= Cap THEN StringEnds(buf, pos + 1)
           ELSE str' = [str EXCEPT !.buf = buf] /\ UNCHANGED toks
    /\ AdvanceTo(pos + 1)
    /\ UNCHANGED src

\* Mutated form: the end of the source does not end the loop.
KeepPastEnd ==
    /\ Reading /\ ~Follows(src, pos, Closer(str.opener))
    /\ LET q == Smaller(pos + 1, Len(src) + 1)
           buf == Append(str.buf, At(src, pos))
       IN  /\ AdvanceTo(q)
           /\ IF Len(buf) >= Cap THEN StringEnds(buf, q)
              ELSE str' = [str EXCEPT !.buf = buf] /\ UNCHANGED toks
    /\ UNCHANGED src

(* A character or an escape sequence is stored; a full buffer ends the     *)
(* string where it is.                                                     *)
Keep ==
    /\ Reading /\ pos <= Len(src) /\ ~Follows(src, pos, Closer(str.opener))
    /\ LET escape == src[pos] = "\\"
           q == IF escape THEN Smaller(pos + 2, Len(src) + 1) ELSE pos + 1
           buf == str.buf \o IF escape THEN Unescaped(At(src, pos + 1))
                             ELSE <<src[pos]>>
       IN  /\ AdvanceTo(q)
           /\ IF Len(buf) >= Cap THEN StringEnds(buf, q)
              ELSE str' = [str EXCEPT !.buf = buf] /\ UNCHANGED toks
    /\ UNCHANGED src

Close ==
    /\ Reading
    /\ \/ pos > Len(src) /\ StringEnds(str.buf, pos) /\ UNCHANGED <<pos, line, col>>
       \/ /\ Follows(src, pos, Closer(str.opener))
          /\ StringEnds(str.buf, pos + Len(str.opener))
          /\ AdvanceTo(pos + Len(str.opener))
    /\ UNCHANGED src

ReadLexeme ==
    /\ Between /\ p <= Len(src) /\ src[p] # "\n"
    /\ ~AtLineComment(src, p) /\ ~AtBlockComment(src, p)
    /\ ~AtString(src, p) /\ ~AtFString(src, p) /\ ~AtTemplate(src, p)
    /\ Take(LexemeAt(src, p))

EndOfSource ==
    /\ Between /\ p > Len(src)
    /\ Take(Lexeme("eof", <<>>, p))

Next == \/ Comment \/ NewLine \/ OpenString \/ Keep \/ Close
        \/ ReadLexeme \/ EndOfSource
        \/ Finished /\ UNCHANGED vars

Spec == Init /\ [][Next]_vars
-----------------------------------------------------------------------------
(* What stands before the token k and after the one before it: blanks, and *)
(* comments.                                                               *)
GapStart(k) == IF k = 1 THEN 1 ELSE toks[k - 1].to
Ignored(a, b) == \/ Past(src, a, Blanks) >= b
                 \/ AtLineComment(src, Past(src, a, Blanks))
                 \/ AtBlockComment(src, Past(src, a, Blanks))

(* Tokens follow each other in the text, and what lies between two is      *)
(* blank or comment.  A word, number or operator is its text: nothing of   *)
(* the program is lost or read twice.  Not so the step over $, the arrows  *)
(* that stand for others, the suffix f and the words built by the lexer.   *)
TokensAreText ==
    \A k \in DOMAIN toks :
        LET t == toks[k]
            text == Text(src, t.from, t.to)
        IN  /\ GapStart(k) <= t.from /\ t.from <= t.to
            /\ Ignored(GapStart(k), t.from)
            /\ t.type \in {"ident", "int", "float", "operator", "command", "unknown"} =>
                 \/ t.val = text
                 \/ t.type = "float" /\ \E f \in {"f", "F"} : text = Append(t.val, f)
                 \/ text[1] \in {"$", "E2"}

(* No token stops short of a longer one: no operator that begins where a    *)
(* token for an operator does is longer than it, and a word, distance among *)
(* them, does not end inside a longer word, whatever the order in which     *)
(* lexer_tokenize() makes its tests.                                        *)
LongestTokens ==
    \A k \in DOMAIN toks :
        LET t == toks[k]
            whole == t.val = Text(src, t.from, t.to)
        IN  /\ t.type \in {"operator", "arrow"} =>
                 \A i \in DOMAIN Operators :
                   Follows(src, t.from, Operators[i]) =>
                     Len(Operators[i]) <= t.to - t.from
            /\ \/ t.type \in {"ident", "keyword", "bool"} /\ whole
               \/ t.type = "command" /\ t.val = <<"distance">>
               => At(src, t.to) \notin WordAtoms

(* An error message names the line and column of the text it is about,     *)
(* also after strings and comments of several lines.                       *)
PlaceOfToken ==
    \A k \in DOMAIN toks :
        LET before == {j \in 1 .. toks[k].from - 1 : src[j] = "\n"}
        IN  /\ toks[k].line = Cardinality(before) + 1
            /\ \E j \in before \cup {0} : /\ toks[k].col = toks[k].from - j
                                          /\ \A i \in before : i <= j

(* A character of a string is escaped if an odd number of backslashes      *)
(* stands before it.                                                       *)
Backslashes(a, q) == CHOOSE n \in 0 .. q - a :
                       /\ \A j \in q - n .. q - 1 : src[j] = "\\"
                       /\ n = q - a \/ src[q - n - 1] # "\\"
Escaped(a, q) == Backslashes(a, q) % 2 = 1

(* A string token reaches exactly to the first delimiter that is not       *)
(* escaped, unless the buffer is full or the source ends first: no part of *)
(* its text is read as program, and none of the program as its text.       *)
StringsEndWhereTheyEnd ==
    \A k \in DOMAIN toks : toks[k].type = "string" =>
        LET t == toks[k]
            quote == IF src[t.from] \in {"f", "$"} THEN t.from + 1 ELSE t.from
            first == quote + Len(Opener(src, quote))
            close == Closer(Opener(src, quote))
            Ends(q) == Follows(src, q, close) /\ ~Escaped(first, q)
        IN  /\ \A q \in first .. t.to - Len(close) - 1 : ~Ends(q)
            /\ \/ t.to - Len(close) >= first /\ Ends(t.to - Len(close))
               \/ t.to = Len(src) + 1
               \/ t.to - first >= Cap

(* No round of the loops stands still: it reads on or, at the end of the   *)
(* source, it adds one of the last two tokens.                             *)
EveryRoundReads ==
    [][\/ pos' > pos
       \/ pos = Len(src) + 1 /\ Len(toks') = Len(toks) + 1]_vars
=============================================================================
