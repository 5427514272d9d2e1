--------------------------- MODULE ClassicLexemes ---------------------------
(***************************************************************************)
(* src/src/lexer.c: what the lexer of Lu Classic takes for one token, as   *)
(* operators over a source s and a position p.  A source is a sequence of  *)
(* atoms: an atom is a character, a byte of a character that is not ASCII  *)
(* ("C2" "AB" is an opening guillemet), or a run of letters that no        *)
(* keyword divides.                                                        *)
(***************************************************************************)
EXTENDS Integers, Sequences

CONSTANTS
    Letters,    \* the atoms that isalpha() accepts
    Room        \* what is kept of a payload: 127 to 511 bytes in the code

ASSUME RoomAssumption == Room \in Nat

Digits == {"0", "1", "2", "3", "4", "5", "6", "7", "8", "9"}
HexDigits == Digits \cup {"a", "b", "c", "d", "e", "f", "A", "B", "C", "D", "E", "F"}
WordAtoms == Letters \cup Digits \cup {"_", "."}
Blanks == {" ", "\t", "\r"}
-----------------------------------------------------------------------------
(* cur() and peek(), "" past the end; starts_with().                       *)
At(s, p) == IF p \in DOMAIN s THEN s[p] ELSE ""
Follows(s, p, w) == \A k \in DOMAIN w : At(s, p + k - 1) = w[k]

(* The position of the first atom from p on that is, or is not, in S, or   *)
(* the end of the source.                                                  *)
Until(s, p, S) == CHOOSE q \in p .. Len(s) + 1 :
                    /\ q = Len(s) + 1 \/ s[q] \in S
                    /\ \A k \in p .. q - 1 : s[k] \notin S
Past(s, p, S) == CHOOSE q \in p .. Len(s) + 1 :
                   /\ q = Len(s) + 1 \/ s[q] \notin S
                   /\ \A k \in p .. q - 1 : s[k] \in S
Text(s, p, q) == SubSeq(s, p, q - 1)
Smaller(m, n) == IF m < n THEN m ELSE n

(* A token of a type, with the value that later passes read, ends before   *)
(* the position next.                                                      *)
Lexeme(type, val, next) == [type |-> type, val |-> val, next |-> next]
-----------------------------------------------------------------------------
(* Comments: the position after the one at p.  A block comment that is not *)
(* closed ends with the source.                                            *)
AtLineComment(s, p) == Follows(s, p, <<"/", "/">>)
AtBlockComment(s, p) == Follows(s, p, <<"/", "*">>)
LineCommentEnd(s, p) == Until(s, p, {"\n"})
BlockCommentEnd(s, p) ==
    LET closing == {q \in p + 2 .. Len(s) - 1 : Follows(s, q, <<"*", "/">>)}
    IN  IF closing = {} THEN Len(s) + 1
        ELSE (CHOOSE q \in closing : \A r \in closing : q <= r) + 2
-----------------------------------------------------------------------------
(* read_string(): a string begins at p and ends at its closing delimiter.  *)
(* What an escape sequence stands for: the character after the backslash   *)
(* is a, "" at the end of the source.                                      *)
AtString(s, p) == At(s, p) \in {"\"", "'"} \/ Follows(s, p, <<"C2", "AB">>)
AtFString(s, p) == At(s, p) = "f" /\ AtString(s, p + 1)
AtTemplate(s, p) == Follows(s, p, <<"$", "C2", "AB">>)

Opener(s, p) == IF Follows(s, p, <<"\"", "\"", "\"">>) THEN <<"\"", "\"", "\"">>
                ELSE IF At(s, p) = "C2" THEN <<"C2", "AB">> ELSE <<s[p]>>
Closer(opener) == IF opener = <<"C2", "AB">> THEN <<"C2", "BB">> ELSE opener

Control == [n |-> "\n", t |-> "\t", r |-> "\r"]
Unescaped(a) == IF a \in DOMAIN Control THEN <<Control[a]>>
                ELSE IF a = "0" THEN <<"NUL">>
                ELSE IF a \in {"\\", "\"", "'"} THEN <<a>>
                ELSE IF a = "" THEN <<"\\">> ELSE <<"\\", a>>

(* lu_strdup() of the buffer: a string of C ends at its first NUL.         *)
CString(buf) == SubSeq(buf, 1, Until(buf, 1, {"NUL"}) - 1)
-----------------------------------------------------------------------------
(* read_number(): a prefix and its digits, or digits with at most one dot  *)
(* between two of them, an exponent, and a suffix f that is dropped.       *)
Prefixed(s, p) == /\ At(s, p) = "0"
                  /\ At(s, p + 1) \in {"x", "X", "b", "B", "o", "O"}
DigitsAfter(x) == IF x \in {"x", "X"} THEN HexDigits
                  ELSE IF x \in {"b", "B"} THEN {"0", "1"} ELSE Digits \ {"8", "9"}

Mantissa(s, p) ==
    LET whole == Past(s, p, Digits)
    IN  IF At(s, whole) = "." /\ At(s, whole + 1) \in Digits
        THEN Past(s, whole + 1, Digits) ELSE whole
Exponent(s, q) ==
    LET sign == IF At(s, q + 1) \in {"+", "-"} THEN q + 2 ELSE q + 1
    IN  IF At(s, q) \in {"e", "E"} /\ At(s, sign) \in Digits
        THEN Past(s, sign, Digits) ELSE q

AtNumber(s, p) == At(s, p) \in Digits
\* Mutated form: the suffix f is dropped after every number.
NumberAnySuffix(s, p) ==
    LET q == Exponent(s, Mantissa(s, p))
    IN  Lexeme(IF q # Past(s, p, Digits) THEN "float" ELSE "int", Text(s, p, q),
               IF At(s, q) = "f" THEN q + 1 ELSE q)
Number(s, p) ==
    IF Prefixed(s, p)
    THEN LET q == Past(s, p + 2, DigitsAfter(s[p + 1]))
         IN  Lexeme("int", Text(s, p, q), q)
    ELSE LET q == Exponent(s, Mantissa(s, p))
             float == q # Past(s, p, Digits)
             suffix == float /\ At(s, q) \in {"f", "F"}
         IN  Lexeme(IF float THEN "float" ELSE "int", Text(s, p, q),
                    IF suffix THEN q + 1 ELSE q)
-----------------------------------------------------------------------------
(* read_word(), and directives: #define and the like, #q<n>, #q<n>:end.    *)
WordEnd(s, p) == Past(s, p, WordAtoms)
Word(s, p) == Text(s, p, WordEnd(s, p))

Directives == {<<"define">>, <<"include">>, <<"pragma">>, <<"ifdef">>, <<"endif">>}
AtDirective(s, p) == At(s, p) = "#"
BlockNumber(s, p) == Text(s, Past(s, p, {"0"}), Past(s, p, Digits))    \* atoi()
Directive(s, p) ==
    LET w == Word(s, p + 1)
        q == WordEnd(s, p + 1)
        end == WordEnd(s, q + 1)
    IN  IF At(s, p + 1) \in Digits THEN Lexeme("unknown", <<"#">>, p + 1)
        ELSE IF w \in Directives THEN Lexeme("directive", <<"#">> \o w, q)
        ELSE IF At(w, 1) # "q" THEN Lexeme("ident", <<"#">> \o w, q)
        ELSE IF At(s, q) # ":" THEN Lexeme("block", BlockNumber(s, p + 2), q)
        ELSE Lexeme(IF Word(s, q + 1) = <<"end">> THEN "blockend" ELSE "block",
                    BlockNumber(s, p + 2), end)

AtAnnotation(s, p) == At(s, p) = "@"
Annotation(s, p) == Lexeme("annotation", Word(s, p + 1), WordEnd(s, p + 1))
-----------------------------------------------------------------------------
(* The operators of more than one character, in the order of the tests in  *)
(* the code.  Two arrows of one character each have the text of -> and <-; *)
(* the first is a token of its own kind all the same.                      *)
Operators == <<
    <<">", ">", ">">>, <<"<", "<", "=">>, <<">", ">", "=">>,
    <<">", ">">>, <<"<", "-">>, <<"<", "<">>, <<"*", "*">>, <<"+", "+">>,
    <<"-", "-">>, <<"&", "&">>, <<"|", "|">>, <<"=", "=">>, <<"!", "=">>,
    <<"<", "=">>, <<">", "=">>, <<"-", ">">>, <<"+", "=">>, <<"-", "=">>,
    <<"*", "=">>, <<"/", "=">>, <<"%", "=">>, <<"&", "=">>, <<"|", "=">>,
    <<"^", "=">>, <<"E2", "86", "92">>, <<"E2", "86", "90">>>>
Meaning(op) == IF op = <<"E2", "86", "92">> THEN <<"-", ">">>
               ELSE IF op = <<"E2", "86", "90">> THEN <<"<", "-">> ELSE op

AtOperator(s, p) == \E k \in DOMAIN Operators : Follows(s, p, Operators[k])
\* Mutated form: the tests of two characters come before those of three.
ShortOperator(s, p) ==
    LET found == {k \in DOMAIN Operators : Follows(s, p, Operators[k])}
    IN  Operators[CHOOSE k \in found :
                    \A j \in found : Len(Operators[k]) <= Len(Operators[j])]
FirstOperator(s, p) ==
    Operators[CHOOSE k \in DOMAIN Operators :
                /\ Follows(s, p, Operators[k])
                /\ \A j \in 1 .. k - 1 : ~Follows(s, p, Operators[j])]
Operator(s, p) == LET op == FirstOperator(s, p)
                  IN  Lexeme(IF op = <<"E2", "86", "92">> THEN "arrow" ELSE "operator",
                             Meaning(op), p + Len(op))
-----------------------------------------------------------------------------
(* Commands have a fixed spelling that may hold other characters than      *)
(* words; they are looked for before words, whatever letter follows.       *)
SlashWords == {"If", "Elif", "Else", "Pr", "To", "Ret", "Loop", "Set", "Opt",
    "Ref", "Deref", "Alloc", "Free", "Memset", "Memcpy", "Try", "Catch",
    "Finally", "Throw", "Await", "Spawn", "Chan", "Select", "Case", "Default",
    "Event", "On", "Emit", "Off", "Log", "Assert", "Trace", "Break", "Watch",
    "Route", "Send", "Recv", "Fwd", "Del", "Fn", "Call", "M", "ptr"}
Commands == {<<w, "/">> : w \in SlashWords} \cup
    {<<"Lu", "/", "Language">>, <<"inq", ";">>, <<"snd", ":", "mes">>,
     <<"Rec", "/", ":">>, <<"Def", ":", "const">>, <<"Def", ":", "config">>}

CommandAt(s, p) == {c \in Commands : Follows(s, p, c)}
AtDistance(s, p) == At(s, p) = "distance" /\ At(s, p + 1) \notin WordAtoms
AtCommand(s, p) == CommandAt(s, p) # {} \/ AtDistance(s, p)
Command(s, p) == LET c == IF AtDistance(s, p) THEN <<"distance">>
                          ELSE CHOOSE c \in CommandAt(s, p) : TRUE
                 IN  Lexeme("command", c, p + Len(c))

(* Commands with a payload up to a closing character; /Lin after Def:anw() *)
(* is skipped, and the type cor/ has a payload if a brace follows.         *)
Payloads == {<<"cr", "(">>, <<"dam", "(">>, <<"onl", "(">>, <<"func", "(">>,
             <<"Snd", "{">>, <<"Bcast", "{">>, <<"cor", "/", "{">>,
             <<"Def", ":", "anw", "(">>}
PayloadAt(s, p) == {c \in Payloads : Follows(s, p, c)}
AtCor(s, p) == Follows(s, p, <<"cor", "/">>)
AtPayload(s, p) == PayloadAt(s, p) # {} \/ AtCor(s, p)

Kept(text) == SubSeq(text, 1, Smaller(Room, Len(text)))
Payload(s, p) ==
    IF PayloadAt(s, p) = {} THEN Lexeme("keyword", <<"cor">>, p + 2)
    ELSE LET c == CHOOSE c \in PayloadAt(s, p) : TRUE
             q == Until(s, p + Len(c), {IF c[Len(c)] = "{" THEN "}" ELSE ")"})
             after == Smaller(q, Len(s)) + 1
             lin == c[1] = "Def" /\ Follows(s, after, <<"/", "Lin">>)
         IN  Lexeme(c[1], Kept(Text(s, p + Len(c), q)),
                    IF lin THEN after + 2 ELSE after)

(* /lang/ and as much of the line as there is room for.                    *)
AtBinding(s, p) == Follows(s, p, <<"/", "lang", "/">>)
Binding(s, p) == LET q == Smaller(Until(s, p + 3, {"\n"}), p + 3 + Room)
                 IN  Lexeme("binding", Text(s, p + 3, q), q)
-----------------------------------------------------------------------------
Keywords == {"Import", "User", "Server", "Module", "Ns", "Use", "enum",
    "struct", "union", "tuple", "int", "int64", "float", "str", "bool", "byte",
    "ip", "id", "cor", "msg", "lib", "void"}
keyword_type(w) == IF w \in {<<k>> : k \in Keywords} THEN "keyword"
                   ELSE IF w \in {<<"true">>, <<"false">>} THEN "bool" ELSE "ident"
AtWord(s, p) == At(s, p) \in Letters \cup {"_"}
Identifier(s, p) == Lexeme(keyword_type(Word(s, p)), Word(s, p), WordEnd(s, p))

Punctuation == {"+", "-", "*", "/", "%", "&", "|", "^", "~", "!", "<", ">", "?",
                ":", ".", ",", ";", "=", "(", ")", "{", "}", "[", "]"}
Single(s, p) == Lexeme(IF s[p] \in Punctuation THEN "operator" ELSE "unknown",
                       <<s[p]>>, p + 1)

(* A $ that begins no template is stepped over, and what follows is looked *)
(* at for commands only, but for two of them; then it is a single          *)
(* character, and the step over it is taken a second time.                 *)
AtDollar(s, p) == At(s, p) = "$" /\ ~AtTemplate(s, p)
Dollar(s, p) ==
    IF AtCommand(s, p + 1) /\ At(s, p + 1) \notin {"Lu", "M"} THEN Command(s, p + 1)
    ELSE IF AtPayload(s, p + 1) THEN Payload(s, p + 1)
    ELSE IF AtBinding(s, p + 1) THEN Binding(s, p + 1)
    ELSE Lexeme("unknown", <<"$">>, Smaller(p + 2, Len(s) + 1))

(* The tests of lexer_tokenize() in their order, for everything but        *)
(* blanks, comments, ends of lines and strings.                            *)
LexemeAt(s, p) ==
    IF AtDollar(s, p) THEN Dollar(s, p)
    ELSE IF AtNumber(s, p) THEN Number(s, p)
    ELSE IF AtDirective(s, p) THEN Directive(s, p)
    ELSE IF AtAnnotation(s, p) THEN Annotation(s, p)
    ELSE IF AtOperator(s, p) THEN Operator(s, p)
    ELSE IF AtCommand(s, p) THEN Command(s, p)
    ELSE IF AtPayload(s, p) THEN Payload(s, p)
    ELSE IF AtBinding(s, p) THEN Binding(s, p)
    ELSE IF AtWord(s, p) THEN Identifier(s, p) ELSE Single(s, p)
=============================================================================
