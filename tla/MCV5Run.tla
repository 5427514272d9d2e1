------------------------------ MODULE MCV5Run ------------------------------
(* The bodies that TLC enumerates and runs.                                *)
EXTENDS V5Run

Word(k) == [k |-> k, x |-> ""]
On(k, x) == [k |-> k, x |-> x]

\* Control: every compound statement and every way out of it.
ControlTokens ==
  {Word(k) : k \in {"if", "else", "elseif", "while", "match", "case", "ret",
                    "break", "continue", "}"}}

\* Conditions of the form `e in a`, which are computed in front of their line.
HoistTokens ==
  {On("bind", "a"), On("elseif", "a"), On("while", "a"),
   Word("if"), Word("else"), Word("}")}

\* Names: one pointer, one number and an array, in loops and branches; any of
\* them may be used before it is declared.
NameTokens ==
  {Word(k) : k \in {"if", "continue", "}"}}
    \cup {On("bind", "p"), On("use", "p"), On("del", "p"),
          On("bind", "n"), On("bind", "a"), On("set", "n"), On("loop", "n"),
          On("range", "i"), On("each", "i"),
          On("if", "a"), On("elseif", "a"), On("while", "a")}

\* A function with a result is given bodies of control tokens, for which alone
\* the result matters, and one without a result bodies of name tokens, which
\* hold no `ret`; those are shorter by one token.
BodyTokens == ControlTokens \cup NameTokens

PlainCode == \A q \in 1..Len(code) : code[q].x = ""

NamesCode ==
  \A q \in 1..Len(code) :
    /\ code[q].op \notin {"else", "return", "break", "temp"}
    /\ code[q].op \in {"while", "elseif"} => q > 1 /\ code[q - 1].op = "hoist"

OneKind ==
  IF valued THEN PlainCode
            ELSE NamesCode /\ read + Len(blocks) <= MaxTokens - 1
=============================================================================
