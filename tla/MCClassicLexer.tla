-------------------------- MODULE MCClassicLexer --------------------------
(***************************************************************************)
(* Texts of a few atoms from alphabets that meet the same tests of the     *)
(* lexer.                                                                  *)
(***************************************************************************)
EXTENDS ClassicLexer

Of(n, atoms) == [atoms |-> atoms, upTo |-> n]

MCTexts == {
    Of(7, {"\"", "'", "\\", "x"}),
    Of(6, {"f", "C2", "AB", "BB", "\\"}),
    Of(5, {"\"", "\n", "\\", "0", "f", "$"}),
    Of(5, {"0", "1", "x", ".", "e", "+", "f", "F"}),
    Of(5, {"<", ">", "=", "-", "*", "/", "&"}),
    Of(3, {"<", ">", "=", "-", "*", "/", "&", "|", "+", "!", "%", "^"}),
    Of(5, {"#", "q", "1", "0", ":", "end", "@"}),
    Of(5, {"cr", "(", ")", "If", "/", "$", "Lin"}),
    Of(5, {"Def", ":", "anw", "(", ")", "/", "Lin"}),
    Of(5, {"distance", "_", "cor", "/", "lang", "{", "\n"}),
    Of(5, {"}", "M", "E2", "86", "92", "Snd", "{"}),
    Of(5, {"/", "*", "\n", "\t", "int", "true", "+"})}
MCLetters == {"f", "F", "x", "e", "q", "a", "end", "cr", "If", "Def", "anw", "Lin", "distance",
              "cor", "lang", "M", "int", "true", "Snd"}
=============================================================================
