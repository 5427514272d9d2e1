----------------------------- MODULE V5Includes -----------------------------
(***************************************************************************)
(* `incl` in Lu/Strict (src/v5.c): the transpiler parses the token stream  *)
(* twice.  Pass 1 (scan) splices the tokens of an included file behind the *)
(* directive that names it; pass 2 (emit) walks the spliced stream and     *)
(* passes over the directives.  A line stands for the tokens of one        *)
(* top-level declaration and keeps the spelling of the file it came from,  *)
(* as Tok.file does.                                                       *)
(***************************************************************************)
EXTENDS Naturals, Sequences

CONSTANTS
  Path, NoPath, Name, Text, Main, RealPath, Resolve, Bodies,
  Strict      \* canonical paths whose first tokens are Lu/Strict

Line == Name \cup {Text}

ASSUME V5Assumption ==
  /\ NoPath \notin Path
  /\ Text \notin Name
  /\ Main \in Path
  /\ RealPath \in [Path -> Path]
  /\ Resolve \in [Path -> [Name -> Path \cup {NoPath}]]
  /\ Bodies \subseteq [Path -> Seq(Line)]

VARIABLES
  body,    \* the contents of the files by canonical path, chosen once
  toks,    \* V5.tk: <<spelling of the file, line number>>
  pos,     \* V5.pos
  seen,    \* V5.inc
  pass,    \* "scan" or "emit" (V5.scan)
  out,     \* V5.out: the lines emitted in pass 2
  status   \* "run", "ok" or the error v5_transpile returns

vars == <<body, toks, pos, seen, pass, out, status>>

Errors == {"missing", "unreadable", "lexical", "dialect", "redeclared", "refused"}

Lines(p) == body[RealPath[p]]
TokensOf(p) == [i \in 1..Len(Lines(p)) |-> <<p, i>>]
LineAt(item) == Lines(item[1])[item[2]]
Item(t) == <<RealPath[t[1]], t[2]>>

Named == Resolve[toks[pos][1]][LineAt(toks[pos])]
Target == RealPath[Named]

AtToken == status = "run" /\ pos <= Len(toks)
AtDirective == AtToken /\ LineAt(toks[pos]) # Text

Init ==
  /\ body \in Bodies
  /\ toks = TokensOf(Main)
  /\ pos = 1
  /\ seen = {}
  /\ pass = "scan"
  /\ out = <<>>
  /\ status = "run"

\* A function or a global declared twice is an error; a struct or a pack is
\* not noticed.
Redeclaration ==
  /\ AtToken
  /\ LineAt(toks[pos]) = Text
  /\ pass = "scan"
  /\ Item(toks[pos]) \in {Item(toks[k]) : k \in 1..(pos - 1)}
  /\ status' = "redeclared"
  /\ UNCHANGED <<body, toks, pos, seen, pass, out>>

\* Pass 1 records the declaration's signature and skips its body without a
\* look (parse_block_raw); pass 2 checks the body and emits it.
Declaration ==
  /\ AtToken
  /\ LineAt(toks[pos]) = Text
  /\ out' = IF pass = "emit" THEN Append(out, Item(toks[pos])) ELSE out
  /\ pos' = pos + 1
  /\ UNCHANGED <<body, toks, seen, pass, status>>

\* A declaration either pass does not accept: pass 1 finds a wrong signature
\* or a token that begins none, pass 2 an error in a body, after it may have
\* emitted other declarations.  parse_program() stops and nothing is returned.
Refused ==
  /\ AtToken
  /\ LineAt(toks[pos]) = Text
  /\ status' = "refused"
  /\ UNCHANGED <<body, toks, pos, seen, pass, out>>

NotFound ==
  /\ AtDirective
  /\ pass = "scan"
  /\ Named = NoPath
  /\ status' = "missing"
  /\ UNCHANGED <<body, toks, pos, seen, pass, out>>

SkipWithoutAdvance ==
  /\ AtDirective
  /\ pass = "scan"
  /\ Named # NoPath
  /\ Target \in seen
  /\ UNCHANGED vars

AlreadyIncluded ==
  /\ AtDirective
  /\ pass = "scan"
  /\ Named # NoPath
  /\ Target \in seen
  /\ pos' = pos + 1
  /\ UNCHANGED <<body, toks, seen, pass, out, status>>

\* Mutated form: the file's tokens go to the end of the stream.
SpliceAtEnd ==
  /\ AtDirective
  /\ pass = "scan"
  /\ Named # NoPath
  /\ Target \notin seen
  /\ toks' = toks \o TokensOf(Named)
  /\ pos' = pos + 1
  /\ seen' = seen \cup {Target}
  /\ UNCHANGED <<body, pass, out, status>>

\* splice_tokens() inserts the file's tokens at the position behind the
\* directive.  The path is remembered after the splice, and also when the
\* file does not lex or turns out not to be v5.
Splice ==
  /\ AtDirective
  /\ pass = "scan"
  /\ Named # NoPath
  /\ Target \notin seen
  /\ \/ /\ status' = "unreadable"
        /\ UNCHANGED <<toks, pos, seen>>
     \/ /\ status' = "lexical"
        /\ seen' = seen \cup {Target}
        /\ UNCHANGED <<toks, pos>>
     \/ /\ Target \notin Strict
        /\ status' = "dialect"
        /\ seen' = seen \cup {Target}
        /\ UNCHANGED <<toks, pos>>
     \/ /\ Target \in Strict
        /\ toks' = SubSeq(toks, 1, pos) \o TokensOf(Named)
                     \o SubSeq(toks, pos + 1, Len(toks))
        /\ pos' = pos + 1
        /\ seen' = seen \cup {Target}
        /\ UNCHANGED status
  /\ UNCHANGED <<body, pass, out>>

\* Pass 2: the tokens of the file are already in the stream.
PassOver ==
  /\ AtDirective
  /\ pass = "emit"
  /\ pos' = pos + 1
  /\ UNCHANGED <<body, toks, seen, pass, out, status>>

\* Mutated form: pass 2 starts where pass 1 ended.
NoRewind ==
  /\ status = "run"
  /\ pos > Len(toks)
  /\ IF pass = "scan"
       THEN pass' = "emit" /\ UNCHANGED status
       ELSE status' = "ok" /\ UNCHANGED pass
  /\ UNCHANGED <<body, toks, pos, seen, out>>

\* A pass that comes here has not failed: pass 1 hands over to pass 2, and
\* only the end of pass 2 lets v5_transpile() return the output.
EndOfStream ==
  /\ status = "run"
  /\ pos > Len(toks)
  /\ IF pass = "scan"
       THEN pass' = "emit" /\ pos' = 1 /\ out' = <<>> /\ UNCHANGED status
       ELSE status' = "ok" /\ UNCHANGED <<pass, pos, out>>
  /\ UNCHANGED <<body, toks, seen>>

Next ==
  \/ Declaration \/ Redeclaration \/ Refused \/ NotFound \/ AlreadyIncluded
  \/ Splice \/ PassOver \/ EndOfStream

Spec == Init /\ [][Next]_vars

\* The parser is one loop in one process: it takes its next step.
FairSpec == Spec /\ WF_vars(Next)

----------------------------------------------------------------------------
\* The declarations among the first n tokens of the stream.
Declared(n) ==
  LET declared[k \in 0..n] ==
        IF k = 0 THEN <<>>
        ELSE IF LineAt(toks[k]) = Text
               THEN Append(declared[k - 1], Item(toks[k]))
               ELSE declared[k - 1]
  IN  declared[n]

\* Pass 2 emits the stream pass 1 built, in its order and completely: no
\* file is spliced again and no declaration is passed over (v5_transpile).
EmitsWhatWasScanned ==
  /\ pass = "emit" => out = Declared(pos - 1)
  /\ status = "ok" => out = Declared(Len(toks))

\* A nested file is resolved from the spelling it was found under.  The work
\* list is empty in pass 2, and the outcome open until that pass has ended.
Unit == INSTANCE IncludeOnce
  WITH todo <- IF pass = "scan" THEN SubSeq(toks, pos, Len(toks)) ELSE <<>>,
       text <- Declared(IF pass = "scan" THEN pos - 1 ELSE Len(toks)),
       From <- [p \in Path |-> p],
       Refuses <- TRUE,
       outcome <- IF status \in Errors THEN "failed" ELSE status

\* Splicing behind the directive while parsing reads the same unit, line by
\* line, as expanding the text first: v5 and Classic implement the same
\* IncludeOnce and differ in From only (parse_include, splice_tokens).
ImplementsIncludeOnce == Unit!Spec

\* "Diamonds and cycles terminate" (SPEC.md 8.3).
Terminates == <>(status # "run")
=============================================================================
