---------------------------- MODULE V5Statements ----------------------------
(***************************************************************************)
(* Pass 2 of the Lu/Strict transpiler over one function body (src/v5.c,    *)
(* stmt() and the parse_* functions it calls): what is accepted, and the   *)
(* Classic text that is emitted for it.                                    *)
(*                                                                         *)
(* The source is read token by token; a token stands for a whole statement *)
(* or for a statement's head up to its brace.  A block is one activation   *)
(* of body() with the parse_* function that called it.  Expressions and    *)
(* types are left out, except that a statement uses, sets or frees a name, *)
(* and that a condition may be of the form `e in a`, a being an array.     *)
(* Only bodies whose braces and keywords are in order are enumerated.      *)
(***************************************************************************)
EXTENDS Naturals, Sequences, FiniteSets

CONSTANTS
  Name,         \* the names a body declares and uses
  Pointers,     \* those of type ptr/T
  Tokens,       \* the statements bodies are made of: records [k, x]
  MaxTokens,    \* bound: the longest body
  SavedBlocks   \* length of V5.blk_nloc (256)

ASSUME StatementAssumption ==
  /\ Pointers \subseteq Name
  /\ \A t \in Tokens : /\ t.x \in Name \cup {""}
                       /\ t.k \in {"set", "loop", "range", "each"} => t.x \notin Pointers
                       /\ t.k \in {"bind", "range", "each"} => t.x # ""
  /\ MaxTokens \in Nat
  /\ SavedBlocks \in Nat

VARIABLES
  valued,   \* the function has a result (V5.cur_ret is not void)
  blocks,   \* the open blocks, the innermost last
  loc,      \* V5.loc, up to V5.nloc
  loops,    \* V5.loop_kind and V5.loop_inc, up to V5.nloop
  code,     \* V5.out: the emitted lines
  read,     \* how many tokens were read (for the bound)
  verdict   \* "parse", "accepted" or "rejected" (V5.failed)

vars == <<valued, blocks, loc, loops, code, read, verdict>>

Last(s) == s[Len(s)]
Front(s) == SubSeq(s, 1, Len(s) - 1)

\* An emitted line: an operation on a name, or the opening or closing of a
\* block.  "temp" declares the hidden variable of a match, and "hoist" is the
\* loop that computes `e in a` into another.  "scope" is the `if true {` of a
\* lowered range, which declares the loop variable; "each" declares its own.
Instr(op, x) == [op |-> op, x |-> x]
Loops == {"while", "loop", "range", "each"}
Openings == Loops \cup {"if", "elseif", "else", "scope"}

Block(kind, nloc, before) ==
  [kind |-> kind, nloc |-> nloc, before |-> before,
   returned |-> FALSE, all |-> TRUE, hasElse |-> FALSE, hasCase |-> FALSE]

Init ==
  /\ valued \in BOOLEAN
  /\ blocks = <<Block("fn", 0, 0)>>
  /\ loc = <<>>
  /\ loops = <<>>
  /\ code = <<>>
  /\ read = 0
  /\ verdict = "parse"

----------------------------------------------------------------------------
Find(x) == {k \in 1..Len(loc) : loc[k].name = x}
Freed(x) == \E k \in Find(x) : loc[k].freed

\* push_var(): shadowing is forbidden.
WithVar(x) == Append(loc, [name |-> x, freed |-> FALSE])

\* V5.depth: a match has no block of its own, a lowered range has two.
Depth == Cardinality({k \in 1..Len(blocks) : blocks[k].kind # "match"})
           + Cardinality({k \in 1..Len(blocks) : blocks[k].kind = "range"})

\* close_block(): the names of the block are dropped.
Dropped ==
  IF Depth - 1 < SavedBlocks THEN SubSeq(loc, 1, Last(blocks).nloc) ELSE loc

\* A statement that always returns ends what is reachable of its block.
Done(below, returns) ==
  [below EXCEPT ![Len(below)].returned = @ \/ returns]

InBody == Last(blocks).kind # "match"

\* The bound leaves room for the braces that are still to be closed.
NextToken ==
  /\ verdict = "parse"
  /\ read + Len(blocks) <= MaxTokens
  /\ read' = read + 1
  /\ UNCHANGED valued

Statement(t, kind) == t.k = kind /\ NextToken /\ InBody

Reject ==
  /\ verdict' = "rejected"
  /\ UNCHANGED <<blocks, loc, loops, code>>

Emit(instrs) == code' = code \o instrs /\ UNCHANGED verdict

\* Mutated form: a second declaration of a name is let through.
ShadowingBind(t) ==
  /\ Statement(t, "bind")
  /\ Emit(<<Instr("bind", t.x)>>)
  /\ loc' = WithVar(t.x)
  /\ UNCHANGED <<blocks, loops>>

Bind(t) ==
  /\ Statement(t, "bind")
  /\ IF Find(t.x) # {}
       THEN Reject
       ELSE /\ Emit(<<Instr("bind", t.x)>>)
            /\ loc' = WithVar(t.x)
            /\ UNCHANGED <<blocks, loops>>

\* Mutated form: the name is looked up, but not whether it was freed.
UseUnchecked(t) ==
  /\ Statement(t, "use")
  /\ IF Find(t.x) = {}
       THEN Reject
       ELSE Emit(<<Instr("use", t.x)>>) /\ UNCHANGED <<blocks, loc, loops>>

\* A name in an expression, or the place of `set p[i] = e`.
Use(t) ==
  /\ Statement(t, "use")
  /\ IF Find(t.x) = {} \/ Freed(t.x)
       THEN Reject
       ELSE Emit(<<Instr("use", t.x)>>) /\ UNCHANGED <<blocks, loc, loops>>

\* `set x = x - 1`.
Set(t) ==
  /\ Statement(t, "set")
  /\ IF Find(t.x) = {} \/ Freed(t.x)
       THEN Reject
       ELSE Emit(<<Instr("set", t.x)>>) /\ UNCHANGED <<blocks, loc, loops>>

\* Del looks at the type of the name, and not at whether it was freed.
Del(t) ==
  /\ Statement(t, "del")
  /\ IF Find(t.x) = {} \/ t.x \notin Pointers
       THEN Reject
       ELSE /\ Emit(<<Instr("free", t.x)>>)
            /\ loc' = [k \in 1..Len(loc) |->
                         [loc[k] EXCEPT !.freed = @ \/ loc[k].name = t.x]]
            /\ UNCHANGED <<blocks, loops>>

Break(t) ==
  /\ Statement(t, "break")
  /\ Emit(<<Instr("break", "")>>)
  /\ UNCHANGED <<blocks, loc, loops>>

\* Mutated form: a range is continued without advancing its variable.
ContinueBare(t) ==
  /\ Statement(t, "continue")
  /\ Emit(<<Instr("continue", "")>>)
  /\ UNCHANGED <<blocks, loc, loops>>

\* The counter of a lowered range is advanced first.
Continue(t) ==
  /\ Statement(t, "continue")
  /\ IF loops # <<>> /\ Last(loops) # ""
       THEN Emit(<<Instr("inc", Last(loops)), Instr("continue", "")>>)
       ELSE Emit(<<Instr("continue", "")>>)
  /\ UNCHANGED <<blocks, loc, loops>>

\* `ret` with a value or without one, whichever the function needs; the other
\* is rejected.
Ret(t) ==
  /\ Statement(t, "ret")
  /\ \/ /\ Emit(<<Instr("return", "")>>)
        /\ blocks' = Done(blocks, TRUE)
        /\ UNCHANGED <<loc, loops>>
     \/ Reject

----------------------------------------------------------------------------
\* The heads of compound statements.

\* V5.pre: what computes an `in` of the condition goes in front of the line
\* that opens the block.
Hoisted(t) == IF t.x = "" THEN <<>> ELSE <<Instr("hoist", t.x)>>
Known(t) == t.x = "" \/ Find(t.x) # {}

OpenIf(t) ==
  /\ Statement(t, "if")
  /\ IF ~Known(t)
       THEN Reject
       ELSE /\ Emit(Append(Hoisted(t), Instr("if", "")))
            /\ blocks' = Append(blocks, Block("if", Len(loc), 0))
            /\ UNCHANGED <<loc, loops>>

\* `} else {` and `} else if c {`.
NextBranch(t) ==
  /\ t.k \in {"else", "elseif"}
  /\ NextToken
  /\ Last(blocks).kind = "if"
  /\ ~Last(blocks).hasElse
  /\ loc' = Dropped
  /\ IF t.x # "" /\ \A k \in 1..Len(loc') : loc'[k].name # t.x
       THEN verdict' = "rejected" /\ UNCHANGED <<blocks, code>>
       ELSE /\ Emit(<<Instr("close", "")>> \o Hoisted(t) \o <<Instr(t.k, "")>>)
            /\ LET top == Last(blocks)
               IN  blocks' = [blocks EXCEPT ![Len(blocks)] =
                                [top EXCEPT !.all = @ /\ top.returned,
                                            !.returned = FALSE,
                                            !.nloc = Len(loc'),
                                            !.hasElse = (t.k = "else")]]
  /\ UNCHANGED loops

OpenWhile(t) ==
  /\ Statement(t, "while")
  /\ IF ~Known(t)
       THEN Reject
       ELSE /\ Emit(Append(Hoisted(t), Instr("while", "")))
            /\ blocks' = Append(blocks, Block("while", Len(loc), 0))
            /\ loops' = Append(loops, "")
            /\ UNCHANGED loc

\* `loop x`.
OpenLoop(t) ==
  /\ Statement(t, "loop")
  /\ IF Find(t.x) = {} \/ Freed(t.x)
       THEN Reject
       ELSE /\ Emit(<<Instr("loop", t.x)>>)
            /\ blocks' = Append(blocks, Block("loop", Len(loc), 0))
            /\ loops' = Append(loops, "")
            /\ UNCHANGED loc

\* `for x in a..b` becomes a block that declares x and a counted loop.
OpenRange(t) ==
  /\ Statement(t, "range")
  /\ IF Find(t.x) # {}
       THEN Reject
       ELSE /\ Emit(<<Instr("scope", t.x), Instr("range", t.x)>>)
            /\ loc' = WithVar(t.x)
            /\ blocks' = Append(blocks, Block("range", Len(loc'), Len(loc)))
            /\ loops' = Append(loops, t.x)

\* `for x in array`.
OpenEach(t) ==
  /\ Statement(t, "each")
  /\ IF Find(t.x) # {}
       THEN Reject
       ELSE /\ Emit(<<Instr("each", t.x)>>)
            /\ loc' = WithVar(t.x)
            /\ blocks' = Append(blocks, Block("each", Len(loc'), Len(loc)))
            /\ loops' = Append(loops, "")

\* The value is kept in a variable of the enclosing block, which is taken to
\* have a name that the program does not use.
OpenMatch(t) ==
  /\ Statement(t, "match")
  /\ Emit(<<Instr("temp", "")>>)
  /\ blocks' = Append(blocks, Block("match", 0, 0))
  /\ UNCHANGED <<loc, loops>>

OpenCase(t) ==
  /\ t.k = "case"
  /\ NextToken
  /\ Last(blocks).kind = "match"
  /\ LET head == IF Last(blocks).hasCase THEN "elseif" ELSE "if"
     IN  Emit(<<Instr(head, "")>>)
  /\ blocks' = Append([blocks EXCEPT ![Len(blocks)].hasCase = TRUE],
                      Block("case", Len(loc), 0))
  /\ UNCHANGED <<loc, loops>>

OpenCaseElse(t) ==
  /\ t.k = "else"
  /\ NextToken
  /\ Last(blocks).kind = "match"
  /\ Emit(<<Instr("else", "")>>)
  /\ blocks' = Append([blocks EXCEPT ![Len(blocks)].hasElse = TRUE],
                      Block("else", Len(loc), 0))
  /\ UNCHANGED <<loc, loops>>

----------------------------------------------------------------------------
\* Closing braces, by the kind of the block they close.

Closing(t, kinds) ==
  /\ t.k = "}"
  /\ NextToken
  /\ Last(blocks).kind \in kinds

\* Mutated form: an if without else counts as returning when its branches do.
CloseIfAnyBranch(t) ==
  /\ Closing(t, {"if"})
  /\ Emit(<<Instr("close", "")>>)
  /\ loc' = Dropped
  /\ blocks' = Done(Front(blocks), Last(blocks).all /\ Last(blocks).returned)
  /\ UNCHANGED loops

CloseIf(t) ==
  /\ Closing(t, {"if"})
  /\ Emit(<<Instr("close", "")>>)
  /\ loc' = Dropped
  /\ blocks' = Done(Front(blocks), /\ Last(blocks).hasElse
                                   /\ Last(blocks).all
                                   /\ Last(blocks).returned)
  /\ UNCHANGED loops

\* A loop may run zero times: it never counts as returning.
CloseLoop(t) ==
  /\ Closing(t, {"while", "loop", "each"})
  /\ Emit(<<Instr("close", "")>>)
  /\ loc' = IF Last(blocks).kind = "each"
              THEN SubSeq(loc, 1, Last(blocks).before) ELSE Dropped
  /\ blocks' = Done(Front(blocks), FALSE)
  /\ loops' = Front(loops)

CloseRange(t) ==
  /\ Closing(t, {"range"})
  /\ Emit(<<Instr("inc", Last(loops)), Instr("close", ""), Instr("close", "")>>)
  /\ loc' = SubSeq(loc, 1, Last(blocks).before)
  /\ blocks' = Done(Front(blocks), FALSE)
  /\ loops' = Front(loops)

CloseCase(t) ==
  /\ Closing(t, {"case"})
  /\ Emit(<<Instr("close", "")>>)
  /\ loc' = Dropped
  /\ LET below == Front(blocks)
     IN  blocks' = [below EXCEPT ![Len(below)].all = @ /\ Last(blocks).returned]
  /\ UNCHANGED loops

\* The else branch is the last of its match: `} }` closes both.
CloseCaseElse(t) ==
  /\ Closing(t, {"else"})
  /\ Emit(<<Instr("close", "")>>)
  /\ loc' = Dropped
  /\ LET match == blocks[Len(blocks) - 1]
     IN  blocks' = Done(Front(Front(blocks)),
                        match.hasCase /\ match.all /\ Last(blocks).returned)
  /\ UNCHANGED loops

\* A match on a bool may do without an else, any other is rejected.
CloseMatch(t) ==
  /\ Closing(t, {"match"})
  /\ \/ /\ blocks' = Done(Front(blocks), FALSE)
        /\ UNCHANGED <<loc, loops, code, verdict>>
     \/ Reject

CloseFunction(t) ==
  /\ Closing(t, {"fn"})
  /\ IF valued /\ ~Last(blocks).returned
       THEN Reject
       ELSE /\ verdict' = "accepted"
            /\ blocks' = <<>>
            /\ loc' = <<>>
            /\ UNCHANGED <<loops, code>>

Parse ==
  \E t \in Tokens :
    \/ Bind(t) \/ Use(t) \/ Set(t) \/ Del(t)
    \/ Break(t) \/ Continue(t) \/ Ret(t)
    \/ OpenIf(t) \/ NextBranch(t) \/ OpenWhile(t) \/ OpenLoop(t)
    \/ OpenRange(t) \/ OpenEach(t)
    \/ OpenMatch(t) \/ OpenCase(t) \/ OpenCaseElse(t)
    \/ CloseIf(t) \/ CloseLoop(t) \/ CloseRange(t)
    \/ CloseCase(t) \/ CloseCaseElse(t) \/ CloseMatch(t) \/ CloseFunction(t)

Spec == Init /\ [][Parse]_vars

----------------------------------------------------------------------------
\* Types, and an entry of loop_kind for every loop that is open.
TypeOK ==
  /\ valued \in BOOLEAN
  /\ verdict \in {"parse", "accepted", "rejected"}
  /\ loc \in Seq([name : Name, freed : BOOLEAN])
  /\ loops \in Seq(Name \cup {""})
  /\ read \in 0..MaxTokens
  /\ verdict = "parse" => blocks # <<>>
  /\ Len(loops) =
       Cardinality({k \in 1..Len(blocks) : blocks[k].kind \in Loops})

\* What is still open at the end of the emitted text.
Count(first, last, ops) ==
  Cardinality({q \in first..last : code[q].op \in ops})

\* The lines that declare a name the C or native compiler still sees.
VisibleLines ==
  {q \in 1..Len(code) :
     /\ code[q].op \in {"bind", "scope", "each"}
     /\ \A last \in q..Len(code) :
          LET opened == Count(q, last, Openings)
              closed == Count(q, last, {"close"})
          IN  IF code[q].op = "bind" THEN closed <= opened ELSE closed < opened}

\* The transpiler's table of names and the braces it emits agree at every
\* point of a body: a name it resolves is in scope in the emitted text, one
\* it forgot is not, and none is declared twice where both are visible
\* (open_block, close_block, open_scope, parse_for; shadowing, SPEC.md 6).
ScopesAgree ==
  verdict = "parse" =>
    LET declared == {code[q].x : q \in VisibleLines}
    IN  /\ declared = {loc[k].name : k \in 1..Len(loc)}
        /\ Cardinality(declared) = Cardinality(VisibleLines)
        /\ Cardinality(declared) = Len(loc)
=============================================================================
