-------------------------- MODULE ClassicIncludes --------------------------
(***************************************************************************)
(* The include expander of Lu Classic (src/includes.c): expand() reads a   *)
(* file line by line, calls itself on every file it pulls in and appends   *)
(* to one output buffer.  A stack frame is one activation of expand(); the *)
(* fields of Incl are `seen`.                                              *)
(***************************************************************************)
EXTENDS Naturals, Sequences, FiniteSets

CONSTANTS
  Path, NoPath, Name, Text, Main, RealPath, Resolve, Bodies,
  Strict,     \* canonical paths whose first line is Lu/Strict (v5 files)
  MaxDepth    \* INCL_MAX_DEPTH

Line == Name \cup {Text}

ASSUME ClassicAssumption ==
  /\ NoPath \notin Path
  /\ Text \notin Name
  /\ Main \in Path
  /\ RealPath \in [Path -> Path]
  /\ \A p \in Path : RealPath[RealPath[p]] = RealPath[p]
  /\ Resolve \in [Path -> [Name -> Path \cup {NoPath}]]
  /\ Bodies \subseteq [Path -> Seq(Line)]
  /\ Strict \subseteq Path
  /\ MaxDepth \in Nat

VARIABLES
  body,    \* the contents of the files by canonical path, chosen once
  stack,   \* activations of expand(): [path, line], the newest last
  seen,    \* Incl.seen
  out,     \* the output buffer: <<canonical path, line number>>
  status   \* "run", "ok", or the error lu_expand_includes reports

vars == <<body, stack, seen, out, status>>

Errors == {"missing", "unreadable", "dialect", "tooDeep"}

Frame == [path : Path, line : Nat \ {0}]
Place == Path \X (Nat \ {0})

TypeOK ==
  /\ body \in [Path -> Seq(Line)]
  /\ stack \in Seq(Frame)
  /\ stack # <<>>
  /\ \A k \in 1..Len(stack) : stack[k].line <= Len(body[RealPath[stack[k].path]]) + 1
  /\ seen \subseteq Path
  /\ out \in Seq(Place)
  /\ status \in {"run", "ok"} \cup Errors

Top == stack[Len(stack)]
Lines(p) == body[RealPath[p]]
Current == Lines(Top.path)[Top.line]
NextLine == [stack EXCEPT ![Len(stack)].line = @ + 1]

Named == Resolve[Top.path][Current]
Target == RealPath[Named]

Reading == status = "run" /\ Top.line <= Len(Lines(Top.path))
AtDirective == Reading /\ Current \in Name

Init ==
  /\ body \in Bodies
  /\ stack = <<[path |-> Main, line |-> 1]>>
  /\ seen = {}
  /\ out = <<>>
  /\ status = "run"

\* Any line that is not a directive is copied.  (A C header, `incl <x.h>`, is
\* such a line: it becomes an Import line in the same place.)
CopyLine ==
  /\ Reading
  /\ Current = Text
  /\ out' = Append(out, <<RealPath[Top.path], Top.line>>)
  /\ stack' = NextLine
  /\ UNCHANGED <<body, seen, status>>

NotFound ==
  /\ AtDirective
  /\ Named = NoPath
  /\ status' = "missing"
  /\ UNCHANGED <<body, stack, seen, out>>

\* Mutated form: `p` is not advanced before `continue`.
SkipWithoutAdvance ==
  /\ AtDirective
  /\ Named # NoPath
  /\ Target \in seen
  /\ UNCHANGED vars

AlreadyIncluded ==
  /\ AtDirective
  /\ Named # NoPath
  /\ Target \in seen
  /\ stack' = NextLine
  /\ UNCHANGED <<body, seen, out, status>>

\* Mutated form: the file is remembered only after it has been expanded.
RememberLate ==
  /\ AtDirective
  /\ Named # NoPath
  /\ Target \notin seen
  /\ IF Len(stack) > MaxDepth
       THEN status' = "tooDeep" /\ UNCHANGED stack
       ELSE /\ stack' = Append(NextLine, [path |-> Target, line |-> 1])
            /\ UNCHANGED status
  /\ UNCHANGED <<body, seen, out>>

\* remember() comes before the file is opened, so that a file that names
\* itself, or is named again further down, is not pulled in a second time.
PullIn ==
  /\ AtDirective
  /\ Named # NoPath
  /\ Target \notin seen
  /\ seen' = seen \cup {Target}
  /\ \/ /\ status' = "unreadable"   \* gone since resolve() opened it
        /\ UNCHANGED stack
     \/ /\ Target \in Strict
        /\ status' = "dialect"
        /\ UNCHANGED stack
     \/ /\ Target \notin Strict
        /\ Len(stack) > MaxDepth    \* the callee's depth is Len(stack)
        /\ status' = "tooDeep"
        /\ UNCHANGED stack
     \/ /\ Target \notin Strict
        /\ Len(stack) <= MaxDepth
        /\ stack' = Append(NextLine, [path |-> Target, line |-> 1])
        /\ UNCHANGED status
  /\ UNCHANGED <<body, out>>

\* The end of a file: expand() returns to its caller, or is done.
EndOfFile ==
  /\ status = "run"
  /\ Top.line > Len(Lines(Top.path))
  /\ IF Len(stack) = 1
       THEN status' = "ok" /\ UNCHANGED stack
       ELSE stack' = SubSeq(stack, 1, Len(stack) - 1) /\ UNCHANGED status
  /\ UNCHANGED <<body, seen, out>>

Next == CopyLine \/ NotFound \/ AlreadyIncluded \/ PullIn \/ EndOfFile

Spec == Init /\ [][Next]_vars

\* expand() is a loop in one process: it takes its next step.
FairSpec == Spec /\ WF_vars(Next)

----------------------------------------------------------------------------
\* A text line of file p that the unit holds.
Emitted(p, i) == \E k \in 1..Len(out) : out[k] = <<p, i>>

\* include-once (SPEC.md 8.3; includes.c:21): however many names and
\* spellings a file has, none of its lines enters the unit twice.  The main
\* file is excepted: nothing remembers it, and a cycle reads it again.
OncePerFile ==
  \A j, k \in 1..Len(out) :
    (out[j] = out[k] /\ out[j][1] # RealPath[Main]) => j = k

\* The depth error asks "is there a cycle?" (includes.c:263).  A cycle cannot
\* cause it: it takes more than MaxDepth different files.
DepthErrorIsNoCycle == status = "tooDeep" => Cardinality(seen) > MaxDepth

----------------------------------------------------------------------------
\* The lines the activations have still to read, the innermost file's first.
Rest(frame) ==
  [i \in 1..(Len(Lines(frame.path)) - frame.line + 1) |->
     <<frame.path, frame.line + i - 1>>]

Unread ==
  LET unread[n \in 0..Len(stack)] ==
        IF n = 0 THEN <<>> ELSE Rest(stack[n]) \o unread[n - 1]
  IN  unread[Len(stack)]

\* A nested file is resolved from its canonical path.  The expander knows no
\* declarations: a unit that has been read is delivered.
Unit == INSTANCE IncludeOnce
  WITH todo <- Unread,
       text <- out,
       From <- RealPath,
       Refuses <- FALSE,
       outcome <- IF status \in Errors THEN "failed" ELSE status

\* expand() delivers the work list's text: each directive is replaced in
\* place by the file it names, the first time only (includes.c:256-357).
ImplementsIncludeOnce == Unit!Spec

\* "Diamonds and cycles terminate" (SPEC.md 8.3): whatever the tree, the
\* expander ends with a unit or with one error.
Terminates == <>(status # "run")
=============================================================================
