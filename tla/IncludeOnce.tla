---------------------------- MODULE IncludeOnce ----------------------------
(***************************************************************************)
(* What `incl <name>` promises in both dialects of Lu (SPEC.md, section    *)
(* 8): the text of a translation unit is the main file read from top to    *)
(* bottom, each directive replaced in place by the file it names the first *)
(* time that file is met, and by nothing every later time.                 *)
(*                                                                         *)
(* The unit is a work list of lines.  ClassicIncludes.tla (a stack of      *)
(* files being read) and V5Includes.tla (a token stream spliced while it   *)
(* is parsed) are shown to implement this specification.                   *)
(***************************************************************************)
EXTENDS Naturals, Sequences

CONSTANTS
  Path,      \* the paths that can be opened, as the compiler spells them
  NoPath,    \* what a search that finds nothing returns
  Name,      \* what stands between the angle brackets of a directive
  Text,      \* a line that is no directive (its wording is left out)
  Main,      \* the path given on the command line
  RealPath,  \* realpath(3): the canonical spelling of a path
  From,      \* the spelling a pulled file's own directives are resolved from
  Refuses,   \* whether a unit that has been read may still be refused
  Resolve    \* [Path -> [Name -> Path \cup {NoPath}]]: the search, per includer

Line == Name \cup {Text}

VARIABLES
  body,    \* the contents of the files, chosen once
  todo,    \* lines still to be read: <<spelling of the file, line number>>
  seen,    \* canonical paths already pulled in
  text,    \* lines of the unit so far: <<canonical path, line number>>
  outcome  \* "run", "ok" or "failed"

vars == <<body, todo, seen, text, outcome>>

Lines(p) == body[RealPath[p]]
LinesOf(p) == [i \in 1..Len(Lines(p)) |-> <<p, i>>]
LineAt(item) == Lines(item[1])[item[2]]

\* The file the directive at the head of the work list names.
Named == Resolve[Head(todo)[1]][LineAt(Head(todo))]

Init ==
  /\ body \in [Path -> Seq(Line)]
  /\ todo = LinesOf(Main)
  /\ seen = {}
  /\ text = <<>>
  /\ outcome = "run"

Copy ==
  /\ outcome = "run"
  /\ todo # <<>>
  /\ LineAt(Head(todo)) = Text
  /\ text' = Append(text, <<RealPath[Head(todo)[1]], Head(todo)[2]>>)
  /\ todo' = Tail(todo)
  /\ UNCHANGED <<body, seen, outcome>>

AtDirective ==
  /\ outcome = "run"
  /\ todo # <<>>
  /\ LineAt(Head(todo)) # Text

Skip ==
  /\ AtDirective
  /\ Named # NoPath
  /\ RealPath[Named] \in seen
  /\ todo' = Tail(todo)
  /\ UNCHANGED <<body, seen, text, outcome>>

Pull ==
  /\ AtDirective
  /\ Named # NoPath
  /\ RealPath[Named] \notin seen
  /\ seen' = seen \cup {RealPath[Named]}
  /\ todo' = LinesOf(From[Named]) \o Tail(todo)
  /\ UNCHANGED <<body, text, outcome>>

\* A missing file, a file of the other dialect, an unreadable file, too deep
\* a nesting or a duplicate declaration ends it; nothing is delivered.
Fail ==
  /\ outcome = "run"
  /\ todo # <<>>
  /\ outcome' = "failed"
  /\ seen \subseteq seen'
  /\ UNCHANGED <<body, text, todo>>

Finish ==
  /\ outcome = "run"
  /\ todo = <<>>
  /\ outcome' = "ok"
  /\ UNCHANGED <<body, todo, seen, text>>

\* The whole unit has been read and the compiler of its dialect, which checks
\* it line by line, does not accept one of them.
Refuse ==
  /\ Refuses
  /\ outcome = "run"
  /\ todo = <<>>
  /\ outcome' = "failed"
  /\ UNCHANGED <<body, todo, seen, text>>

Next == Copy \/ Skip \/ Pull \/ Fail \/ Finish \/ Refuse

Spec == Init /\ [][Next]_vars
=============================================================================
