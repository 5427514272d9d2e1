---------------------------- MODULE IncludeTree ----------------------------
(***************************************************************************)
(* The source tree the include runs are checked on: the directory r of the *)
(* main file, a library directory s that the search list spells in another *)
(* way (s2, as r/../s would), and in r a symbolic link to a file of s.     *)
(***************************************************************************)
EXTENDS Naturals, Sequences, FiniteSets

Leaf(stem) == [stem |-> stem, lu |-> TRUE]
File(dir, stem) == <<dir, Leaf(stem)>>

main  == File("r", "main")
ra    == File("r", "a")
sa    == File("s", "a")
sb    == File("s", "b")
link  == File("r", "link")     \* -> s/b.lu
other == File("r", "other")    \* a file of the other dialect

TreePath ==
  {main, ra, sa, sb, link, other, File("s2", "a"), File("s2", "b")}

TreeRealPath ==
  [p \in TreePath |->
     IF p = link THEN sb
     ELSE IF p[1] = "s2" THEN <<"s", p[2]>> ELSE p]

Bare(stem) == [stem |-> stem, lu |-> FALSE]
TreeName ==
  {Bare("main"), Bare("a"), Bare("b"), Leaf("b"), Bare("link"),
   Bare("other"), Bare("nowhere")}

TreeText == [stem |-> "text", lu |-> FALSE]

Nowhere == <<"", Bare("nowhere")>>

Searching == INSTANCE IncludeSearch
  WITH SearchDirs <- <<"r", "s2">>, Readable <- TreePath, NoPath <- Nowhere

TreeResolve ==
  [p \in TreePath |-> [name \in TreeName |-> Searching!Search(p, name)]]

UpTo(n, lines) == UNION {[1..k -> lines] : k \in 0..n}

Contents(m, a, s, b) ==
  [[p \in TreePath |-> <<>>] EXCEPT
     ![main] = m, ![ra] = a, ![sa] = s, ![sb] = b]

\* Every tree whose main file has up to two lines, s/b.lu up to two, and the
\* files r/a.lu and s/a.lu up to one: chains, diamonds, shadowed names,
\* cycles of one, two and three files, and cycles through the main file.
TreeBodies ==
  {Contents(m, a, s, b) :
     m \in UpTo(2, {TreeText, Bare("a"), Bare("b"), Bare("main"),
                    Bare("other")}),
     a \in UpTo(1, {TreeText, Bare("b"), Bare("link"), Bare("nowhere")}),
     s \in UpTo(1, {TreeText, Leaf("b"), Bare("main")}),
     b \in UpTo(2, {TreeText, Bare("a"), Bare("link"), Bare("main")})}
=============================================================================
