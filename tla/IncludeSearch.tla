--------------------------- MODULE IncludeSearch ---------------------------
(***************************************************************************)
(* Where `incl <name>` looks for a file: resolve() of src/includes.c and   *)
(* its twin resolve_include() of src/v5.c.  A path is a directory, as it   *)
(* is spelled, and a leaf; a leaf is a stem with or without the extension  *)
(* `.lu`, and so is a name.                                                *)
(***************************************************************************)
EXTENDS Naturals, Sequences

CONSTANTS
  SearchDirs,   \* ".", "include", "../include", beside luc, $LU_INCLUDE
  Readable,     \* the paths that can be opened: <<directory, leaf>>
  NoPath

\* A name that ends in .lu is taken as it is; to any other name the
\* extension is added first.
Leaves(name) ==
  IF name.lu THEN <<name>> ELSE <<[name EXCEPT !.lu = TRUE], name>>

\* dirs[]: the directory of the including file comes before the others.
Dirs(includer) == <<includer[1]>> \o SearchDirs

\* The order in which the candidates are opened: directory by directory, the
\* leaves of the name within each.
Candidates(includer, name) ==
  LET width == Len(Leaves(name))
  IN  [k \in 1..(Len(Dirs(includer)) * width) |->
         <<Dirs(includer)[((k - 1) \div width) + 1],
           Leaves(name)[((k - 1) % width) + 1]>>]

Search(includer, name) ==
  LET tried == Candidates(includer, name)
      hits  == {k \in DOMAIN tried : tried[k] \in Readable}
  IN  IF hits = {} THEN NoPath
      ELSE tried[CHOOSE k \in hits : \A other \in hits : k <= other]
=============================================================================
