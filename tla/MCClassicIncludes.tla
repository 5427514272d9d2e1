------------------------- MODULE MCClassicIncludes -------------------------
(***************************************************************************)
(* The Classic include expander on the trees of IncludeTree.               *)
(***************************************************************************)
EXTENDS ClassicIncludes, IncludeTree

MCStrict == {other}
=============================================================================
