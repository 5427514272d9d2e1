---------------------------- MODULE MCV5Includes ----------------------------
(***************************************************************************)
(* The v5 include mechanism on the trees of IncludeTree.                   *)
(***************************************************************************)
EXTENDS V5Includes, IncludeTree

MCStrict == TreePath \ {other}
=============================================================================
