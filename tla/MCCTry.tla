------------------------------- MODULE MCCTry -------------------------------
(***************************************************************************)
(* Two codes; clauses that take the first, the second, everything, and two *)
(* in a row.                                                               *)
(***************************************************************************)
EXTENDS CTry

CONSTANTS mem, ip

MCCodes == {mem, ip}
MCClauses == {<<>>, <<mem>>, <<mem, Any>>, <<Any, mem>>}
=============================================================================
