---------------------------- MODULE MCTransport -----------------------------
(****************************************************************************)
(* Main and Listen sending over one connection, with a sequence number that *)
(* wraps within the bound on calls.                                         *)
(****************************************************************************)
EXTENDS Transport

CONSTANT Main
==============================================================================
