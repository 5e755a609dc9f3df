---------------------------- MODULE MCCommandLoop ----------------------------
(****************************************************************************)
(* The command goroutine with every command possible at any time.           *)
(****************************************************************************)
EXTENDS CommandLoop

CONSTANTS Alice, Bob, Engineer, Manager
==============================================================================
