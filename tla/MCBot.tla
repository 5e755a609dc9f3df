-------------------------------- MODULE MCBot --------------------------------
(****************************************************************************)
(* One participant, who may vote.  Everything that can be said of two in    *)
(* the voting is checked in CommandLoop; here it is the goroutines that are *)
(* many.                                                                    *)
(****************************************************************************)
EXTENDS Bot

CONSTANTS Alice, Engineer
==============================================================================
