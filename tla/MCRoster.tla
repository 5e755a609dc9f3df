------------------------------- MODULE MCRoster ------------------------------
(****************************************************************************)
(* The bot, an engineer, and a manager who may not vote.  What becomes of   *)
(* one participant does not depend on the others, so one of each is enough; *)
(* the bound on frames lets the engineer join, vote, leave, come back and   *)
(* vote again.                                                              *)
(****************************************************************************)
EXTENDS Roster

CONSTANTS Bot, Alice, Carol, Engineer, Manager

Name == [id \in Ids |-> IF id = Carol THEN Manager ELSE Engineer]
==============================================================================
